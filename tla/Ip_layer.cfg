SPECIFICATION Spec
CONSTANTS
    Datagrams <- AllDatagrams
    LAddr <- Local
    FAddr <- Peer
    Ports <- SomePorts
    Seqs <- SomeSeqs
    Payloads <- Buffers
    UINT16_MAX = 3
    Workloads <- AllWorkloads
    MaxRxQ = 2
\* The network delivers finitely many packets and the daemon may end.
CHECK_DEADLOCK FALSE
INVARIANTS
    TypeOK
    WholeDatagrams
    OutsideInIsCompleted
    WholePacketsInOrder
    StopIsHeeded
    IdsDistinct
    ChecksumsVerify
PROPERTIES
    RxQIsEmptied
