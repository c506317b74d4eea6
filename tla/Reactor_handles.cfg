SPECIFICATION Spec
CONSTANTS
    t1 = t1
    u1 = u1
    Tcp <- OneTcp
    Udp <- OneUdp
    MaxEvents = 2
    MaxQueued = 1
    Readers <- OneTcp
    Mortal <- OneTcp
\* Clients that have closed, or a crashed daemon, end a behaviour.
CHECK_DEADLOCK FALSE
INVARIANTS
    TypeOK
    RegistryExact
    CrashNeedsCloseOrRace
    NoOrphan
PROPERTIES
    ClosedIsFreed
    RequestIsRead
