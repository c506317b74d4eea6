\* The peer refuses the connection.
SPECIFICATION Spec
CONSTANTS
    Networks <- ReliableOnly
    Refuses = TRUE
    PeerISS = 5
    SendBytes <- Small
    PeerBytes <- Small
    SegLens <- OneOrTwo
    QueueLimit = 2
    MaxGot <- Small
INVARIANTS
    SynSentGetsSynAck
\* All bytes are sent and received: the connection is idle.
CHECK_DEADLOCK FALSE
