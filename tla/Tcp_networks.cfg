\* A network that keeps order and loses nothing, and one that loses, duplicates
\* and reorders; a queue that fills up.
SPECIFICATION FairSpec
CONSTANTS
    Networks <- BothNetworks
    Refuses = TRUE
    PeerISS = 5
    SendBytes <- Lower
    PeerBytes <- More
    SegLens <- OneOrTwo
    QueueLimit = 0
    MaxGot <- Three
INVARIANTS
    TypeOK
    AcksOnlySent
    SendSideIsSound
    StreamAccounted
PROPERTIES
    ReliableProgress
\* All bytes are sent and received: the connection is idle.
CHECK_DEADLOCK FALSE
