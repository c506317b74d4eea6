SPECIFICATION Spec
CONSTANTS
    t1 = t1
    t2 = t2
    k1 = k1
    Threads <- TwoThreads
    Kid = k1
    StartFd = 5
    FdCount = 2
    OpenMax = 5
    MaxSockets = 3
SYMMETRY Swap
\* A process may be gone, or have made all its calls.
CHECK_DEADLOCK FALSE
INVARIANTS
    TypeOK
    GivenOnce
    OverrunNeedsExhaustion
    MapIsExact
    NoChannelLost
