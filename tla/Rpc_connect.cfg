\* connect() on a UDP socket and on a non-blocking TCP one.
SPECIFICATION Spec
CONSTANTS
    t1 = t1
    t2 = t2
    Threads <- OneThread
    Users <- JustT1
    CallsOf <- AllCalls
    SockTypes <- BothTypes
    Modes <- NonblockingMode
    MaxQueued = 1
INVARIANTS
    ConnectAnswersAreConnects
\* A closed or dead client ends a behaviour, as does a call that waits for ever.
CHECK_DEADLOCK FALSE
