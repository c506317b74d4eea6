\* One thread uses a socket of any kind, or two share it.
SPECIFICATION FairSpec
CONSTANTS
    t1 = t1
    t2 = t2
    Threads <- TwoThreads
    Users <- OneOrBoth
    CallsOf <- EveryThreadCalls
    SockTypes <- BothTypes
    Modes <- BothModes
    MaxQueued = 2
INVARIANTS
    TypeOK
    AtMostOneAnswer
    ResponseMatchesCall
    TcpResponsesAreSound
    OrderlyCloseIsHarmless
PROPERTIES
    GoneIsRemoved
    CallReturns
\* A closed or dead client ends a behaviour, as does a call that waits for ever.
CHECK_DEADLOCK FALSE
