\* Two threads share a connected TCP socket, one sends, one receives.
SPECIFICATION Spec
CONSTANTS
    t1 = t1
    t2 = t2
    Threads <- TwoThreads
    Users <- Both
    CallsOf <- SenderAndReceiver
    SockTypes <- Tcp
    Modes <- Blocking
    MaxQueued = 1
INVARIANTS
    ConnectedThreadsGetTheirAnswers
\* A closed or dead client ends a behaviour, as does a call that waits for ever.
CHECK_DEADLOCK FALSE
