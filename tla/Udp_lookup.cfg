\* Two sessions; two port values, so that the counter gives 1, then 0, then 1
\* again; datagrams also come for another address.
SPECIFICATION Spec
CONSTANTS
    MaxSessions = 2
    Peers <- TwoPeers
    LocalAddr = 3
    LAddrs = {3, 4}
    PortStart = 0
    PortSpace = 2
INVARIANTS
    TypeOK
    FindIsBestMatch
    AnswerMatchesSender
    CrashNeedsCloseDuringRx
\* A crash ends a behaviour.
CHECK_DEADLOCK FALSE
