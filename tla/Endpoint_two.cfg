\* Two sockets, one of them non-blocking, on one event loop.
SPECIFICATION FairSpec
CONSTANTS
    s1 = s1
    s2 = s2
    NoSocket = NoSocket
    Sockets <- TwoSockets
    Nonblocking <- OnlyS2
    RecvQLimit = 1
    PipeCapacity = 2
    MaxPackets = 4
INVARIANTS
    RecvQIsExact
    DeliveredInOrder
    NoLostWakeup
PROPERTIES
    ImplementsMailbox
    MailboxProgress
\* All packets have arrived and every caller is parked: recvfrom waits for
\* ever for a packet that does not come, as it does in the code.
CHECK_DEADLOCK FALSE
