\* Does the event loop thread ever block in a callback?
SPECIFICATION Spec
CONSTANTS
    s1 = s1
    s2 = s2
    NoSocket = NoSocket
    Sockets <- TwoSockets
    Nonblocking <- None
    RecvQLimit = 1
    PipeCapacity = 2
    MaxPackets = 2
INVARIANT
    LoopNeverBlocks
CHECK_DEADLOCK FALSE
