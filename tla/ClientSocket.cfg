CONSTANTS
    t1 = t1
    t2 = t2
    p1 = p1
    p2 = p2
    Callers <- MCCallers
    Peers <- MCPeers
    Buffer = 1
    MaxSends = 2
    MaxRead = 2
SPECIFICATION Spec
INVARIANTS WrittenInOrder
PROPERTIES AllWritten MessagesHandled
CHECK_DEADLOCK FALSE
