CONSTANTS
    p1 = p1
    Peers <- MCPeers
    MaxCallbacks = 2
    MaxCalls = 2
    MaxIncoming = 1
    MaxMessages = 1
    MaxOffers = 1
SPECIFICATION Spec
INVARIANTS HeardInOrder EventsTellWhatWorks
PROPERTY PageRests
CHECK_DEADLOCK FALSE
