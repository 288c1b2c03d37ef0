CONSTANTS
    c1 = c1
    c2 = c2
    Addresses <- MCAddresses
    Interfaces <- MCInterfaces
    Unspecified <- MCUnspecified
    Ephemeral = 9
    Calls <- MCCalls
    MaxStreams = 1
    MaxBytes = 4
    MaxChunk = 3
SPECIFICATION Spec
INVARIANTS DialReachesListener ReadInOrder EndMeansAll SafeBuffers
PROPERTY CallsGetThrough
CHECK_DEADLOCK FALSE
