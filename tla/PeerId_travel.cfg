CONSTANTS
    Capacities = {1, 2, 32, 127, 128, 255, 256, 258}
    Texts <- MCTexts
    Requests <- MCRequests
    Payloads <- MCPayloads
    Null = Null
    Wires <- MCWires
    NoId = NoId
SPECIFICATION Spec
INVARIANTS SameIdentifier SamePayload NeverRefused
CHECK_DEADLOCK FALSE
