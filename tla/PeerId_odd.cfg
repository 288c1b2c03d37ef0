CONSTANTS
    Capacities = {32}
    Texts <- MCTexts
    Requests <- MCRequests
    Payloads <- MCPayloads
    Null = Null
    Wires <- MCWires
    NoId = NoId
SPECIFICATION Spec
INVARIANTS OddDigitsAreAnError
CHECK_DEADLOCK FALSE
