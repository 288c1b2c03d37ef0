CONSTANTS
    MaxListens = 2
    MaxSessions = 2
    MaxIfEvents = 2
    Cap = 1
    Budget = 2
    Fails <- Closing
SPECIFICATION Spec
INVARIANTS NoLostWakeup ReportedInOrder OrphanTakesOne
PROPERTIES SessionsReported NodeRests
CHECK_DEADLOCK FALSE
