CONSTANTS
    c1 = c1
    c2 = c2
    Clients <- MCClients
    MaxCalls <- MCMaxCalls
    MaxCandidates = 1
SPECIFICATION Spec
INVARIANTS NoOrphanOffer CandidatesAreTaken AnswersFit
PROPERTIES RemoteIsFinal LossNeedsOvertaking OneCallConnects CrossedCallsAnswered
CHECK_DEADLOCK FALSE
