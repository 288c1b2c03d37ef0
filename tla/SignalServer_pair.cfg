CONSTANTS
    c1 = c1  c2 = c2  c3 = c3
    p1 = p1  p2 = p2
    Conns = {c1, c2}
    Peers = {p1, p2}
    IdOf <- IdOfPair
    Cap = 1
    MaxFrames = 1
    Talkers = {c2}
    Flaky = {c1}
    Deaf = {c1}
    System = System
    None = None
SPECIFICATION FairSpec
INVARIANTS Routed MutualDiscovery
PROPERTIES ImplementsMailbox MailDrains GoneIsRemoved
CHECK_DEADLOCK FALSE
