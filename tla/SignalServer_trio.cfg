CONSTANTS
    c1 = c1  c2 = c2  c3 = c3
    p1 = p1  p2 = p2
    Conns = {c1, c2, c3}
    Peers = {p1, p2}
    IdOf <- IdOfTrio
    Cap = 1
    MaxFrames = 0
    Talkers = {}
    Flaky = {c1}
    Deaf = {c2, c3}
    System = System
    None = None
SPECIFICATION Spec
INVARIANTS NoStaleHandler ServedIsFound GaugeAccount BroadcastReaches
CHECK_DEADLOCK FALSE
