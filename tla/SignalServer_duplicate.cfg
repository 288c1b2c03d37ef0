CONSTANTS
    c1 = c1  c2 = c2  c3 = c3
    p1 = p1  p2 = p2
    Conns = {c1, c2}
    Peers = {p1, p2}
    IdOf <- IdOfTwins
    Cap = 1
    MaxFrames = 0
    Talkers = {}
    Flaky = {}
    Deaf = {}
    System = System
    None = None
SPECIFICATION Spec
INVARIANTS NeverTwoOfOne
CHECK_DEADLOCK FALSE
