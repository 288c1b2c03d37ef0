CONSTANTS
    t1 = t1  t2 = t2  r1 = r1  k1 = k1
    Empty = Empty  Inf = Inf  NaN = NaN
    NoBuckets = NoBuckets  None = None
    Threads = {t1, t2}
    Keys = {Empty, k1}
    Readers = {r1}
    Requests <- FewRequests
    Values <- FewValues
    MaxObs = 2
    MaxTimers = 0
    LabelLists <- FewLabelLists
    Amounts <- FewAmounts
    MaxOps = 2
    Kinds <- AllKinds
SPECIFICATION MetricsSpec
INVARIANTS SnapshotHolds ValuesAddUp GatheredInTime
SYMMETRY Symmetry
CHECK_DEADLOCK FALSE
