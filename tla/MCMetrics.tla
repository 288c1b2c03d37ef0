----------------------------- MODULE MCMetrics -----------------------------
(* Small instances of Metrics. Threads and labels are interchangeable.      *)
EXTENDS Metrics, TLC

CONSTANTS t1, t2, r1, k1

Symmetry == Permutations({t1, t2})

(* One bound, and a value on it and one above it.                          *)
FewRequests == {<<10>>}
FewValues   == {10, 11, Inf}

(* The default; out of order with duplicates and an infinite one; with a   *)
(* NaN; none that is finite.                                               *)
OddRequests == {NoBuckets, <<20, 10, Inf, 20>>, <<10, NaN, 5>>, <<Inf>>}

(* No label, and two labels in both orders.                                *)
Label(name)   == [name |-> name, value |-> "a"]
FewLabelLists == {<<>>, <<Label(1), Label(2)>>, <<Label(2), Label(1)>>}
FewAmounts    == {-500, 500, NaN}

OneKind == {"histogram"}
AllKinds == {"histogram", "counter", "gauge"}
=============================================================================
