------------------------------ MODULE Metrics ------------------------------
(***************************************************************************)
(* InMemoryMetrics of sf-metrics: its counters, gauges and histograms. The *)
(* three maps have nothing in common, so a behaviour is about one metric,  *)
(* of one kind: a histogram, as in Histogram, or a counter or gauge, which *)
(* threads register, take handles of for labels, and change, while others  *)
(* gather the text of all values. A value is one atomic.                   *)
(***************************************************************************)
EXTENDS Histogram

CONSTANTS
    Kinds,       \* the kinds of metric looked at (bound)
    LabelLists,  \* Labels as a caller writes them: pairs of a name and a value
    Amounts,     \* what is added, subtracted or set, in thousandths (bound)
    MaxOps       \* changes of the value (bound)

ASSUME LabelsAssumption ==
    /\ <<>> \in LabelLists
    /\ \A l \in LabelLists :
        /\ l \in Seq(ToSet(l)) /\ \A i \in DOMAIN l : l[i].name \in Int
        /\ \A i, j \in DOMAIN l : l[i].name = l[j].name => i = j
ASSUME OpsAssumption == MaxOps \in Nat
ASSUME AmountsAssumption ==
    NaN \notin Int /\ None \notin Int /\ NaN # None /\ \A v \in Amounts : v \in Int \cup {NaN}

VARIABLES
    kind,    \* which of the three maps the name is in
    filed,   \* whether there is a MetricStorage under the name
    data,    \* its map: the value for each LabelKey, or None
    holds,   \* the handle of each thread: whether it has the storage, and for what labels
    text,    \* what each reader that gathers has put down
    ops      \* history: the calls that change a value, as they were made

single == <<kind, filed, data, holds, text, ops>>

(* Mutant: the labels are left in the order of the caller.                 *)
LabelKeyUnsorted(labels) == labels

(* LabelKey::new: sorted by name. No name is there twice; the sort is      *)
(* unstable and would leave their order open.                              *)
LabelKey(labels) == Sorted(labels, LAMBDA a, b : a.name < b.name)

LabelKeys == {LabelKey(l) : l \in LabelLists} \cup LabelLists

NoText   == [lines |-> None]
NoSingle == [storage |-> FALSE, labels |-> None]

MetricsInit ==
    /\ Init
    /\ kind \in Kinds
    /\ filed = FALSE /\ data = [k \in LabelKeys |-> None]
    /\ holds = [t \in Threads |-> NoSingle]
    /\ text = [r \in Readers |-> NoText]
    /\ ops = <<>>

-----------------------------------------------------------------------------
(* entry(name).or_insert_with. The handle without labels is still to be    *)
(* made.                                                                   *)
RegisterSingle(t) ==
    /\ holds[t] = NoSingle
    /\ filed' = TRUE
    /\ holds' = [holds EXCEPT ![t].storage = TRUE]
    /\ UNCHANGED <<kind, data, text, ops>>

(* counter and gauge.                                                      *)
RegisterCounter(t) == kind = "counter" /\ RegisterSingle(t)
RegisterGauge(t)   == kind = "gauge" /\ RegisterSingle(t)

(* Mutant: a handle starts from zero.                                      *)
GetOrCreateAnew(labels) == data' = [data EXCEPT ![LabelKey(labels)] = 0]

(* get_or_create_default.                                                  *)
GetOrCreateDefault(labels) ==
    data' = [data EXCEPT ![LabelKey(labels)] = IF @ = None THEN 0 ELSE @]

(* InMemoryCounter::new and InMemoryGauge::new.                            *)
NewSingle(t, labels) ==
    /\ GetOrCreateDefault(labels)
    /\ holds' = [holds EXCEPT ![t].labels = labels]
    /\ UNCHANGED <<kind, filed, text, ops>>

(* The handle at the end of a registration, or of without_labels.          *)
WithoutLabels(t) == holds[t].storage /\ NewSingle(t, <<>>)

WithLabels(t, labels) == holds[t].labels # None /\ NewSingle(t, labels)

-----------------------------------------------------------------------------
Plus(a, b) == IF NaN \in {a, b} THEN NaN ELSE a + b
Negative(v) == v # NaN /\ v < 0
Opposite(v) == IF v = NaN THEN NaN ELSE -v

Updates(t, v) == data' = [data EXCEPT ![LabelKey(holds[t].labels)] = v]
Value(t)      == data[LabelKey(holds[t].labels)]

(* Every call changes the value once, or not at all.                       *)
Calls(t, call, v) ==
    /\ holds[t].labels # None /\ Len(ops) < MaxOps
    /\ ops' = Append(ops, [labels |-> ToSet(holds[t].labels), call |-> call, v |-> v])
    /\ UNCHANGED <<kind, filed, holds, text>>

Increment(t) ==
    /\ kind # "histogram" /\ Calls(t, "increment", 0)
    /\ Updates(t, Plus(Value(t), 1000))

(* increment_by refuses what is less than zero; a NaN is not.              *)
IncrementBy(t, v) ==
    /\ kind = "counter" /\ Calls(t, "increment_by", v)
    /\ IF Negative(v) THEN UNCHANGED data ELSE Updates(t, Plus(Value(t), v))

Decrement(t) ==
    /\ kind = "gauge" /\ Calls(t, "decrement", 0)
    /\ Updates(t, Plus(Value(t), -1000))

Add(t, v) ==
    /\ kind = "gauge" /\ Calls(t, "add", v)
    /\ Updates(t, Plus(Value(t), v))

Subtract(t, v) ==
    /\ kind = "gauge" /\ Calls(t, "subtract", v)
    /\ Updates(t, Plus(Value(t), Opposite(v)))

Set(t, v) ==
    /\ kind = "gauge" /\ Calls(t, "set", v)
    /\ Updates(t, v)

-----------------------------------------------------------------------------
(* get_counter_value and get_gauge_value.                                  *)
GetValue(labels) == IF filed THEN data[LabelKey(labels)] ELSE None

(* gather_metrics_string loads one value after the other and writes a line *)
(* for each. The values it finds when it begins are remembered.            *)
GatherBegins(r) ==
    /\ kind # "histogram" /\ text[r] = NoText
    /\ text' = [text EXCEPT ![r] =
                   [lines |-> [k \in LabelKeys |-> None], began |-> data]]
    /\ UNCHANGED <<kind, filed, data, holds, ops>>

GatherLine(r, k) ==
    /\ text[r] # NoText /\ text[r].lines[k] = None /\ data[k] # None
    /\ text' = [text EXCEPT ![r].lines[k] = data[k]]
    /\ UNCHANGED <<kind, filed, data, holds, ops>>

GatherEnds(r) ==
    /\ text[r] # NoText
    /\ \A k \in LabelKeys : text[r].began[k] # None => text[r].lines[k] # None
    /\ text' = [text EXCEPT ![r] = NoText]
    /\ UNCHANGED <<kind, filed, data, holds, ops>>

-----------------------------------------------------------------------------
SingleNext ==
    \/ \E t \in Threads :
        \/ RegisterCounter(t) \/ RegisterGauge(t)
        \/ WithoutLabels(t)
        \/ \E labels \in LabelLists : WithLabels(t, labels)
        \/ Increment(t) \/ Decrement(t)
        \/ \E v \in Amounts : IncrementBy(t, v) \/ Add(t, v) \/ Subtract(t, v) \/ Set(t, v)
    \/ \E r \in Readers :
        GatherBegins(r) \/ (\E k \in LabelKeys : GatherLine(r, k)) \/ GatherEnds(r)

MetricsNext ==
    \/ kind = "histogram" /\ Next /\ UNCHANGED single
    \/ SingleNext /\ UNCHANGED vars

MetricsSpec == MetricsInit /\ [][MetricsNext]_<<vars, single>>

-----------------------------------------------------------------------------
(* What a call means for the value so far, after the traits of interface.rs*)
Meant(value, op) ==
    CASE op.call = "increment"    -> Plus(value, 1000)
      [] op.call = "decrement"    -> Plus(value, -1000)
      [] op.call = "add"          -> Plus(value, op.v)
      [] op.call = "subtract"     -> Plus(value, Opposite(op.v))
      [] op.call = "set"          -> op.v
      [] op.call = "increment_by" -> IF Negative(op.v) THEN value ELSE Plus(value, op.v)

(* Whoever asks for the value of some labels, in whatever order he writes  *)
(* them, gets what all calls through handles for these labels, in whatever *)
(* order those were written, amount to: threads that register at the same  *)
(* time and handles made again share one atomic (LabelKey, get_or_create). *)
ValuesAddUp ==
    \A labels \in LabelLists :
        LET Theirs(op) == op.labels = ToSet(labels) IN
        IF GetValue(labels) = None THEN \A i \in DOMAIN ops : ~Theirs(ops[i])
        ELSE GetValue(labels) =
               FoldLeft(LAMBDA value, op : IF Theirs(op) THEN Meant(value, op) ELSE value, 0, ops)

(* The text has no value of a counter from before it was begun, nor one    *)
(* that it has not reached yet: a counter never goes down, unless somebody *)
(* adds a NaN, which it then keeps (gather_metrics_string, increment_by).  *)
GatheredInTime ==
    kind = "counter" =>
        \A r \in Readers : text[r] # NoText => \A k \in LabelKeys :
            LET line  == text[r].lines[k]
                began == text[r].began[k]
            IN  line # None =>
                  /\ line = NaN => data[k] = NaN
                  /\ began = NaN => line = NaN
                  /\ line # NaN /\ data[k] # NaN => line <= data[k]
                  /\ line # NaN /\ began # None => began <= line
=============================================================================
