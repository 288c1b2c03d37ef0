----------------------------- MODULE Histogram -----------------------------
(***************************************************************************)
(* One histogram of the in-memory metrics of sf-metrics, by its name: the  *)
(* threads that register it, take handles of it for sets of labels,        *)
(* observe values and time work, and the threads that read it meanwhile.   *)
(*                                                                         *)
(* Storages and atomics are shared behind Arcs; here an Arc is an index    *)
(* into `storages` or `cells`. All atomic operations are Relaxed and on    *)
(* different locations, so an observation is three additions that take     *)
(* effect in any order, even after those of the thread's next one.         *)
(***************************************************************************)
EXTENDS Integers, FiniteSetsExt, SequencesExt

CONSTANTS
    Threads,    \* threads that register and observe
    Readers,    \* threads that read the values
    Keys,       \* sets of labels (LabelKey), sorted
    Empty,      \* the empty set of labels
    Requests,   \* buckets asked for when registering (bound)
    Values,     \* values observed, in thousandths (bound)
    MaxObs,     \* observations (bound)
    MaxTimers,  \* timers started (bound)
    Inf, NaN,   \* the values that are not finite
    NoBuckets, None

ASSUME KeysAssumption  == Empty \in Keys
ASSUME ValuesAssumption ==
    /\ Inf \notin Int /\ NaN \notin Int /\ Values \subseteq Int \cup {Inf, NaN}
    /\ \A q \in Requests : q = NoBuckets \/ q \in Seq(Int \cup {Inf, NaN})
ASSUME NoneAssumption ==
    None \notin [histogram : [storage : Nat, cell : Nat, key : Keys \cup {None}], observed : BOOLEAN]
ASSUME BoundAssumption == MaxObs \in Nat /\ MaxTimers \in Nat

VARIABLES
    registered,  \* InMemoryMetrics.histograms: the storage filed under the name, or 0
    storages,    \* every HistogramStorage: its buckets and its cell for each key, or 0
    cells,       \* every HistogramAtomics
    handle,      \* the InMemoryHistogram of each thread
    timer,       \* its InMemoryHistogramTimer
    flying,      \* additions issued that have not taken effect
    reading,     \* the loads of each reader
    asked,       \* history: what the first registration asked for
    observed,    \* history: the observations issued
    timers       \* history: timers started

vars == <<registered, storages, cells, handle, timer, flying, reading, asked, observed, timers>>

-----------------------------------------------------------------------------
DefaultBuckets == <<5, 10, 25, 50, 100, 250, 500, 1000, 2500, 5000, 10000>>

IsFinite(v) == v \notin {Inf, NaN}

(* partial_cmp; a NaN compares equal to everything, which is no order, and *)
(* then the sort promises only a permutation.                              *)
Before(a, b) == a # Inf /\ (b = Inf \/ a < b)

(* A sequence in order: every element is inserted after those it is not    *)
(* less than.                                                              *)
Insert(s, x, Less(_, _)) ==
    InsertAt(s, 1 + Cardinality({i \in DOMAIN s : ~Less(x, s[i])}), x)
Sorted(s, Less(_, _)) == FoldLeft(LAMBDA acc, x : Insert(acc, x, Less), <<>>, s)

Sorts(s) ==
    IF NaN \in ToSet(s)
    THEN {[i \in DOMAIN s |-> s[p[i]]] : p \in Bijection(DOMAIN s, DOMAIN s)}
    ELSE {Sorted(s, Before)}

RetainFinite(s) ==
    FoldLeft(LAMBDA acc, b : IF IsFinite(b) THEN Append(acc, b) ELSE acc, <<>>, s)

Dedup(s) ==
    FoldLeft(LAMBDA acc, b : IF acc # <<>> /\ Last(acc) = b THEN acc ELSE Append(acc, b), <<>>, s)

(* Mutant: duplicates are removed before sorting.                          *)
DedupFirst(request) ==
    LET s == IF request = NoBuckets THEN DefaultBuckets ELSE request
    IN  {RetainFinite(t) : t \in Sorts(Dedup(s))}

(* HistogramStorage::new: the buckets that can come of a request.          *)
Buckets(request) ==
    LET s == IF request = NoBuckets THEN DefaultBuckets ELSE request
    IN  {Dedup(RetainFinite(t)) : t \in Sorts(s)}

Increasing(b) == \A i, j \in DOMAIN b : i < j => b[i] < b[j]

(* Mutant: a value on a bound goes to the bucket above it.                 *)
BucketIndexAbove(b, v) ==
    IF Increasing(b) THEN {1 + Cardinality({i \in DOMAIN b : b[i] <= v})} ELSE 1..Len(b) + 1

(* binary_search_by: the equal bucket or the insertion point; on a sequence*)
(* that is not sorted it promises nothing but the range.                   *)
BucketIndex(b, v) ==
    IF Increasing(b) THEN {1 + Cardinality({i \in DOMAIN b : b[i] < v})} ELSE 1..Len(b) + 1

(* HistogramAtomics::new.                                                  *)
Atomics(b) == [counts |-> [i \in 1..Len(b) + 1 |-> 0], sum |-> 0, count |-> 0]

Part == {"bucket", "sum", "count"}

NoHandle == [storage |-> 0, cell |-> 0, key |-> None]
Idle     == [cell |-> 0]

Init ==
    /\ registered = 0 /\ storages = <<>> /\ cells = <<>>
    /\ handle = [t \in Threads |-> NoHandle]
    /\ timer = [t \in Threads |-> None]
    /\ flying = {}
    /\ reading = [r \in Readers |-> Idle]
    /\ asked = None /\ observed = <<>> /\ timers = 0

-----------------------------------------------------------------------------
(* Metrics::histogram, entry(name).or_insert_with: the first request makes *)
(* the storage, the others only get it.                                    *)
Register(t, request) ==
    /\ handle[t] = NoHandle
    /\ IF registered = 0
       THEN /\ \E b \in Buckets(request) :
                 storages' = Append(storages, [buckets |-> b, data |-> [k \in Keys |-> 0]])
            /\ registered' = Len(storages')
            /\ asked' = request
       ELSE UNCHANGED <<storages, registered, asked>>
    /\ handle' = [handle EXCEPT ![t].storage = registered']
    /\ UNCHANGED <<cells, timer, flying, reading, observed, timers>>

(* Mutant: the atomics of a set of labels are made anew for every handle.  *)
NewHandleAnew(t, k) ==
    /\ handle[t].storage # 0 /\ (handle[t].cell = 0 => k = Empty)
    /\ Len(cells) < 3
    /\ LET s == handle[t].storage IN
       /\ cells' = Append(cells, Atomics(storages[s].buckets))
       /\ storages' = [storages EXCEPT ![s].data[k] = Len(cells')]
       /\ handle' = [handle EXCEPT ![t].cell = Len(cells'), ![t].key = k]
    /\ UNCHANGED <<registered, timer, flying, reading, asked, observed, timers>>

(* InMemoryHistogram::new with get_or_create, at the end of a registration *)
(* and in with_labels and without_labels.                                  *)
NewHandle(t, k) ==
    /\ handle[t].storage # 0 /\ handle[t].key # k
    /\ handle[t].cell = 0 => k = Empty
    /\ LET s == handle[t].storage IN
       /\ IF storages[s].data[k] = 0
          THEN /\ cells' = Append(cells, Atomics(storages[s].buckets))
               /\ storages' = [storages EXCEPT ![s].data[k] = Len(cells')]
          ELSE UNCHANGED <<cells, storages>>
       /\ handle' = [handle EXCEPT ![t].cell = storages'[s].data[k], ![t].key = k]
    /\ UNCHANGED <<registered, timer, flying, reading, asked, observed, timers>>

-----------------------------------------------------------------------------
(* observe: a value that is not finite is refused, any other is three      *)
(* additions to the atomics of the handle h.                               *)
Observe(h, v, by) ==
    /\ Len(observed) < MaxObs
    /\ IF IsFinite(v)
       THEN \E i \in BucketIndex(storages[h.storage].buckets, v) :
              /\ observed' = Append(observed, [key |-> h.key, value |-> v, by |-> by])
              /\ flying' = flying \cup
                   {[obs |-> Len(observed'), part |-> p, cell |-> h.cell, bucket |-> i] : p \in Part}
       ELSE UNCHANGED <<observed, flying>>

ObserveValue(t, v) ==
    /\ handle[t].cell # 0
    /\ Observe(handle[t], v, "caller")
    /\ UNCHANGED <<registered, storages, cells, handle, timer, reading, asked, timers>>

(* An addition takes effect. What has no counter goes to the last one.     *)
Counter(c, i) == IF i \in DOMAIN c.counts THEN i ELSE Len(c.counts)

Land(f) ==
    /\ flying' = flying \ {f}
    /\ cells' = CASE f.part = "bucket" ->
                       [cells EXCEPT ![f.cell].counts[Counter(cells[f.cell], f.bucket)] = @ + 1]
                  [] f.part = "sum"    -> [cells EXCEPT ![f.cell].sum = @ + observed[f.obs].value]
                  [] f.part = "count"  -> [cells EXCEPT ![f.cell].count = @ + 1]
    /\ UNCHANGED <<registered, storages, handle, timer, reading, asked, observed, timers>>

(* start_timer: the timer has its own clone of the histogram.              *)
StartTimer(t) ==
    /\ handle[t].cell # 0 /\ timer[t] = None /\ timers < MaxTimers
    /\ timer' = [timer EXCEPT ![t] = [histogram |-> handle[t], observed |-> FALSE]]
    /\ timers' = timers + 1
    /\ UNCHANGED <<registered, storages, cells, handle, flying, reading, asked, observed>>

(* Mutant: the flag is not looked at.                                      *)
DoObserveAlways(t) == \E v \in Values : IsFinite(v) /\ Observe(timer[t].histogram, v, "timer")

(* do_observe: a duration is finite.                                       *)
DoObserve(t) ==
    IF timer[t].observed THEN UNCHANGED <<flying, observed>>
    ELSE \E v \in Values : IsFinite(v) /\ Observe(timer[t].histogram, v, "timer")

ObserveDuration(t) ==
    /\ timer[t] # None
    /\ DoObserve(t)
    /\ timer' = [timer EXCEPT ![t].observed = TRUE]
    /\ UNCHANGED <<registered, storages, cells, handle, reading, asked, timers>>

DropTimer(t) ==
    /\ timer[t] # None
    /\ DoObserve(t)
    /\ timer' = [timer EXCEPT ![t] = None]
    /\ UNCHANGED <<registered, storages, cells, handle, reading, asked, timers>>

-----------------------------------------------------------------------------
(* The observations made for a set of labels, and those of them of which   *)
(* every addition, or the addition p, has taken effect.                    *)
Of(k) == {n \in DOMAIN observed : observed[n].key = k}
Landed(k, p) == {n \in Of(k) : \A f \in flying : f.obs # n \/ f.part # p}
Settled(k) == {n \in Of(k) : \A f \in flying : f.obs # n}

(* get_histogram_values, and gather_metrics_string for each set of labels: *)
(* the atomics are looked up, then loaded one by one. What has settled when*)
(* the reading begins is remembered for SnapshotHolds.                     *)
StartReading(r, k) ==
    /\ reading[r] = Idle /\ registered # 0
    /\ LET c == storages[registered].data[k] IN
       /\ c # 0
       /\ reading' = [reading EXCEPT ![r] =
            [cell |-> c, key |-> k, settled |-> Settled(k),
             counts |-> [i \in DOMAIN cells[c].counts |-> None], sum |-> None, count |-> None]]
    /\ UNCHANGED <<registered, storages, cells, handle, timer, flying, asked, observed, timers>>

Load(r) ==
    /\ reading[r] # Idle
    /\ LET c == cells[reading[r].cell] IN
       \/ \E i \in DOMAIN reading[r].counts :
            /\ reading[r].counts[i] = None
            /\ reading' = [reading EXCEPT ![r].counts[i] = c.counts[i]]
       \/ reading[r].sum = None /\ reading' = [reading EXCEPT ![r].sum = c.sum]
       \/ reading[r].count = None /\ reading' = [reading EXCEPT ![r].count = c.count]
    /\ UNCHANGED <<registered, storages, cells, handle, timer, flying, asked, observed, timers>>

Loaded(r) ==
    /\ reading[r] # Idle /\ reading[r].sum # None /\ reading[r].count # None
    /\ None \notin Range(reading[r].counts)

EndReading(r) ==
    /\ Loaded(r)
    /\ reading' = [reading EXCEPT ![r] = Idle]
    /\ UNCHANGED <<registered, storages, cells, handle, timer, flying, asked, observed, timers>>

-----------------------------------------------------------------------------
Next ==
    \/ \E t \in Threads :
        \/ \E request \in Requests : Register(t, request)
        \/ \E k \in Keys : NewHandle(t, k)
        \/ \E v \in Values : ObserveValue(t, v)
        \/ StartTimer(t) \/ ObserveDuration(t) \/ DropTimer(t)
    \/ \E f \in flying : Land(f)
    \/ \E r \in Readers : (\E k \in Keys : StartReading(r, k)) \/ Load(r) \/ EndReading(r)

Spec == Init /\ [][Next]_vars

-----------------------------------------------------------------------------
(* A value is in bucket i if it is at most its bound and above the one     *)
(* before; the last bucket is unbounded.                                   *)
InBucket(b, i, v) ==
    /\ i = 1 \/ b[i - 1] < v
    /\ i = Len(b) + 1 \/ v <= b[i]

Total(s) == FoldLeft(LAMBDA acc, n : acc + n, 0, s)

(* A timer observes once in its life, at the first observe_duration or, if *)
(* there was none, when it is dropped, and until then not at all.          *)
OncePerTimer ==
    timers = Cardinality({t \in Threads : timer[t] # None /\ ~timer[t].observed})
             + Cardinality({n \in DOMAIN observed : observed[n].by = "timer"})

(* The atomics filed for a set of labels account for every observation     *)
(* made through any handle of any registration, but for the additions still*)
(* on their way, each in its bucket if the buckets are in order, and their *)
(* total in any case: no observation is lost to a handle of its own atomics*)
(* or counted twice, nor is a timer (histogram, get_or_create, observe).   *)
NothingLost ==
    /\ OncePerTimer
    /\ registered # 0 => \A k \in Keys :
        LET b == storages[registered].buckets
            c == storages[registered].data[k]
        IN  IF c = 0 THEN Of(k) = {}
            ELSE /\ cells[c].count = Cardinality(Landed(k, "count"))
                 /\ cells[c].sum = MapThenSumSet(LAMBDA n : observed[n].value, Landed(k, "sum"))
                 /\ Total(cells[c].counts) = Cardinality(Landed(k, "bucket"))
                 /\ Increasing(b) => \A i \in DOMAIN cells[c].counts :
                      cells[c].counts[i] =
                        Cardinality({n \in Landed(k, "bucket") : InBucket(b, i, observed[n].value)})

(* What a reader returns is torn only by observations made meanwhile: the  *)
(* count and the total of the buckets each lie between what had settled    *)
(* when it began and what has been issued by now, so that they differ by no*)
(* more than that, and without such observations everything fits together, *)
(* the sum included (get_histogram_values loads one atomic after another). *)
SnapshotHolds ==
    \A r \in Readers : Loaded(r) =>
        LET all     == Of(reading[r].key)
            settled == reading[r].settled
            between == Cardinality(settled)..Cardinality(all)
        IN  /\ reading[r].count \in between
            /\ Total(reading[r].counts) \in between
            /\ settled = all => reading[r].sum = MapThenSumSet(LAMBDA n : observed[n].value, all)

(* The buckets in use are the finite ones of the first registration, each  *)
(* once and in order, whatever later registrations ask for; unless it asked*)
(* for a NaN (histogram, HistogramStorage::new).                           *)
BucketsOfTheFirst ==
    LET first == IF asked = NoBuckets THEN DefaultBuckets ELSE asked
        b     == storages[registered].buckets
    IN  registered # 0 /\ NaN \notin ToSet(first) =>
            Increasing(b) /\ ToSet(b) = {x \in ToSet(first) : IsFinite(x)}

=============================================================================
