-------------------------- MODULE NodeEventsProofs --------------------------
(***************************************************************************)
(* Proofs about NodeEvents, for every number of listeners, sessions and    *)
(* interface events, every capacity of the accept channel and every budget *)
(* of the runtime.                                                         *)
(***************************************************************************)
EXTENDS NodeEvents, TLAPS

USE BoundsAssumption

-----------------------------------------------------------------------------
(* The inductive invariant behind NoLostWakeup: what a poll has passed is  *)
(* empty, and stays so unless a waker it has left there calls.             *)
Types ==
    /\ at \in At /\ woken \in BOOLEAN /\ cur \in {0} \cup Listens
    /\ watch \in [Listens -> BOOLEAN] /\ hello \in [Listens -> BOOLEAN]
    /\ task \in [Listens -> {"none", "accept", "send", "ended"}]

(* Without a listener there is nothing to poll.                            *)
Nothing == cur = 0 => interface = <<>> /\ queue = <<>> /\ at \in {"idle", "transport"}

(* Past its own events, the transport has none: only listen adds one, and  *)
(* that is between polls.                                                  *)
PastTransport == at \in {"pending", "addr", "accept"} => pending = <<>>
PastPending   == at \in {"addr", "accept"} => ~hello[cur]

(* Past the interfaces, the watcher has the waker, or has called it.       *)
InterfaceQuiet == interface = <<>> /\ (watch[cur] => "interface" \in wakers)
PastAddr       == at = "accept" => woken \/ InterfaceQuiet

(* The accept channel is quiet for the owner when it is empty, open, and   *)
(* has the waker.                                                          *)
AcceptQuiet == queue = <<>> /\ task[cur] # "ended" /\ "accept" \in wakers
Asleep ==
    at = "idle" /\ ~woken =>
        /\ pending = <<>>
        /\ cur # 0 => ~hello[cur] /\ InterfaceQuiet /\ AcceptQuiet

Inv == Types /\ Nothing /\ PastTransport /\ PastPending /\ PastAddr /\ Asleep

LEMMA InvInit == Init => Inv
BY DEF Init, Inv, Types, At, Nothing, PastTransport, PastPending, PastAddr, Asleep

LEMMA InvIsNoLostWakeup == Inv => NoLostWakeup
BY DEF Inv, Nothing, Asleep, InterfaceQuiet, AcceptQuiet, NoLostWakeup

-----------------------------------------------------------------------------
(* listen is between polls and wakes the owner, so only the types matter.  *)
LEMMA ListenKeeps ==
    ASSUME Inv, NEW g \in Listens, NEW every \in BOOLEAN, Listen(g, every)
    PROVE  Inv'
<1>1. at = "idle" /\ at' = "idle" /\ woken' = TRUE /\ cur' = g
  BY DEF Listen
<1>2. Types'
  BY <1>1 DEF Inv, Types, Listen
<1>3. g # 0
  BY DEF Listens
<1>4. Nothing' /\ PastTransport' /\ PastPending' /\ PastAddr' /\ Asleep'
  BY <1>1, <1>3 DEF Nothing, PastTransport, PastPending, PastAddr, Asleep
<1> QED BY <1>2, <1>4 DEF Inv

LEMMA InterfaceKeeps ==
    ASSUME Inv, NEW kind, InterfaceEvent(kind)
    PROVE  Inv'
<1>1. /\ cur # 0 /\ watch[cur] /\ woken' = (woken \/ "interface" \in wakers)
      /\ UNCHANGED <<at, pending, cur, hello, watch, task, queue>>
  BY DEF InterfaceEvent, Wake
<1>2. CASE woken'
  <2>1. Types' /\ Nothing' /\ PastTransport' /\ PastPending'
    BY <1>1 DEF Inv, Types, Nothing, PastTransport, PastPending
  <2>2. PastAddr' /\ Asleep'
    BY <1>2 DEF PastAddr, Asleep
  <2> QED BY <2>1, <2>2 DEF Inv
<1>3. CASE ~woken'
  <2>1. ~woken /\ "interface" \notin wakers /\ woken' \in BOOLEAN
    BY <1>1, <1>3 DEF Inv, Types
  <2>2. at \notin {"idle", "accept"}
    BY <1>1, <2>1 DEF Inv, PastAddr, Asleep, InterfaceQuiet
  <2>3. Types' /\ Nothing' /\ PastTransport' /\ PastPending'
    BY <1>1, <2>1 DEF Inv, Types, Nothing, PastTransport, PastPending
  <2>4. PastAddr' /\ Asleep'
    BY <1>1, <2>2 DEF PastAddr, Asleep
  <2> QED BY <2>3, <2>4 DEF Inv
<1> QED BY <1>2, <1>3

(* The task that accepts: it tells the owner's waker of the listener that  *)
(* is there, and touches nothing of it otherwise.                          *)
LEMMA TaskKeeps ==
    ASSUME Inv, NEW g \in Listens, task' \in [Listens -> {"none", "accept", "send", "ended"}],
           UNCHANGED <<at, pending, cur, hello, watch, interface>>,
           \/ /\ cur # 0 /\ Wake("accept")
           \/ /\ UNCHANGED <<woken, wakers, queue>>
              /\ cur # 0 => task'[cur] # "ended" \/ task'[cur] = task[cur]
    PROVE  Inv'
<1>1. CASE cur # 0 /\ Wake("accept")
  <2>1. woken' = (woken \/ "accept" \in wakers) /\ wakers' = wakers \ {"accept"}
    BY <1>1 DEF Wake
  <2>2. woken' \in BOOLEAN /\ (woken => woken')
    BY <2>1 DEF Inv, Types
  <2>3. Types' /\ Nothing' /\ PastTransport' /\ PastPending'
    BY <1>1, <2>2 DEF Inv, Types, Nothing, PastTransport, PastPending
  <2>4. InterfaceQuiet => InterfaceQuiet'
    BY <2>1 DEF InterfaceQuiet
  <2>5. PastAddr'
    BY <2>2, <2>4 DEF Inv, PastAddr
  <2>6. Asleep'
    <3>1. ~woken' => ~woken /\ "accept" \notin wakers
      BY <2>1
    <3> QED BY <1>1, <3>1 DEF Inv, Asleep, AcceptQuiet
  <2> QED BY <2>3, <2>5, <2>6 DEF Inv
<1>2. CASE /\ UNCHANGED <<woken, wakers, queue>>
           /\ cur # 0 => task'[cur] # "ended" \/ task'[cur] = task[cur]
  BY <1>2 DEF Inv, Types, Nothing, PastTransport, PastPending, PastAddr, Asleep,
              InterfaceQuiet, AcceptQuiet
<1> QED BY <1>1, <1>2

LEMMA AcceptKeeps ==
    ASSUME Inv, NEW g \in Listens, AcceptSession(g) \/ EndpointCloses(g) \/ SendSession(g)
    PROVE  Inv'
<1>1. task \in [Listens -> {"none", "accept", "send", "ended"}] /\ g # 0
  BY DEF Inv, Types, Listens
<1>2. CASE AcceptSession(g)
  <2>1. /\ task' = [task EXCEPT ![g] = "send"]
        /\ UNCHANGED <<at, pending, cur, hello, watch, interface, woken, wakers, queue>>
    BY <1>2 DEF AcceptSession
  <2>2. cur # 0 => task'[cur] # "ended" \/ task'[cur] = task[cur]
    BY <1>1, <2>1 DEF Inv, Types
  <2> QED BY <1>1, <2>1, <2>2, TaskKeeps
<1>3. CASE EndpointCloses(g)
  <2>1. /\ task' = [task EXCEPT ![g] = "ended"]
        /\ UNCHANGED <<at, pending, cur, hello, watch, interface, queue>>
        /\ IF g = cur THEN Wake("accept") ELSE UNCHANGED <<woken, wakers>>
    BY <1>3 DEF EndpointCloses
  <2>2. cur # 0 /\ g # cur => task'[cur] = task[cur]
    BY <1>1, <2>1 DEF Inv, Types
  <2> QED BY <1>1, <2>1, <2>2, TaskKeeps
<1>4. CASE SendSession(g)
  <2>1. /\ UNCHANGED <<at, pending, cur, hello, watch, interface>>
        /\ g = cur => Wake("accept") /\ task' = [task EXCEPT ![g] = "accept"]
        /\ g # cur => UNCHANGED <<queue, woken, wakers>> /\ task' = [task EXCEPT ![g] = "ended"]
    BY <1>4 DEF SendSession
  <2>2. task' \in [Listens -> {"none", "accept", "send", "ended"}]
    BY <1>1, <2>1
  <2>3. cur # 0 /\ g # cur => task'[cur] = task[cur]
    BY <1>1, <2>1 DEF Inv, Types
  <2> QED BY <1>1, <2>1, <2>2, <2>3, TaskKeeps
<1> QED BY <1>2, <1>3, <1>4

(* The poll leaves a source behind only when it is empty and has the waker.*)
LEMMA PollKeeps == ASSUME Inv, Poll PROVE Inv'
<1> USE DEF Inv, Types, At, Nothing, PastTransport, PastPending, PastAddr, Asleep
<1>1. CASE StartPoll
  BY <1>1 DEF StartPoll, sources
<1>2. CASE PollTransport
  BY <1>2 DEF PollTransport, Report
<1>3. CASE PollPending
  BY <1>3 DEF PollPending, Report
<1>4. CASE PollIfAddr
  <2>1. CASE interface = <<>>
    BY <1>4, <2>1 DEF PollIfAddr, InterfaceQuiet
  <2>2. CASE interface # <<>>
    BY <1>4, <2>2 DEF PollIfAddr, Report
  <2> QED BY <2>1, <2>2
<1>5. CASE PollRecv
  BY <1>5 DEF PollRecv, Report
<1>6. CASE PollRecvClosed
  BY <1>6 DEF PollRecvClosed, sources
<1>7. CASE PollRecvPending
  BY <1>7 DEF PollRecvPending, sources, InterfaceQuiet, AcceptQuiet
<1>8. CASE PollRecvYields
  BY <1>8 DEF PollRecvYields, sources
<1> QED BY <1>1, <1>2, <1>3, <1>4, <1>5, <1>6, <1>7, <1>8 DEF Poll

LEMMA InvNext == Inv /\ [Next]_vars => Inv'
<1> SUFFICES ASSUME Inv, [Next]_vars PROVE Inv'
  OBVIOUS
<1>1. CASE Poll
  BY <1>1, PollKeeps
<1>2. CASE World
  BY <1>2, ListenKeeps, InterfaceKeeps, AcceptKeeps DEF World
<1>3. ASSUME NEW g \in Listens, SendSession(g) PROVE Inv'
  BY <1>3, AcceptKeeps
<1>4. CASE UNCHANGED vars
  BY <1>4 DEF vars, sources, Inv, Types, Nothing, PastTransport, PastPending, PastAddr,
              Asleep, InterfaceQuiet, AcceptQuiet
<1> QED BY <1>1, <1>2, <1>3, <1>4 DEF Next

LEMMA InvAlways == Spec => []Inv
BY InvInit, InvNext, PTL DEF Spec

(* The owner of a node sleeps only when every source was found empty and   *)
(* has its waker: no event waits for another one to be noticed.            *)
THEOREM NoWakeupIsLost == Spec => []NoLostWakeup
BY InvAlways, InvIsNoLostWakeup, PTL

-----------------------------------------------------------------------------
(* The invariant behind OrphanTakesOne: a task that outlives its listener  *)
(* has accepted nothing since, or waits to send what it has, or has ended. *)
Orphans ==
    \A g \in Listens : g < cur =>
        /\ taken[g] <= takenThen[g] + 1
        /\ task[g] = "accept" => taken[g] = takenThen[g]

Counts ==
    taken \in [Listens -> Nat] /\ takenThen \in [Listens -> Nat]

LEMMA OrphansNext == Inv /\ Counts /\ Orphans /\ [Next]_vars => Counts' /\ Orphans'
<1> SUFFICES ASSUME Inv, Counts, Orphans, [Next]_vars PROVE Counts' /\ Orphans'
  OBVIOUS
<1>1. /\ taken \in [Listens -> Nat] /\ takenThen \in [Listens -> Nat]
      /\ task \in [Listens -> {"none", "accept", "send", "ended"}]
      /\ cur \in Nat /\ Listens \subseteq Nat /\ cur \in {0} \cup Listens
  BY DEF Inv, Types, Counts, Listens
<1>2. CASE UNCHANGED <<cur, task, taken, takenThen>>
  BY <1>2 DEF Counts, Orphans
<1>3. ASSUME NEW g \in Listens, NEW every \in BOOLEAN, Listen(g, every)
      PROVE  Counts' /\ Orphans'
  <2>1. /\ g = cur + 1 /\ cur' = g /\ task' = [task EXCEPT ![g] = "accept"] /\ taken' = taken
        /\ takenThen' = IF cur = 0 THEN takenThen ELSE [takenThen EXCEPT ![cur] = taken[cur]]
    BY <1>3 DEF Listen
  <2>2. Counts'
    BY <1>1, <2>1 DEF Counts
  <2>3. ASSUME NEW h \in Listens, h < cur'
        PROVE  /\ taken'[h] <= takenThen'[h] + 1
               /\ task'[h] = "accept" => taken'[h] = takenThen'[h]
    <3>1. h # g /\ task'[h] = task[h] /\ h # 0
      BY <1>1, <2>1, <2>3 DEF Listens
    <3>2. CASE h = cur
      BY <1>1, <2>1, <3>1, <3>2
    <3>3. CASE h # cur
      <4>1. h < cur /\ takenThen'[h] = takenThen[h]
        BY <1>1, <2>1, <2>3, <3>3
      <4> QED BY <2>1, <3>1, <4>1 DEF Orphans
    <3> QED BY <3>2, <3>3
  <2> QED BY <2>2, <2>3 DEF Orphans
<1>4. ASSUME NEW g \in Listens, AcceptSession(g) PROVE Counts' /\ Orphans'
  <2>1. /\ task[g] = "accept" /\ taken' = [taken EXCEPT ![g] = @ + 1]
        /\ task' = [task EXCEPT ![g] = "send"] /\ UNCHANGED <<cur, takenThen>>
    BY <1>4 DEF AcceptSession
  <2> QED BY <1>1, <2>1 DEF Counts, Orphans
<1>5. ASSUME NEW g \in Listens, SendSession(g) \/ EndpointCloses(g) PROVE Counts' /\ Orphans'
  <2>1. /\ \/ task' = [task EXCEPT ![g] = "ended"]
           \/ task' = [task EXCEPT ![g] = "accept"] /\ g = cur
        /\ UNCHANGED <<cur, taken, takenThen>>
    BY <1>5 DEF SendSession, EndpointCloses, history
  <2> QED BY <1>1, <2>1 DEF Counts, Orphans
<1>6. CASE Poll \/ (\E kind \in {"up", "down", "other", "error"} : InterfaceEvent(kind)) \/ UNCHANGED vars
  <2>1. UNCHANGED <<cur, task, taken, takenThen>>
    BY <1>6 DEF Poll, StartPoll, PollTransport, PollPending, PollIfAddr, PollRecv, PollRecvClosed,
                PollRecvPending, PollRecvYields, InterfaceEvent, sources, history, vars
  <2> QED BY <1>2, <2>1
<1> QED BY <1>3, <1>4, <1>5, <1>6 DEF Next, World

(* An endpoint whose listener was replaced takes at most one more session  *)
(* before the task that accepts for it ends.                               *)
THEOREM OrphansTakeOne == Spec => []OrphanTakesOne
<1>1. Init => Counts /\ Orphans
  BY DEF Init, Counts, Orphans, Listens
<1>2. Inv /\ Orphans => OrphanTakesOne
  <2> SUFFICES ASSUME Inv, Orphans, NEW g \in 1..(cur - 1) PROVE taken[g] <= takenThen[g] + 1
    BY DEF OrphanTakesOne
  <2>1. g \in Listens /\ g < cur
    BY DEF Inv, Types, Listens
  <2> QED BY <2>1 DEF Orphans
<1> QED BY <1>1, <1>2, InvAlways, OrphansNext, PTL DEF Spec

-----------------------------------------------------------------------------
(* The invariant behind ReportedInOrder is that property, what it says of  *)
(* the log of a listener up to a number taken apart from what waits, and   *)
(* that nothing has happened yet at a listener that is still to come.      *)
IfEvent == [kind : {"up", "down", "other", "error"}, num : Nat]

LogTypes ==
    /\ log \in Seq(Event) /\ queue \in Seq(Nat) /\ interface \in Seq(IfEvent)
    /\ pending \in Seq([kind : {"listen"}, by : Listens])
    /\ seen \in [Listens -> Seq(IfEvent)]
    /\ \A g \in Listens : \A i \in 1..Len(seen[g]) : seen[g][i].num = i

StillToCome ==
    \A g \in Listens : g > cur => task[g] = "none" /\ taken[g] = 0 /\ seen[g] = <<>>

SessionsUpTo(g, k) ==
    /\ Rising(Reports(g, SessionKinds))
    /\ Numbers(g, SessionKinds) = 1..k

SessionsWait(g, k) ==
    /\ g = cur => k + Len(queue) = Sent(g) /\ \A i \in 1..Len(queue) : queue[i] = k + i
    /\ g < cur => k <= takenThen[g]

Told(g, n) == {<<seen[g][i].kind, i>> : i \in {j \in 1..n : seen[g][j].kind # "other"}}

InterfacesUpTo(g, n) ==
    /\ Rising(Reports(g, InterfaceKinds))
    /\ News(g, InterfaceKinds) = Told(g, n)

InterfacesWait(g, n) ==
    g = cur => /\ n + Len(interface) = Len(seen[g])
               /\ \A i \in 1..Len(interface) : interface[i] = seen[g][n + i]

Sessions(g)   == \E k \in 0..taken[g] : SessionsUpTo(g, k) /\ SessionsWait(g, k)
Interfaces(g) == \E n \in 0..Len(seen[g]) : InterfacesUpTo(g, n) /\ InterfacesWait(g, n)

LogInv == LogTypes /\ StillToCome /\ \A g \in Listens : Sessions(g) /\ Interfaces(g)

LEMMA LogInvIsReportedInOrder == LogInv => ReportedInOrder
<1> SUFFICES ASSUME LogInv, NEW g \in Listens PROVE SessionsInOrder(g) /\ InterfacesInOrder(g)
  BY DEF ReportedInOrder
<1>1. DOMAIN queue = 1..Len(queue) /\ DOMAIN interface = 1..Len(interface)
  BY DEF LogInv, LogTypes
<1>2. Sessions(g) /\ Interfaces(g)
  BY DEF LogInv
<1>3. SessionsInOrder(g)
  BY <1>1, <1>2, Zenon DEF Sessions, SessionsUpTo, SessionsWait, SessionsInOrder
<1>4. InterfacesInOrder(g)
  BY <1>1, <1>2, Zenon DEF Interfaces, InterfacesUpTo, InterfacesWait, Told, InterfacesInOrder
<1> QED BY <1>3, <1>4

-----------------------------------------------------------------------------
(* The log one event longer.                                               *)
LEMMA LogGrows ==
    ASSUME log \in Seq(Event), NEW e \in Event, log' = Append(log, e), NEW g, NEW kinds
    PROVE  /\ log' \in Seq(Event)
           /\ Reports(g, kinds)' = IF e.by = g /\ e.kind \in kinds
                                   THEN Reports(g, kinds) \cup {Len(log) + 1}
                                   ELSE Reports(g, kinds)
           /\ \A i \in Reports(g, kinds) : i \in 1..Len(log) /\ log'[i] = log[i]
           /\ log'[Len(log) + 1] = e /\ Len(log) \in Nat
<1>1. /\ log' \in Seq(Event) /\ Len(log) \in Nat /\ DOMAIN log = 1..Len(log)
      /\ DOMAIN log' = 1..(Len(log) + 1)
      /\ \A i \in 1..Len(log) : log'[i] = log[i]
      /\ log'[Len(log) + 1] = e
  OBVIOUS
<1>2. \A i : i \in 1..(Len(log) + 1) <=> i \in 1..Len(log) \/ i = Len(log) + 1
  BY <1>1
<1>3. Len(log) + 1 \notin 1..Len(log)
  BY <1>1
<1>4. \A i : i \in Reports(g, kinds)' <=>
                 \/ i \in Reports(g, kinds)
                 \/ i = Len(log) + 1 /\ e.by = g /\ e.kind \in kinds
  BY <1>1, <1>2, <1>3, Zenon DEF Reports
<1>5. Reports(g, kinds)' = IF e.by = g /\ e.kind \in kinds
                           THEN Reports(g, kinds) \cup {Len(log) + 1}
                           ELSE Reports(g, kinds)
  BY <1>4
<1> QED BY <1>1, <1>5 DEF Reports

(* An event of something else changes nothing of what the log says of these*)
(* kinds.                                                                  *)
LEMMA OtherReport ==
    ASSUME log \in Seq(Event), NEW e \in Event, log' = Append(log, e), NEW g, NEW kinds,
           ~(e.by = g /\ e.kind \in kinds)
    PROVE  /\ Rising(Reports(g, kinds))' = Rising(Reports(g, kinds))
           /\ Numbers(g, kinds)' = Numbers(g, kinds)
           /\ News(g, kinds)' = News(g, kinds)
<1>1. /\ Reports(g, kinds)' = Reports(g, kinds)
      /\ \A i \in Reports(g, kinds) : log'[i] = log[i]
  BY LogGrows
<1>2. Rising(Reports(g, kinds))' = Rising(Reports(g, kinds))
  BY <1>1, Zenon DEF Rising
<1> QED BY <1>1, <1>2 DEF Numbers, News

(* An event of these kinds, with a number above those there are.           *)
LEMMA NextReport ==
    ASSUME log \in Seq(Event), NEW e \in Event, log' = Append(log, e), NEW g, NEW kinds,
           e.by = g, e.kind \in kinds, Rising(Reports(g, kinds)),
           \A i \in Reports(g, kinds) : log[i].num < e.num
    PROVE  /\ Rising(Reports(g, kinds))'
           /\ Numbers(g, kinds)' = Numbers(g, kinds) \cup {e.num}
           /\ News(g, kinds)' = News(g, kinds)
                       \cup {<<e.kind, e.num>>}
<1>1. /\ Reports(g, kinds)' = Reports(g, kinds) \cup {Len(log) + 1}
      /\ \A i \in Reports(g, kinds) : i \in 1..Len(log) /\ log'[i] = log[i]
      /\ log'[Len(log) + 1] = e /\ Len(log) \in Nat
  BY LogGrows
<1>2. ASSUME NEW i \in Reports(g, kinds)', NEW j \in Reports(g, kinds)', i < j
      PROVE  log'[i].num < log'[j].num
  <2>1. i \in Reports(g, kinds)
    <3>1. j \in 1..(Len(log) + 1)
      BY <1>1, <1>2
    <3> QED BY <1>1, <1>2, <3>1
  <2>2. CASE j \in Reports(g, kinds)
    BY <1>1, <1>2, <2>1, <2>2 DEF Rising
  <2>3. CASE j = Len(log) + 1
    BY <1>1, <2>1, <2>3
  <2> QED BY <1>1, <2>2, <2>3
<1>3. Rising(Reports(g, kinds))'
  BY <1>2 DEF Rising
<1>4. Numbers(g, kinds)' = Numbers(g, kinds) \cup {e.num}
  BY <1>1 DEF Numbers
<1>5. News(g, kinds)' = News(g, kinds) \cup {<<e.kind, e.num>>}
  BY <1>1 DEF News
<1> QED BY <1>3, <1>4, <1>5

-----------------------------------------------------------------------------
(* What the log says of a listener depends on the log and, for interfaces, *)
(* on the first events of its watcher.                                     *)
LEMMA LogStays ==
    ASSUME NEW g, NEW k, log' = log
    PROVE  /\ SessionsUpTo(g, k)' = SessionsUpTo(g, k)
           /\ seen'[g] = seen[g] => InterfacesUpTo(g, k)' = InterfacesUpTo(g, k)
<1>1. \A kinds : Reports(g, kinds)' = Reports(g, kinds)
  BY DEF Reports
<1>2. \A kinds : Rising(Reports(g, kinds))' = Rising(Reports(g, kinds))
  BY <1>1 DEF Rising
<1>3. SessionsUpTo(g, k)' = SessionsUpTo(g, k)
  BY <1>1, <1>2 DEF SessionsUpTo, Numbers
<1>4. seen'[g] = seen[g] => InterfacesUpTo(g, k)' = InterfacesUpTo(g, k)
  BY <1>1, <1>2 DEF InterfacesUpTo, News, Told
<1> QED BY <1>3, <1>4

(* A step that touches neither the log nor what the listeners have.        *)
LEMMA NothingReported ==
    ASSUME Inv, Counts, LogInv,
           UNCHANGED <<log, queue, interface, pending, seen, cur, taken, takenThen>>,
           task' \in [Listens -> {"none", "accept", "send", "ended"}],
           \A g \in Listens : (task'[g] = "send" <=> task[g] = "send")
                              /\ (task[g] = "none" => task'[g] = "none")
    PROVE  LogInv'
<1>1. LogTypes' /\ StillToCome'
  BY DEF LogInv, LogTypes, StillToCome
<1>2. ASSUME NEW g \in Listens PROVE Sessions(g)' /\ Interfaces(g)'
  <2>1. PICK k \in 0..taken[g] : SessionsUpTo(g, k) /\ SessionsWait(g, k)
    BY DEF LogInv, Sessions
  <2>2. PICK n \in 0..Len(seen[g]) : InterfacesUpTo(g, n) /\ InterfacesWait(g, n)
    BY DEF LogInv, Interfaces
  <2>3. SessionsWait(g, k)' /\ InterfacesWait(g, n)'
    BY <2>1, <2>2 DEF SessionsWait, InterfacesWait, Sent
  <2>4. SessionsUpTo(g, k)' /\ InterfacesUpTo(g, n)'
    BY <2>1, <2>2, LogStays
  <2> QED BY <2>3, <2>4 DEF Sessions, Interfaces
<1> QED BY <1>1, <1>2 DEF LogInv

(* listen: what the old listener has still is dropped with it, and the new *)
(* one begins with nothing.                                                *)
LEMMA ListenInOrder ==
    ASSUME Inv, Counts, LogInv, NEW h \in Listens, NEW every \in BOOLEAN, Listen(h, every)
    PROVE  LogInv'
<1>1. /\ h = cur + 1 /\ cur' = h /\ task' = [task EXCEPT ![h] = "accept"]
      /\ pending' = Append(pending, ListenAddr(h)) /\ interface' = <<>> /\ queue' = <<>>
      /\ takenThen' = IF cur = 0 THEN takenThen ELSE [takenThen EXCEPT ![cur] = taken[cur]]
      /\ UNCHANGED <<log, seen, taken>>
  BY DEF Listen
<1>2. /\ taken \in [Listens -> Nat] /\ takenThen \in [Listens -> Nat]
      /\ task \in [Listens -> {"none", "accept", "send", "ended"}]
      /\ cur \in {0} \cup Listens /\ Listens \subseteq Nat /\ cur \in Nat
  BY DEF Inv, Types, Counts, Listens
<1>3. LogTypes'
  <2>1. ListenAddr(h) \in [kind : {"listen"}, by : Listens]
    BY DEF ListenAddr
  <2> QED BY <1>1, <2>1 DEF LogInv, LogTypes
<1>4. StillToCome'
  BY <1>1, <1>2 DEF LogInv, StillToCome
<1>5. ASSUME NEW g \in Listens PROVE Sessions(g)' /\ Interfaces(g)'
  <2>1. PICK k \in 0..taken[g] : SessionsUpTo(g, k) /\ SessionsWait(g, k)
    BY DEF LogInv, Sessions
  <2>2. PICK n \in 0..Len(seen[g]) : InterfacesUpTo(g, n) /\ InterfacesWait(g, n)
    BY DEF LogInv, Interfaces
  <2>3. SessionsUpTo(g, k)' /\ InterfacesUpTo(g, n)'
    BY <1>1, <2>1, <2>2, LogStays
  <2>4. seen \in [Listens -> Seq(IfEvent)] /\ Len(queue) \in Nat
    BY DEF LogInv, LogTypes
  <2>5. CASE g = h
    <3>1. taken[g] = 0 /\ seen[g] = <<>> /\ task'[g] = "accept"
      BY <1>1, <1>2, <2>5 DEF LogInv, StillToCome
    <3>2. k = 0 /\ n = 0
      BY <3>1
    <3>3. Sent(g)' = 0 /\ ~(g < cur') /\ seen'[g] = <<>>
      <4>1. taken'[g] = 0 /\ seen'[g] = <<>> /\ cur' = g /\ g \in Nat
        BY <1>1, <1>2, <2>5, <3>1
      <4>2. Sent(g)' = 0
        BY <3>1, <4>1 DEF Sent
      <4> QED BY <4>1, <4>2
    <3>4. SessionsWait(g, k)' /\ InterfacesWait(g, n)'
      BY <1>1, <3>2, <3>3 DEF SessionsWait, InterfacesWait
    <3> QED BY <1>1, <2>3, <3>4 DEF Sessions, Interfaces
  <2>6. CASE g # h
    <3>1. InterfacesWait(g, n)'
      BY <1>1, <2>6 DEF InterfacesWait
    <3>2. SessionsWait(g, k)'
      <4>1. g < h => k <= takenThen'[g]
        <5>1. CASE g = cur
          <6>1. k + Len(queue) = Sent(g) /\ Sent(g) <= taken[g]
            BY <1>2, <2>1, <5>1 DEF SessionsWait, Sent
          <6>2. takenThen'[g] = taken[g]
            BY <1>1, <1>2, <5>1 DEF Listens
          <6> QED BY <1>2, <2>4, <6>1, <6>2
        <5>2. CASE g # cur
          BY <1>1, <1>2, <2>1, <5>2 DEF SessionsWait
        <5> QED BY <5>1, <5>2
      <4> QED BY <1>1, <2>6, <4>1 DEF SessionsWait
    <3> QED BY <1>1, <2>3, <3>1, <3>2 DEF Sessions, Interfaces
  <2> QED BY <2>5, <2>6
<1> QED BY <1>3, <1>4, <1>5 DEF LogInv

LEMMA InterfaceInOrder ==
    ASSUME Inv, Counts, LogInv, NEW kind \in {"up", "down", "other", "error"},
           InterfaceEvent(kind)
    PROVE  LogInv'
<1> DEFINE e == [kind |-> kind, num |-> Len(seen[cur]) + 1]
<1>1. /\ cur \in Listens /\ seen' = [seen EXCEPT ![cur] = Append(@, e)]
      /\ interface' = Append(interface, e)
      /\ UNCHANGED <<log, queue, pending, task, cur, taken, takenThen>>
  BY DEF InterfaceEvent, Inv, Types
<1>2. /\ seen \in [Listens -> Seq(IfEvent)] /\ interface \in Seq(IfEvent)
      /\ seen[cur] \in Seq(IfEvent) /\ Len(seen[cur]) \in Nat /\ e \in IfEvent
      /\ cur \in Nat /\ Listens \subseteq Nat
  BY <1>1 DEF LogInv, LogTypes, IfEvent, Listens
<1>3. seen'[cur] = Append(seen[cur], e) /\ \A g \in Listens \ {cur} : seen'[g] = seen[g]
  BY <1>1, <1>2
<1>4. /\ Len(seen'[cur]) = Len(seen[cur]) + 1 /\ seen'[cur][Len(seen[cur]) + 1] = e
      /\ \A i \in 1..Len(seen[cur]) : seen'[cur][i] = seen[cur][i]
      /\ seen'[cur] \in Seq(IfEvent)
  BY <1>2, <1>3
<1>5. LogTypes'
  <2>1. seen' \in [Listens -> Seq(IfEvent)] /\ interface' \in Seq(IfEvent)
    BY <1>1, <1>2, <1>4
  <2>2. ASSUME NEW g \in Listens, NEW i \in 1..Len(seen'[g]) PROVE seen'[g][i].num = i
    <3>1. CASE g # cur
      BY <1>3, <2>2, <3>1 DEF LogInv, LogTypes
    <3>2. CASE g = cur /\ i = Len(seen[cur]) + 1
      BY <1>4, <3>2
    <3>3. CASE g = cur /\ i # Len(seen[cur]) + 1
      <4>1. i \in 1..Len(seen[cur])
        BY <1>2, <1>4, <2>2, <3>3
      <4>2. seen[cur][i].num = i
        BY <1>1, <4>1 DEF LogInv, LogTypes
      <4> QED BY <1>4, <3>3, <4>1, <4>2
    <3> QED BY <3>1, <3>2, <3>3
  <2> QED BY <1>1, <2>1, <2>2 DEF LogInv, LogTypes
<1>6. StillToCome'
  BY <1>1, <1>2, <1>3 DEF LogInv, StillToCome
<1>7. ASSUME NEW g \in Listens PROVE Sessions(g)' /\ Interfaces(g)'
  <2>1. PICK k \in 0..taken[g] : SessionsUpTo(g, k) /\ SessionsWait(g, k)
    BY DEF LogInv, Sessions
  <2>2. SessionsWait(g, k)' /\ SessionsUpTo(g, k)'
    BY <1>1, <2>1, LogStays DEF SessionsWait, Sent
  <2>3. PICK n \in 0..Len(seen[g]) : InterfacesUpTo(g, n) /\ InterfacesWait(g, n)
    BY DEF LogInv, Interfaces
  <2>4. n \in 0..Len(seen'[g]) /\ InterfacesUpTo(g, n)' /\ InterfacesWait(g, n)'
    <3>1. CASE g # cur
      BY <1>1, <1>3, <2>3, <3>1, LogStays DEF InterfacesWait
    <3>2. CASE g = cur
      <4>1. Told(g, n)' = Told(g, n)
        <5>1. \A i \in 1..n : seen'[g][i] = seen[g][i]
          BY <1>2, <1>4, <2>3, <3>2
        <5> QED BY <5>1 DEF Told
      <4>2. InterfacesUpTo(g, n)'
        <5>1. \A kinds : Reports(g, kinds)' = Reports(g, kinds)
          BY <1>1 DEF Reports
        <5>2. Rising(Reports(g, InterfaceKinds))' = Rising(Reports(g, InterfaceKinds))
          BY <1>1, <5>1 DEF Rising
        <5> QED BY <1>1, <2>3, <4>1, <5>1, <5>2 DEF InterfacesUpTo, News
      <4>3. n + Len(interface) = Len(seen[g])
            /\ \A i \in 1..Len(interface) : interface[i] = seen[g][n + i]
        BY <2>3, <3>2 DEF InterfacesWait
      <4>4. /\ Len(interface') = Len(interface) + 1 /\ Len(interface) \in Nat
            /\ interface'[Len(interface) + 1] = e
            /\ \A i \in 1..Len(interface) : interface'[i] = interface[i]
        BY <1>1, <1>2
      <4>5. ASSUME NEW i \in 1..Len(interface') PROVE interface'[i] = seen'[g][n + i]
        <5>1. CASE i = Len(interface) + 1
          <6>1. n \in Nat /\ Len(interface) \in Nat /\ n + Len(interface) = Len(seen[g])
            BY <2>3, <4>3, <4>4
          <6>2. n + i = Len(seen[g]) + 1
            BY <5>1, <6>1
          <6> QED BY <1>4, <3>2, <4>4, <5>1, <6>2
        <5>2. CASE i # Len(interface) + 1
          <6>1. i \in 1..Len(interface) /\ n + i \in 1..Len(seen[g])
            BY <1>2, <3>2, <4>3, <4>4, <4>5, <5>2
          <6> QED BY <1>4, <3>2, <4>3, <4>4, <6>1
        <5> QED BY <5>1, <5>2
      <4>6. n + Len(interface') = Len(seen'[g])
        BY <1>2, <1>4, <3>2, <4>3, <4>4
      <4>7. n \in 0..Len(seen'[g])
        BY <1>2, <1>4, <3>2
      <4> QED BY <4>2, <4>5, <4>6, <4>7 DEF InterfacesWait
    <3> QED BY <3>1, <3>2
  <2> QED BY <1>1, <2>1, <2>2, <2>4 DEF Sessions, Interfaces
<1> QED BY <1>5, <1>6, <1>7 DEF LogInv

(* The task that accepts for an endpoint has one more session, and sends   *)
(* it when it is the next one.                                             *)
LEMMA AcceptInOrder ==
    ASSUME Inv, Counts, LogInv, NEW h \in Listens, AcceptSession(h)
    PROVE  LogInv'
<1>1. /\ task[h] = "accept" /\ taken' = [taken EXCEPT ![h] = @ + 1]
      /\ task' = [task EXCEPT ![h] = "send"]
      /\ UNCHANGED <<log, queue, interface, pending, seen, cur, takenThen>>
  BY DEF AcceptSession
<1>2. /\ taken \in [Listens -> Nat] /\ task \in [Listens -> {"none", "accept", "send", "ended"}]
      /\ cur \in Nat /\ Listens \subseteq Nat
  BY DEF Inv, Types, Counts, Listens
<1>3. \A g \in Listens : Sent(g)' = Sent(g) /\ taken[g] <= taken'[g]
  BY <1>1, <1>2 DEF Sent
<1>4. LogTypes' /\ StillToCome'
  BY <1>1, <1>2 DEF LogInv, LogTypes, StillToCome
<1>5. ASSUME NEW g \in Listens PROVE Sessions(g)' /\ Interfaces(g)'
  <2>1. PICK k \in 0..taken[g] : SessionsUpTo(g, k) /\ SessionsWait(g, k)
    BY DEF LogInv, Sessions
  <2>2. k \in 0..taken'[g] /\ SessionsWait(g, k)' /\ SessionsUpTo(g, k)'
    BY <1>1, <1>2, <1>3, <2>1, LogStays DEF SessionsWait
  <2>3. Interfaces(g)'
    BY <1>1, LogStays DEF LogInv, Interfaces, InterfacesWait
  <2> QED BY <2>2, <2>3 DEF Sessions
<1> QED BY <1>4, <1>5 DEF LogInv

LEMMA SendInOrder ==
    ASSUME Inv, Counts, LogInv, NEW h \in Listens, SendSession(h)
    PROVE  LogInv'
<1>1. /\ task[h] = "send"
      /\ h = cur => queue' = Append(queue, taken[h]) /\ task' = [task EXCEPT ![h] = "accept"]
      /\ h # cur => queue' = queue /\ task' = [task EXCEPT ![h] = "ended"]
      /\ UNCHANGED <<log, interface, pending, seen, cur, taken, takenThen>>
  BY DEF SendSession, history
<1>2. /\ taken \in [Listens -> Nat] /\ task \in [Listens -> {"none", "accept", "send", "ended"}]
      /\ cur \in Nat /\ Listens \subseteq Nat /\ queue \in Seq(Nat)
  BY DEF Inv, Types, Counts, Listens, LogInv, LogTypes
<1>3. ASSUME NEW g \in Listens, g # h PROVE task'[g] = task[g] /\ Sent(g)' = Sent(g)
  BY <1>1, <1>2, <1>3 DEF Sent
<1>4. LogTypes' /\ StillToCome'
  <2>1. queue' \in Seq(Nat)
    <3>1. taken[h] \in Nat
      BY <1>2
    <3>2. Append(queue, taken[h]) \in Seq(Nat)
      BY <1>2, <3>1
    <3> QED BY <1>1, <1>2, <3>2
  <2>2. task[h] # "none"
    BY <1>1
  <2> QED BY <1>1, <1>3, <2>1, <2>2 DEF LogInv, LogTypes, StillToCome
<1>5. ASSUME NEW g \in Listens PROVE Sessions(g)' /\ Interfaces(g)'
  <2>1. PICK k \in 0..taken[g] : SessionsUpTo(g, k) /\ SessionsWait(g, k)
    BY DEF LogInv, Sessions
  <2>2. SessionsUpTo(g, k)' /\ k \in 0..taken'[g] /\ Interfaces(g)'
    BY <1>1, <2>1, LogStays DEF LogInv, Interfaces, InterfacesWait
  <2>3. SessionsWait(g, k)'
    <3>1. CASE g # cur
      BY <1>1, <2>1, <3>1 DEF SessionsWait
    <3>2. CASE g = cur /\ g # h
      BY <1>1, <1>3, <2>1, <3>2 DEF SessionsWait
    <3>3. CASE g = cur /\ g = h
      <4>1. k + Len(queue) = taken[g] - 1 /\ \A i \in 1..Len(queue) : queue[i] = k + i
        BY <1>1, <2>1, <3>3 DEF SessionsWait, Sent
      <4>2. /\ queue' = Append(queue, taken[g]) /\ Sent(g)' = taken[g]
            /\ taken[g] \in Nat /\ k \in Nat /\ Len(queue) \in Nat
        BY <1>1, <1>2, <3>3 DEF Sent
      <4>3. /\ Len(queue') = Len(queue) + 1 /\ queue'[Len(queue) + 1] = taken[g]
            /\ \A i \in 1..Len(queue) : queue'[i] = queue[i]
        BY <1>2, <4>2
      <4>4. \A i \in 1..Len(queue') : queue'[i] = k + i
        BY <4>1, <4>2, <4>3
      <4>5. k + Len(queue') = Sent(g)' /\ ~(g < cur')
        BY <1>1, <1>2, <3>3, <4>1, <4>2, <4>3
      <4> QED BY <4>4, <4>5 DEF SessionsWait
    <3> QED BY <3>1, <3>2, <3>3
  <2> QED BY <2>2, <2>3 DEF Sessions
<1> QED BY <1>4, <1>5 DEF LogInv

(* The poll reports what neither a session nor an interface brought.       *)
LEMMA ListenReported ==
    ASSUME Inv, LogInv, NEW e \in [kind : {"listen"}, by : Listens], Report(e),
           pending' = pending \/ (pending' = Tail(pending) /\ pending # <<>>),
           UNCHANGED <<queue, interface, seen, cur, task, taken, takenThen>>
    PROVE  LogInv'
<1>1. log' = Append(log, e) /\ e \in Event /\ log \in Seq(Event) /\ e.kind = "listen"
  BY DEF Report, LogInv, LogTypes, Event
<1>2. LogTypes' /\ StillToCome'
  <2>1. log' \in Seq(Event)
    BY <1>1
  <2>2. pending' \in Seq([kind : {"listen"}, by : Listens])
    <3> DEFINE S == [kind : {"listen"}, by : Listens]
    <3>1. pending \in Seq(S)
      BY DEF LogInv, LogTypes
    <3> HIDE DEF S
    <3>2. pending # <<>> => Tail(pending) \in Seq(S)
      BY <3>1
    <3>3. pending' \in Seq(S)
      BY <3>1, <3>2
    <3> QED BY <3>3 DEF S
  <2> QED BY <2>1, <2>2 DEF LogInv, LogTypes, StillToCome
<1>3. ASSUME NEW g \in Listens PROVE Sessions(g)' /\ Interfaces(g)'
  <2>1. e.kind \notin SessionKinds /\ e.kind \notin InterfaceKinds
    BY <1>1 DEF InterfaceKinds, SessionKinds
  <2>2. \A k : SessionsUpTo(g, k)' = SessionsUpTo(g, k)
    BY <1>1, <2>1, OtherReport DEF SessionsUpTo
  <2>3. \A k : SessionsWait(g, k)' = SessionsWait(g, k)
    BY DEF SessionsWait, Sent
  <2>4. \A n : InterfacesUpTo(g, n)' = InterfacesUpTo(g, n)
    <3>1. \A n : Told(g, n)' = Told(g, n)
      BY DEF Told
    <3> QED BY <1>1, <2>1, <3>1, OtherReport DEF InterfacesUpTo
  <2>5. \A n : InterfacesWait(g, n)' = InterfacesWait(g, n)
    BY DEF InterfacesWait
  <2>6. Sessions(g) /\ Interfaces(g) /\ taken'[g] = taken[g] /\ seen'[g] = seen[g]
    BY DEF LogInv
  <2> QED BY <2>2, <2>3, <2>4, <2>5, <2>6 DEF Sessions, Interfaces
<1> QED BY <1>2, <1>3 DEF LogInv

(* PollRecv: the first session that waits is the next the log has not.     *)
LEMMA RecvInOrder ==
    ASSUME Inv, Counts, LogInv, PollRecv
    PROVE  LogInv'
<1> DEFINE e == [kind |-> "session", by |-> cur, num |-> Head(queue)]
<1>1. /\ queue # <<>> /\ log' = Append(log, e) /\ queue' = Tail(queue)
      /\ UNCHANGED <<interface, pending, seen, cur, task, taken, takenThen>>
  BY DEF PollRecv, Report, history
<1>2. /\ queue \in Seq(Nat) /\ log \in Seq(Event) /\ cur \in Listens /\ e \in Event
      /\ Len(queue) \in Nat /\ Head(queue) = queue[1] /\ 1 \in 1..Len(queue)
      /\ Len(queue') = Len(queue) - 1 /\ queue' \in Seq(Nat)
      /\ \A i \in 1..(Len(queue) - 1) : queue'[i] = queue[i + 1]
  BY <1>1 DEF LogInv, LogTypes, Inv, Types, Nothing, Event
<1>3. cur \in Nat /\ Listens \subseteq Nat /\ taken \in [Listens -> Nat]
  BY <1>2 DEF Listens, Counts
<1>4. LogTypes'
  <2>1. log' \in Seq(Event)
    BY <1>1, <1>2
  <2> QED BY <1>1, <1>2, <2>1 DEF LogInv, LogTypes
<1>5. StillToCome'
  BY <1>1 DEF LogInv, StillToCome
<1>6. ASSUME NEW g \in Listens PROVE Interfaces(g)'
  <2>1. e.kind \notin InterfaceKinds
    BY DEF InterfaceKinds
  <2>2. \A n : Told(g, n)' = Told(g, n) /\ InterfacesWait(g, n)' = InterfacesWait(g, n)
    BY <1>1 DEF Told, InterfacesWait
  <2>3. \A n : InterfacesUpTo(g, n)' = InterfacesUpTo(g, n)
    <3> HIDE DEF e
    <3> QED BY <1>1, <1>2, <2>1, <2>2, OtherReport DEF InterfacesUpTo
  <2>4. Interfaces(g) /\ seen'[g] = seen[g]
    BY <1>1 DEF LogInv
  <2> QED BY <2>2, <2>3, <2>4 DEF Interfaces
<1>7. ASSUME NEW g \in Listens PROVE Sessions(g)'
  <2>1. PICK k \in 0..taken[g] : SessionsUpTo(g, k) /\ SessionsWait(g, k)
    BY DEF LogInv, Sessions
  <2>2. k \in Nat /\ taken[g] \in Nat
    BY <1>3
  <2>3. CASE g # cur
    <3>1. e.by # g
      BY <2>3
    <3>2. SessionsUpTo(g, k)'
      <4> HIDE DEF e
      <4> QED BY <1>1, <1>2, <2>1, <3>1, OtherReport DEF SessionsUpTo
    <3>3. SessionsWait(g, k)'
      BY <1>1, <2>1, <2>3 DEF SessionsWait
    <3> QED BY <1>1, <3>2, <3>3 DEF Sessions
  <2>4. CASE g = cur
    <3>1. k + Len(queue) = Sent(g) /\ \A i \in 1..Len(queue) : queue[i] = k + i
      BY <2>1, <2>4 DEF SessionsWait
    <3>2. e.num = k + 1 /\ e.by = g /\ e.kind \in SessionKinds
      BY <1>2, <2>4, <3>1 DEF SessionKinds
    <3>3. \A i \in Reports(g, SessionKinds) : log[i].num < e.num
      <4>1. \A i \in Reports(g, SessionKinds) : log[i].num \in 1..k
        BY <2>1 DEF SessionsUpTo, Numbers
      <4> QED BY <2>2, <3>2, <4>1
    <3>4. SessionsUpTo(g, k + 1)'
      <4>1. Rising(Reports(g, SessionKinds))
            /\ Numbers(g, SessionKinds) = 1..k
        BY <2>1 DEF SessionsUpTo
      <4>2. /\ Rising(Reports(g, SessionKinds))'
            /\ Numbers(g, SessionKinds)' = Numbers(g, SessionKinds) \cup {e.num}
        <5> HIDE DEF e
        <5> QED BY <1>1, <1>2, <3>2, <3>3, <4>1, NextReport, Zenon
      <4>3. (1..k) \cup {k + 1} = 1..(k + 1)
        BY <2>2
      <4> QED BY <3>2, <4>1, <4>2, <4>3 DEF SessionsUpTo
    <3>5. Sent(g)' = Sent(g) /\ Sent(g) <= taken[g] /\ Sent(g) \in Int
      BY <1>1, <2>2 DEF Sent
    <3>6. k + 1 \in 0..taken'[g]
      BY <1>1, <1>2, <2>2, <3>1, <3>5
    <3>7. SessionsWait(g, k + 1)'
      <4>1. (k + 1) + Len(queue') = Sent(g)'
        BY <1>2, <2>2, <3>1, <3>5
      <4>2. \A i \in 1..Len(queue') : queue'[i] = (k + 1) + i
        BY <1>2, <2>2, <3>1
      <4>3. ~(g < cur')
        BY <1>1, <1>3, <2>4
      <4> QED BY <4>1, <4>2, <4>3 DEF SessionsWait
    <3> QED BY <3>4, <3>6, <3>7 DEF Sessions
  <2> QED BY <2>3, <2>4
<1> QED BY <1>4, <1>5, <1>6, <1>7 DEF LogInv

(* poll_if_addr: the next interface event is taken from the watcher, and   *)
(* reported unless it is of the other family.                              *)
LEMMA IfAddrInOrder ==
    ASSUME Inv, Counts, LogInv, PollIfAddr, interface # <<>>
    PROVE  LogInv'
<1> DEFINE d == Head(interface)
           e == [kind |-> d.kind, by |-> cur, num |-> d.num]
<1>1. /\ interface' = Tail(interface)
      /\ IF d.kind = "other" THEN log' = log ELSE log' = Append(log, e)
      /\ UNCHANGED <<queue, pending, seen, cur, task, taken, takenThen>>
  BY DEF PollIfAddr, Report, history
<1>2. /\ interface \in Seq(IfEvent) /\ log \in Seq(Event) /\ cur \in Listens
      /\ Len(interface) \in Nat /\ d = interface[1] /\ d \in IfEvent /\ 1 \in 1..Len(interface)
      /\ Len(interface') = Len(interface) - 1 /\ interface' \in Seq(IfEvent)
      /\ \A i \in 1..(Len(interface) - 1) : interface'[i] = interface[i + 1]
  BY <1>1 DEF LogInv, LogTypes, Inv, Types, Nothing
<1>3. d.kind # "other" => e \in Event /\ e.kind \in InterfaceKinds
  BY <1>2 DEF IfEvent, Event, InterfaceKinds
<1>4. e.by = cur /\ e.num = d.num /\ e.kind = d.kind
  OBVIOUS
<1> HIDE DEF e
<1>5. LogTypes'
  <2>1. log' \in Seq(Event)
    BY <1>1, <1>2, <1>3
  <2> QED BY <1>1, <1>2, <2>1 DEF LogInv, LogTypes
<1>6. StillToCome'
  BY <1>1 DEF LogInv, StillToCome
<1>7. ASSUME NEW g \in Listens PROVE Sessions(g)'
  <2>1. PICK k \in 0..taken[g] : SessionsUpTo(g, k) /\ SessionsWait(g, k)
    BY DEF LogInv, Sessions
  <2>2. SessionsWait(g, k)' /\ taken'[g] = taken[g]
    BY <1>1, <2>1 DEF SessionsWait, Sent
  <2>3. SessionsUpTo(g, k)'
    <3>1. CASE d.kind = "other"
      BY <1>1, <2>1, <3>1, LogStays
    <3>2. CASE d.kind # "other"
      <4>1. e.kind \notin SessionKinds
        BY <1>3, <3>2 DEF InterfaceKinds, SessionKinds
      <4> QED BY <1>1, <1>2, <1>3, <2>1, <3>2, <4>1, OtherReport DEF SessionsUpTo
    <3> QED BY <3>1, <3>2
  <2> QED BY <2>2, <2>3 DEF Sessions
<1>8. ASSUME NEW g \in Listens PROVE Interfaces(g)'
  <2>1. PICK n \in 0..Len(seen[g]) : InterfacesUpTo(g, n) /\ InterfacesWait(g, n)
    BY DEF LogInv, Interfaces
  <2>2. seen'[g] = seen[g] /\ cur' = cur /\ \A k : Told(g, k)' = Told(g, k)
    BY <1>1 DEF Told
  <2>3. CASE g # cur
    <3>1. InterfacesWait(g, n)'
      BY <2>2, <2>3 DEF InterfacesWait
    <3>2. InterfacesUpTo(g, n)'
      <4>1. CASE d.kind = "other"
        BY <1>1, <2>1, <2>2, <4>1, LogStays
      <4>2. CASE d.kind # "other"
        BY <1>1, <1>2, <1>3, <1>4, <2>1, <2>2, <2>3, <4>2, OtherReport DEF InterfacesUpTo
      <4> QED BY <4>1, <4>2
    <3> QED BY <2>2, <3>1, <3>2 DEF Interfaces
  <2>4. CASE g = cur
    <3>1. n \in Nat /\ Len(seen[g]) \in Nat
      BY DEF LogInv, LogTypes
    <3>2. n + Len(interface) = Len(seen[g])
          /\ \A i \in 1..Len(interface) : interface[i] = seen[g][n + i]
      BY <2>1, <2>4 DEF InterfacesWait
    <3>3. n + 1 \in 1..Len(seen[g]) /\ n + 1 \in 0..Len(seen[g]) /\ d = seen[g][n + 1]
      BY <1>2, <3>1, <3>2
    <3>4. d.num = n + 1
      BY <3>3 DEF LogInv, LogTypes
    <3>5. InterfacesWait(g, n + 1)'
      <4>1. (n + 1) + Len(interface') = Len(seen'[g])
        <5>1. Len(interface) \in Nat /\ Len(interface') = Len(interface) - 1
          BY <1>2
        <5>2. n + Len(interface) = Len(seen[g])
          BY <3>2
        <5>3. (n + 1) + Len(interface') = Len(seen[g])
          BY <3>1, <5>1, <5>2
        <5> QED BY <2>2, <5>3
      <4>2. ASSUME NEW i \in 1..Len(interface') PROVE interface'[i] = seen'[g][(n + 1) + i]
        <5>1. i + 1 \in 1..Len(interface) /\ n + (i + 1) = (n + 1) + i /\ interface'[i] = interface[i + 1]
          BY <1>2, <3>1, <4>2
        <5>2. interface[i + 1] = seen[g][n + (i + 1)]
          BY <3>2, <5>1
        <5> QED BY <2>2, <5>1, <5>2
      <4> QED BY <4>1, <4>2 DEF InterfacesWait
    <3>6. Told(g, n + 1) = IF d.kind = "other" THEN Told(g, n)
                           ELSE Told(g, n) \cup {<<d.kind, d.num>>}
      <4>1. \A i : i \in 1..(n + 1) <=> i \in 1..n \/ i = n + 1
        BY <3>1
      <4> QED BY <3>3, <3>4, <4>1 DEF Told
    <3>7. InterfacesUpTo(g, n + 1)'
      <4>1. CASE d.kind = "other"
        <5>1. InterfacesUpTo(g, n)'
          BY <1>1, <2>1, <2>2, <4>1, LogStays
        <5> QED BY <2>2, <3>6, <4>1, <5>1 DEF InterfacesUpTo
      <4>2. CASE d.kind # "other"
        <5>1. Rising(Reports(g, InterfaceKinds)) /\ News(g, InterfaceKinds) = Told(g, n)
          BY <2>1 DEF InterfacesUpTo
        <5>2. ASSUME NEW i \in Reports(g, InterfaceKinds) PROVE log[i].num < e.num
          <6>1. <<log[i].kind, log[i].num>> \in Told(g, n)
            BY <5>1 DEF News
          <6>2. log[i].num \in 1..n
            BY <6>1 DEF Told
          <6> QED BY <1>4, <3>1, <3>4, <6>2
        <5>3. /\ Rising(Reports(g, InterfaceKinds))'
              /\ News(g, InterfaceKinds)' = News(g, InterfaceKinds) \cup {<<e.kind, e.num>>}
          BY <1>1, <1>2, <1>3, <1>4, <2>4, <4>2, <5>1, <5>2, NextReport
        <5> QED BY <1>4, <2>2, <3>6, <4>2, <5>1, <5>3 DEF InterfacesUpTo
      <4> QED BY <4>1, <4>2
    <3> QED BY <2>2, <3>3, <3>5, <3>7 DEF Interfaces
  <2> QED BY <2>3, <2>4
<1> QED BY <1>5, <1>6, <1>7, <1>8 DEF LogInv

LEMMA LogInvNext == Inv /\ Counts /\ LogInv /\ [Next]_vars => LogInv'
<1> SUFFICES ASSUME Inv, Counts, LogInv, [Next]_vars PROVE LogInv'
  OBVIOUS
<1>1. task \in [Listens -> {"none", "accept", "send", "ended"}]
  BY DEF Inv, Types
<1>2. ASSUME NEW g \in Listens, EndpointCloses(g) PROVE LogInv'
  <2>1. /\ task[g] = "accept" /\ task' = [task EXCEPT ![g] = "ended"]
        /\ UNCHANGED <<log, queue, interface, pending, seen, cur, taken, takenThen>>
    BY <1>2 DEF EndpointCloses, history
  <2> QED BY <1>1, <2>1, NothingReported
<1>3. CASE PollTransport
  <2>1. CASE pending # <<>>
    <3>1. Head(pending) \in [kind : {"listen"}, by : Listens]
      <4> DEFINE S == [kind : {"listen"}, by : Listens]
      <4>1. pending \in Seq(S)
        BY DEF LogInv, LogTypes
      <4> HIDE DEF S
      <4>2. Head(pending) \in S
        BY <2>1, <4>1
      <4> QED BY <4>2 DEF S
    <3>2. Report(Head(pending)) /\ pending' = Tail(pending)
          /\ UNCHANGED <<queue, interface, seen, cur, task, taken, takenThen>>
      BY <1>3, <2>1 DEF PollTransport, history
    <3> QED BY <2>1, <3>1, <3>2, ListenReported
  <2>2. CASE pending = <<>>
    <3>1. UNCHANGED <<log, queue, interface, pending, seen, cur, task, taken, takenThen>>
      BY <1>3, <2>2 DEF PollTransport, history
    <3> QED BY <1>1, <3>1, NothingReported
  <2> QED BY <2>1, <2>2
<1>4. CASE PollPending
  <2>1. CASE hello[cur]
    <3>1. cur \in Listens
      BY <1>4 DEF PollPending, Inv, Types, Nothing
    <3>2. /\ Report(ListenAddr(cur)) /\ pending' = pending
          /\ UNCHANGED <<queue, interface, seen, cur, task, taken, takenThen>>
          /\ ListenAddr(cur) \in [kind : {"listen"}, by : Listens]
      BY <1>4, <2>1, <3>1 DEF PollPending, ListenAddr, history
    <3> QED BY <3>2, ListenReported
  <2>2. CASE ~hello[cur]
    <3>1. UNCHANGED <<log, queue, interface, pending, seen, cur, task, taken, takenThen>>
      BY <1>4, <2>2 DEF PollPending, history
    <3> QED BY <1>1, <3>1, NothingReported
  <2> QED BY <2>1, <2>2
<1>5. CASE PollIfAddr
  <2>1. CASE interface = <<>>
    <3>1. UNCHANGED <<log, queue, interface, pending, seen, cur, task, taken, takenThen>>
      BY <1>5, <2>1 DEF PollIfAddr, history
    <3> QED BY <1>1, <3>1, NothingReported
  <2> QED BY <1>5, <2>1, IfAddrInOrder
<1>6. CASE StartPoll \/ PollRecvClosed \/ PollRecvPending \/ PollRecvYields \/ UNCHANGED vars
  <2>1. UNCHANGED <<log, queue, interface, pending, seen, cur, task, taken, takenThen>>
    BY <1>6 DEF StartPoll, PollRecvClosed, PollRecvPending, PollRecvYields, sources, history, vars
  <2> QED BY <1>1, <2>1, NothingReported
<1>7. CASE PollRecv
  BY <1>7, RecvInOrder
<1>8. CASE Poll
  BY <1>3, <1>4, <1>5, <1>6, <1>7, <1>8 DEF Poll
<1>9. CASE World
  BY <1>2, <1>9, ListenInOrder, InterfaceInOrder, AcceptInOrder DEF World
<1>10. ASSUME NEW g \in Listens, SendSession(g) PROVE LogInv'
  BY <1>10, SendInOrder
<1> QED BY <1>6, <1>8, <1>9, <1>10 DEF Next

LEMMA LogInvInit == Init => LogInv
<1> SUFFICES ASSUME Init PROVE LogInv
  OBVIOUS
<1>1. LogTypes /\ StillToCome /\ cur = 0
  BY DEF Init, LogTypes, StillToCome
<1>2. ASSUME NEW g \in Listens PROVE Sessions(g) /\ Interfaces(g)
  <2>1. \A kinds : Reports(g, kinds) = {}
    BY DEF Init, Reports
  <2>2. taken[g] = 0 /\ seen[g] = <<>> /\ g \in Nat /\ g > 0 /\ log = <<>>
    BY DEF Init, Listens
  <2>3. \A kinds : Rising(Reports(g, kinds)) /\ Numbers(g, kinds) = {} /\ News(g, kinds) = {}
    BY <2>1 DEF Rising, Numbers, News
  <2>4. 1..0 = {} /\ Told(g, 0) = {}
    BY DEF Told
  <2>5. SessionsUpTo(g, 0) /\ InterfacesUpTo(g, 0)
    BY <2>3, <2>4 DEF SessionsUpTo, InterfacesUpTo
  <2>6. SessionsWait(g, 0) /\ InterfacesWait(g, 0)
    BY <1>1, <2>2 DEF SessionsWait, InterfacesWait
  <2>7. 0 \in 0..taken[g] /\ 0 \in 0..Len(seen[g])
    BY <2>2
  <2> QED BY <2>5, <2>6, <2>7 DEF Sessions, Interfaces
<1> QED BY <1>1, <1>2 DEF LogInv

(* The log of a node and what waits at its listener are together all that  *)
(* the watcher and the endpoint of that listener brought, in their order,  *)
(* whatever the threads that add to the sources and the owner that polls   *)
(* them do in between; of a listener that was replaced it has a first part.*)
THEOREM NodeReportsInOrder == Spec => []ReportedInOrder
<1>1. Init => Counts /\ Orphans /\ LogInv
  BY LogInvInit DEF Init, Counts, Orphans, Listens
<1> QED BY <1>1, InvAlways, OrphansNext, LogInvNext, LogInvIsReportedInOrder, PTL DEF Spec
=============================================================================
