----------------------------- MODULE NodeEvents -----------------------------
(***************************************************************************)
(* How a node of sf-node learns what happens at its WebTransport listener: *)
(* Node::poll_next_event, WebTransport::poll and Listener::poll_next of    *)
(* sf-wt-transport, run by the task that owns the node, the task that      *)
(* accepts sessions of the QUIC endpoint, and the interface watcher.       *)
(*                                                                         *)
(* A poll looks at one source after another; other threads add to the      *)
(* sources meanwhile. When it returns Pending the owner sleeps until a     *)
(* waker that one of the sources has kept wakes it. WebTransport is the    *)
(* only transport there is, so the node polls one.                         *)
(***************************************************************************)
EXTENDS Naturals, FiniteSets, SequencesExt

CONSTANTS
    MaxListens,   \* calls of listen (bound)
    MaxSessions,  \* sessions of the endpoints together (bound)
    MaxIfEvents,  \* events of the interface watchers together (bound)
    Cap,          \* capacity of the accept channel (16 in the code)
    Budget,       \* what one poll may take before tokio makes it yield (128)
    Fails         \* bound: endpoints that close by themselves

ASSUME BoundsAssumption ==
    /\ MaxListens \in Nat /\ MaxSessions \in Nat /\ MaxIfEvents \in Nat
    /\ Cap \in Nat \ {0} /\ Budget \in Nat \ {0} /\ Fails \subseteq Nat

Listens == 1..MaxListens

VARIABLES
    at,        \* where the poll is; "idle" between polls
    woken,     \* the owner's task is to be polled
    budget,    \* what is left of Budget in this poll; full between polls
    pending,   \* WebTransport.pending_events
    cur,       \* WebTransport.listener: the call that made it, or 0
    hello,     \* Listener.pending_event is there
    watch,     \* Listener.if_watcher is there
    interface, \* interface events not yet polled
    task,      \* the task that accepts sessions
    queue,     \* the accept channel
    wakers,    \* the sources that keep the owner's waker
    log,       \* what the node has reported
    seen,      \* history: the interface events of each listener
    taken,     \* history: the sessions each endpoint accepted
    takenThen  \* history: those accepted before the listener was replaced

sources == <<pending, cur, hello, watch, interface, task, queue>>
history == <<seen, taken, takenThen>>
vars == <<at, woken, budget, sources, wakers, log, history>>

At    == {"idle", "transport", "pending", "addr", "accept"}
(* An event names the listener; a session and an interface event also      *)
(* their number.                                                           *)
Event == [kind : {"listen"}, by : Listens]
         \cup [kind : {"session", "up", "down", "error"}, by : Listens, num : Nat]

ListenAddr(g) == [kind |-> "listen", by |-> g]

Init ==
    /\ at = "idle" /\ woken = TRUE /\ budget = Budget
    /\ pending = <<>> /\ cur = 0
    /\ hello = [g \in Listens |-> FALSE] /\ watch = [g \in Listens |-> FALSE]
    /\ interface = <<>>
    /\ task = [g \in Listens |-> "none"]
    /\ queue = <<>>
    /\ wakers = {} /\ log = <<>>
    /\ seen = [g \in Listens |-> <<>>]
    /\ taken = [g \in Listens |-> 0] /\ takenThen = [g \in Listens |-> 0]

-----------------------------------------------------------------------------
(* Node::listen, on an address of one interface or of all. A failure       *)
(* changes nothing. An old listener is dropped with its channel; the task  *)
(* that accepts for it is not. Whoever calls this owns the node and polls  *)
(* it next.                                                                *)
Listen(g, every) ==
    /\ at = "idle" /\ g = cur + 1
    /\ pending' = Append(pending, ListenAddr(g))
    /\ cur' = g
    /\ hello' = [hello EXCEPT ![g] = ~every]
    /\ watch' = [watch EXCEPT ![g] = every]
    /\ interface' = <<>>
    /\ task' = [task EXCEPT ![g] = "accept"]
    /\ queue' = <<>>
    /\ wakers' = {} /\ woken' = TRUE
    /\ takenThen' = IF cur = 0 THEN takenThen ELSE [takenThen EXCEPT ![cur] = taken[cur]]
    /\ UNCHANGED <<at, budget, log, seen, taken>>

(* A source calls the waker it has.                                        *)
Wake(source) ==
    /\ woken' = (woken \/ source \in wakers)
    /\ wakers' = wakers \ {source}

-----------------------------------------------------------------------------
(* The interface watcher: an address of the listener's family comes up or  *)
(* goes down, one of the other family does, or watching fails.             *)
Count(g, kind) == Cardinality({i \in DOMAIN seen[g] : seen[g][i].kind = kind})

IfEvents == FoldFunction(LAMBDA s, n : Len(s) + n, 0, seen)

InterfaceEvent(kind) ==
    /\ cur # 0 /\ watch[cur] /\ IfEvents < MaxIfEvents
    /\ kind = "down" => Count(cur, "down") < Count(cur, "up")
    /\ LET e == [kind |-> kind, num |-> Len(seen[cur]) + 1] IN
       /\ seen' = [seen EXCEPT ![cur] = Append(@, e)]
       /\ interface' = Append(interface, e)
    /\ Wake("interface")
    /\ UNCHANGED <<at, budget, pending, cur, hello, watch, task, queue, log, taken, takenThen>>

Accepted == FoldFunction(LAMBDA t, n : t + n, 0, taken)

(* quic.accept() yields a session.                                         *)
AcceptSession(g) ==
    /\ task[g] = "accept" /\ Accepted < MaxSessions
    /\ taken' = [taken EXCEPT ![g] = @ + 1]
    /\ task' = [task EXCEPT ![g] = "send"]
    /\ UNCHANGED <<at, woken, budget, pending, cur, hello, watch, interface, queue, wakers, log,
                   seen, takenThen>>

(* Mutant: nobody looks whether the session was taken.                     *)
SendSessionOrNot(g) ==
    /\ task[g] = "send"
    /\ IF g = cur
       THEN /\ Len(queue) < Cap
            /\ queue' = Append(queue, taken[g])
            /\ Wake("accept")
       ELSE UNCHANGED <<queue, woken, wakers>>
    /\ task' = [task EXCEPT ![g] = "accept"]
    /\ UNCHANGED <<at, budget, pending, cur, hello, watch, interface, log, history>>

(* Mutant: try_send, and a full channel is no reason to stop.              *)
SendSessionTry(g) ==
    /\ task[g] = "send"
    /\ IF g = cur
       THEN /\ queue' = IF Len(queue) < Cap THEN Append(queue, taken[g]) ELSE queue
            /\ task' = [task EXCEPT ![g] = "accept"]
            /\ Wake("accept")
       ELSE /\ task' = [task EXCEPT ![g] = "ended"]
            /\ UNCHANGED <<queue, woken, wakers>>
    /\ UNCHANGED <<at, budget, pending, cur, hello, watch, interface, log, history>>

(* tx.send waits for room; when the listener is gone it fails, and the     *)
(* task ends and closes the endpoint.                                      *)
SendSession(g) ==
    /\ task[g] = "send"
    /\ IF g = cur
       THEN /\ Len(queue) < Cap
            /\ queue' = Append(queue, taken[g])
            /\ task' = [task EXCEPT ![g] = "accept"]
            /\ Wake("accept")
       ELSE /\ task' = [task EXCEPT ![g] = "ended"]
            /\ UNCHANGED <<queue, woken, wakers>>
    /\ UNCHANGED <<at, budget, pending, cur, hello, watch, interface, log, history>>

(* quic.accept() yields nothing more: the task ends and the channel closes.*)
EndpointCloses(g) ==
    /\ g \in Fails /\ task[g] = "accept"
    /\ task' = [task EXCEPT ![g] = "ended"]
    /\ IF g = cur THEN Wake("accept") ELSE UNCHANGED <<woken, wakers>>
    /\ UNCHANGED <<at, budget, pending, cur, hello, watch, interface, queue, log, history>>

-----------------------------------------------------------------------------
(* The poll. The runtime polls the owner's task, which polls the node.     *)
StartPoll ==
    /\ at = "idle" /\ woken
    /\ at' = "transport" /\ woken' = FALSE
    /\ UNCHANGED <<budget, sources, wakers, log, history>>

(* Mutant: the node polls its transport once.                              *)
ReportOnce(e) == log' = Append(log, e) /\ at' = "idle"

(* poll_next_event logs the event and polls again from the start.          *)
Report(e) == log' = Append(log, e) /\ at' = "transport"

(* WebTransport::poll: its own events before the listener.                 *)
PollTransport ==
    /\ at = "transport"
    /\ IF pending # <<>>
       THEN Report(Head(pending)) /\ pending' = Tail(pending)
       ELSE /\ at' = IF cur = 0 THEN "idle" ELSE "pending"
            /\ UNCHANGED <<pending, log>>
    /\ UNCHANGED <<woken, budget, cur, hello, watch, interface, task, queue, wakers, history>>

(* Listener::poll_next: pending_event.                                     *)
PollPending ==
    /\ at = "pending"
    /\ IF hello[cur]
       THEN Report(ListenAddr(cur)) /\ hello' = [hello EXCEPT ![cur] = FALSE]
       ELSE at' = "addr" /\ UNCHANGED <<hello, log>>
    /\ UNCHANGED <<woken, budget, pending, cur, watch, interface, task, queue, wakers, history>>

(* Mutant: the whole poll is over when no interface has news (ready!).      *)
PollIfAddrReady ==
    /\ at = "addr"
    /\ IF interface = <<>>
       THEN /\ at' = IF watch[cur] THEN "idle" ELSE "accept"
            /\ wakers' = IF watch[cur] THEN wakers \cup {"interface"} ELSE wakers
            /\ UNCHANGED <<interface, log>>
       ELSE /\ interface' = Tail(interface)
            /\ IF Head(interface).kind = "other" THEN UNCHANGED <<at, log>>
               ELSE Report([kind |-> Head(interface).kind, by |-> cur, num |-> Head(interface).num])
            /\ UNCHANGED wakers
    /\ UNCHANGED <<woken, budget, pending, cur, hello, watch, task, queue, history>>

(* poll_if_addr: an address of the other family is passed over.            *)
PollIfAddr ==
    /\ at = "addr"
    /\ IF interface = <<>>
       THEN /\ at' = "accept"
            /\ wakers' = IF watch[cur] THEN wakers \cup {"interface"} ELSE wakers
            /\ UNCHANGED <<interface, log>>
       ELSE /\ interface' = Tail(interface)
            /\ IF Head(interface).kind = "other" THEN UNCHANGED <<at, log>>
               ELSE Report([kind |-> Head(interface).kind, by |-> cur, num |-> Head(interface).num])
            /\ UNCHANGED wakers
    /\ UNCHANGED <<woken, budget, pending, cur, hello, watch, task, queue, history>>

(* accept.poll_recv. The session becomes a Connection that nobody keeps.   *)
PollRecv ==
    /\ at = "accept" /\ queue # <<>> /\ budget > 0
    /\ Report([kind |-> "session", by |-> cur, num |-> Head(queue)])
    /\ queue' = Tail(queue) /\ budget' = budget - 1
    /\ UNCHANGED <<woken, pending, cur, hello, watch, interface, task, wakers, history>>

(* The channel is closed: the listener looks at everything again.          *)
PollRecvClosed ==
    /\ at = "accept" /\ queue = <<>> /\ task[cur] = "ended" /\ budget > 0
    /\ at' = "pending" /\ budget' = budget - 1
    /\ UNCHANGED <<woken, sources, wakers, log, history>>

(* Mutant: the listener asks to be polled again rather than wait.          *)
PollRecvWakes ==
    /\ at = "accept" /\ queue = <<>> /\ task[cur] # "ended" /\ budget > 0
    /\ at' = "idle" /\ woken' = TRUE /\ budget' = Budget
    /\ UNCHANGED <<sources, wakers, log, history>>

(* Nothing there: the channel keeps the waker, and the poll is over.       *)
PollRecvPending ==
    /\ at = "accept" /\ queue = <<>> /\ task[cur] # "ended" /\ budget > 0
    /\ at' = "idle" /\ wakers' = wakers \cup {"accept"} /\ budget' = Budget
    /\ UNCHANGED <<woken, sources, log, history>>

(* tokio's channel lets the task yield when the budget is used up.         *)
PollRecvYields ==
    /\ at = "accept" /\ budget = 0
    /\ at' = "idle" /\ woken' = TRUE /\ budget' = Budget
    /\ UNCHANGED <<sources, wakers, log, history>>

-----------------------------------------------------------------------------
Poll == StartPoll \/ PollTransport \/ PollPending \/ PollIfAddr
          \/ PollRecv \/ PollRecvClosed \/ PollRecvPending \/ PollRecvYields

World ==
    \/ \E g \in Listens, every \in BOOLEAN : Listen(g, every)
    \/ \E kind \in {"up", "down", "other", "error"} : InterfaceEvent(kind)
    \/ \E g \in Listens : AcceptSession(g) \/ EndpointCloses(g)

Next == Poll \/ World \/ \E g \in Listens : SendSession(g)

(* The runtime polls what is woken; nobody has to connect or to listen.    *)
Fairness == WF_vars(Poll) /\ \A g \in Listens : WF_vars(SendSession(g))

Spec == Init /\ [][Next]_vars /\ Fairness
-----------------------------------------------------------------------------
(* When the owner sleeps, all that has happened has been reported, and what *)
(* happens next wakes it: no event is left until another one comes.        *)
NoLostWakeup ==
    at = "idle" /\ ~woken =>
        /\ pending = <<>> /\ interface = <<>> /\ queue = <<>>
        /\ cur # 0 =>
            /\ ~hello[cur] /\ task[cur] # "ended"
            /\ "accept" \in wakers
            /\ watch[cur] => "interface" \in wakers

(* The places of the log that report events of these kinds of a listener.  *)
Reports(g, kinds) == {i \in DOMAIN log : log[i].by = g /\ log[i].kind \in kinds}

Rising(places) == \A i, j \in places : i < j => log[i].num < log[j].num

Numbers(g, kinds) == {log[i].num : i \in Reports(g, kinds)}
News(g, kinds)    == {<<log[i].kind, log[i].num>> : i \in Reports(g, kinds)}

SessionKinds   == {"session"}
InterfaceKinds == {"up", "down", "error"}

(* What the task of an endpoint has sent, or found that it cannot send.    *)
Sent(g) == taken[g] - IF task[g] = "send" THEN 1 ELSE 0

(* The log has the sessions 1 to k of the listener, in this order, and the *)
(* accept channel those that follow.                                       *)
SessionsInOrder(g) ==
    /\ Rising(Reports(g, SessionKinds))
    /\ \E k \in 0..taken[g] :
        /\ Numbers(g, SessionKinds) = 1..k
        /\ g = cur => k + Len(queue) = Sent(g) /\ \A i \in DOMAIN queue : queue[i] = k + i
        /\ g < cur => k <= takenThen[g]

(* The log has what concerns the listener of the first n events of its     *)
(* watcher, in this order, and those that follow wait to be polled.        *)
InterfacesInOrder(g) ==
    /\ Rising(Reports(g, InterfaceKinds))
    /\ \E n \in 0..Len(seen[g]) :
        /\ News(g, InterfaceKinds) =
              {<<seen[g][i].kind, i>> : i \in {j \in 1..n : seen[g][j].kind # "other"}}
        /\ g = cur =>
            /\ n + Len(interface) = Len(seen[g])
            /\ \A i \in DOMAIN interface : interface[i] = seen[g][n + i]

(* What waits at the listener continues what the log says of it: nothing   *)
(* is lost, repeated or overtaken between the threads and the log. A       *)
(* session that waits for room in the channel has been accepted but not    *)
(* sent. Of a listener that was replaced, the log has a first part.        *)
ReportedInOrder == \A g \in Listens : SessionsInOrder(g) /\ InterfacesInOrder(g)

(* An endpoint whose listener was replaced accepts at most one session more *)
(* before the task that accepts for it finds out and ends.                 *)
OrphanTakesOne ==
    \A g \in 1..(cur - 1) : taken[g] <= takenThen[g] + 1

(* A session that an endpoint accepted is reported some day, unless its     *)
(* listener is replaced.                                                   *)
SessionsReported ==
    \A g \in Listens : \A n \in 1..MaxSessions :
        cur = g /\ taken[g] >= n
            ~> cur # g \/ [kind |-> "session", by |-> g, num |-> n] \in ToSet(log)

(* As long as the endpoint lives, the owner comes to rest when nothing      *)
(* happens any more. Once the endpoint has ended it never does: see         *)
(* PollRecvClosed and PollRecvYields.                                      *)
Ended == cur # 0 /\ task[cur] = "ended"

NodeRests == [](~Ended) => <>[](at = "idle" /\ ~woken)
=============================================================================
