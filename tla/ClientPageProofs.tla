-------------------------- MODULE ClientPageProofs --------------------------
(***************************************************************************)
(* Proofs about ClientPage, for every number of peers, callbacks, calls,   *)
(* channels and messages.                                                  *)
(***************************************************************************)
EXTENDS ClientPage, TLAPS

-----------------------------------------------------------------------------
(* A callback can act on a consistent registry: the map of callbacks does  *)
(* not change while notify_event goes through it.                          *)
RegistryHeld == [][CallbacksBorrowed => UNCHANGED callbacks]_vars

LEMMA PageCallHolds == CallbacksBorrowed /\ PageCall => UNCHANGED callbacks
BY DEF PageCall, OnEvent, RemoveOnEvent, StartCall, Add, Remove, registry

(* While an event is notified, whoever calls whatever from a callback, all *)
(* callbacks it was meant for are still registered.                        *)
THEOREM NotifiedStayRegistered == Spec => RegistryHeld
<1>1. [Next]_vars => [CallbacksBorrowed => UNCHANGED callbacks]_vars
  <2> SUFFICES ASSUME [Next]_vars, CallbacksBorrowed PROVE UNCHANGED callbacks
    OBVIOUS
  <2>1. CASE Run
    BY <2>1, PageCallHolds DEF Run, RunReader, ConnectToPeer, CreateDataChannel,
       SendMessageToPeer, RunIncoming, RunState, RunMessage, InvokeCallback, registry
  <2>2. CASE Browser
    BY <2>2 DEF Browser, ServerMessage, CallReturns, ChannelOpens, ChannelCloses, ChannelClosed,
       Listener, MessageArrives, IncomingChannel, registry
  <2>3. CASE Script
    BY <2>3, PageCallHolds DEF Script
  <2>4. CASE UNCHANGED vars
    BY <2>4 DEF vars, registry
  <2> QED BY <2>1, <2>2, <2>3, <2>4 DEF Next
<1> QED BY <1>1, PTL DEF Spec, RegistryHeld

-----------------------------------------------------------------------------
(* The inductive invariant behind HeardInOrder and EventsTellWhatWorks. A  *)
(* browser event or a script finds all tasks at rest, so that at most one  *)
(* thing is under way that the callbacks are still to hear: it is being    *)
(* notified, or it lies in the stream of a channel whose task is the next  *)
(* to be polled.                                                           *)
CallType ==
    {Unused, Done} \cup [op : {"connect", "send"}, to : Peers, step : {"start", "channel", "wait"}]

PageTypes ==
    /\ call \in [Calls -> CallType]
    /\ callbacks \subseteq Ids /\ nextId \in Nat /\ \A id \in callbacks : id < nextId
    /\ notifying \in [event : Event \cup {NoEvent}, left : SUBSET callbacks]
    /\ peers \subseteq Peers /\ dc \in [Peers -> {0} \cup Channels]
    /\ chan \in [Channels -> Channel \cup {NoChannel}]
    /\ ready \in Seq(Task)
    /\ arrived \in [offers : Nat, messages : 0..MaxMessages]
    /\ owed \in [Ids -> Seq(Event)]
    /\ early \in [Ids -> SUBSET Channels] /\ latest \in [Peers -> {0} \cup Channels]
    /\ told \in [Ids -> [Peers -> {"none", "DataChannelOpen", "DataChannelClose"}]]

(* The tasks that are ready are those of channels there are, and every     *)
(* item of a stream has its task among them. A channel that came in is     *)
(* taken before anything else happens.                                     *)
InReady(t) == \E i \in 1..Len(ready) : ready[i] = t

ReadyPart ==
    /\ \A t \in Task : InReady(t) /\ t.kind \in {"state", "message", "incoming"} =>
           t.of \in Channels /\ chan[t.of] # NoChannel
    /\ \A t \in Task : InReady(t) /\ t.kind = "incoming" =>
           ready = <<t>> /\ notifying = Silent /\ chan[t.of].state = "open"
    /\ \A ch \in Channels : chan[ch] # NoChannel =>
           /\ chan[ch].states # <<>> => InReady(T("state", ch))
           /\ chan[ch].messages # <<>> => InReady(T("message", ch))

(* No item of the streams of a channel is to be notified.                  *)
QuietStates(c)   == \A i \in 1..Len(c.states) : c.states[i] \notin {"open", "closed"}
QuietMessages(c) == \A i \in 1..Len(c.messages) : c.messages[i].kind # "text"
Quiet(ch)        == chan[ch] # NoChannel => QuietStates(chan[ch]) /\ QuietMessages(chan[ch])

(* The one item that is.                                                   *)
StateEvent(ch) ==
    [type |-> IF chan[ch].state = "open" THEN "DataChannelOpen" ELSE "DataChannelClose",
     channel |-> ch]

StateDue(ch, event) ==
    /\ Head(ready) = T("state", ch) /\ QuietMessages(chan[ch])
    /\ chan[ch].states = <<chan[ch].state>> /\ chan[ch].state \in {"open", "closed"}
    /\ event = StateEvent(ch)

MessageDue(ch, event) ==
    /\ Head(ready) = T("message", ch) /\ QuietStates(chan[ch])
    /\ \E num \in 1..MaxMessages :
        /\ chan[ch].messages = <<[num |-> num, kind |-> "text"]>>
        /\ event = [type |-> "DataChannelMessage", channel |-> ch, num |-> num]

(* Who is owed what: each of these callbacks this event, and nothing else. *)
OwedTo(ids, event) == owed = [id \in Ids |-> IF id \in ids THEN <<event>> ELSE <<>>]

(* Who is to hear what: an early report is owed by nobody, and none of the *)
(* callbacks has had it.                                                   *)
DueTo(ids, event) ==
    /\ OwedTo(IF Early(event) THEN {} ELSE ids, event)
    /\ Early(event) =>
        /\ Ours(event.channel) /\ chan[event.channel].state = "open"
        /\ \A id \in ids : event.channel \notin early[id]

BeingNotified ==
    /\ notifying.event \in Event /\ notifying.left # {}
    /\ DueTo(notifying.left, notifying.event) /\ \A ch \in Channels : Quiet(ch)

NothingDue ==
    notifying = Silent /\ OwedTo({}, NoEvent) /\ \A ch \in Channels : Quiet(ch)

OneDue ==
    /\ notifying = Silent /\ ready # <<>>
    /\ \E ch \in Channels, event \in Event :
        /\ chan[ch] # NoChannel /\ (StateDue(ch, event) \/ MessageDue(ch, event))
        /\ DueTo(callbacks, event)
        /\ \A k \in Channels \ {ch} : Quiet(k)

HearingPart == misheard = FALSE /\ (BeingNotified \/ NothingDue \/ OneDue)

(* The youngest channel of a peer is the one it has, or is about to be.    *)
PeersPart ==
    /\ \A ch \in Channels : chan[ch] # NoChannel => chan[ch].of \in peers
    /\ \A p \in Peers : latest[p] # 0 =>
        /\ Ours(latest[p]) /\ chan[latest[p]].of = p
        /\ dc[p] = latest[p] \/ InReady(T("incoming", latest[p]))

(* Nobody has been told of a channel that has not been taken, and it is    *)
(* still the youngest of its peer.                                         *)
IncomingPart ==
    \A ch \in Channels :
        /\ chan[ch] = NoChannel \/ InReady(T("incoming", ch)) => \A id \in Ids : ch \notin early[id]
        /\ InReady(T("incoming", ch)) =>
            /\ ch > MaxCalls /\ chan[ch].announced = FALSE
            /\ Ours(ch) => latest[chan[ch].of] = ch

(* A call that has made its channel waits or is done, and one that is about*)
(* to make it has its peer.                                                *)
CallsPart ==
    \A n \in Calls :
        /\ chan[n] # NoChannel => call[n] = Done \/ (call[n] # Unused /\ call[n].step = "wait")
        /\ call[n] \notin {Unused, Done} /\ call[n].step = "channel" => call[n].to \in peers

(* What a callback was told last of the youngest channel of a peer is what *)
(* the channel is, unless it is still to hear of it.                       *)
StateEvents(ch) == [type : {"DataChannelOpen", "DataChannelClose"}, channel : {ch}]

OwesState(id, ch) == owed[id] # <<>> /\ Head(owed[id]) \in StateEvents(ch)

Knows(id, p) ==
    /\ told[id][p] = "DataChannelOpen" => chan[latest[p]].state \in {"open", "closing"}
    /\ told[id][p] = "DataChannelClose" => chan[latest[p]].state = "closed"

ToldPart ==
    /\ \A id \in Ids \ callbacks, p \in Peers : told[id][p] = "none"
    /\ \A id \in Ids, p \in Peers : told[id][p] # "none" => latest[p] # 0
    /\ \A id \in Ids, ch \in Channels : OwesState(id, ch) =>
        /\ Ours(ch) /\ Head(owed[id]) = StateEvent(ch) /\ chan[ch].state \in {"open", "closed"}
    /\ \A id \in Ids, p \in Peers :
           latest[p] # 0 /\ ~OwesState(id, latest[p]) => Knows(id, p)

PageInv ==
    /\ PageTypes /\ ReadyPart /\ HearingPart /\ PeersPart /\ IncomingPart /\ CallsPart /\ ToldPart

-----------------------------------------------------------------------------
(* The tasks.                                                              *)
LEMMA TaskTypes ==
    /\ \A ch \in Channels : /\ T("state", ch) \in Task /\ T("message", ch) \in Task
                            /\ T("incoming", ch) \in Task
    /\ \A n \in Calls : T("call", n) \in Task
    /\ \A p \in Peers : T("reader", p) \in Task
    /\ \A k, o : T(k, o).kind = k /\ T(k, o).of = o
    /\ \A k, o, j, u : T(k, o) = T(j, u) => k = j /\ o = u
<1>1. Calls \subseteq Channels
  BY BoundsAssumption DEF Calls, Channels
<1> QED BY <1>1 DEF Task, T

LEMMA FirstTaskDone ==
    ASSUME ready \in Seq(Task), ready # <<>>, ready' = Tail(ready)
    PROVE  /\ ready' \in Seq(Task)
           /\ \A t : InReady(t)' => InReady(t)
           /\ \A t : InReady(t) /\ t # Head(ready) => InReady(t)'
           /\ \A t : ready = <<t>> => ready' = <<>>
           /\ ready' # <<>> => \A t : ready # <<t>>
<1>1. /\ Len(ready) \in Nat /\ Len(ready) > 0 /\ Len(ready') = Len(ready) - 1
      /\ Head(ready) = ready[1] /\ ready' \in Seq(Task)
      /\ \A i \in 1..(Len(ready) - 1) : ready'[i] = ready[i + 1]
  OBVIOUS
<1>2. ASSUME NEW t, InReady(t)' PROVE InReady(t)
  <2>1. PICK i \in 1..Len(ready') : ready'[i] = t
    BY <1>2 DEF InReady
  <2>2. i + 1 \in 1..Len(ready) /\ ready[i + 1] = t
    BY <1>1, <2>1
  <2> QED BY <2>2 DEF InReady
<1>3. ASSUME NEW t, InReady(t), t # Head(ready) PROVE InReady(t)'
  <2>1. PICK i \in 1..Len(ready) : ready[i] = t
    BY <1>3 DEF InReady
  <2>2. i # 1
    BY <1>1, <1>3, <2>1
  <2>3. i - 1 \in 1..Len(ready') /\ i - 1 \in 1..(Len(ready) - 1) /\ (i - 1) + 1 = i
    BY <1>1, <2>1, <2>2
  <2>4. ready'[i - 1] = t
    BY <1>1, <2>1, <2>3
  <2> QED BY <2>3, <2>4 DEF InReady
<1>4. ASSUME NEW t, ready = <<t>> PROVE ready' = <<>>
  BY <1>4
<1> QED BY <1>1, <1>2, <1>3, <1>4

LEMMA HeadIsReady ==
    ASSUME ready \in Seq(Task), ready # <<>>
    PROVE  InReady(Head(ready)) /\ Head(ready) \in Task
<1>1. 1 \in 1..Len(ready) /\ Head(ready) = ready[1] /\ Head(ready) \in Task
  OBVIOUS
<1> QED BY <1>1 DEF InReady

LEMMA TasksWoken ==
    ASSUME ready \in Seq(Task), NEW ts \in Seq(Task), ready' = ready \o ts
    PROVE  /\ ready' \in Seq(Task)
           /\ \A t : InReady(t)' <=> InReady(t) \/ \E i \in 1..Len(ts) : ts[i] = t
<1>1. /\ Len(ready) \in Nat /\ Len(ts) \in Nat /\ Len(ready') = Len(ready) + Len(ts)
      /\ ready' \in Seq(Task)
      /\ \A i \in 1..Len(ready) : ready'[i] = ready[i]
      /\ \A i \in 1..Len(ts) : ready'[Len(ready) + i] = ts[i]
  OBVIOUS
<1>2. ASSUME NEW t, InReady(t)' PROVE InReady(t) \/ \E i \in 1..Len(ts) : ts[i] = t
  <2>1. PICK i \in 1..Len(ready') : ready'[i] = t
    BY <1>2 DEF InReady
  <2>2. CASE i \in 1..Len(ready)
    BY <1>1, <2>1, <2>2 DEF InReady
  <2>3. CASE i \notin 1..Len(ready)
    <3>1. i - Len(ready) \in 1..Len(ts) /\ Len(ready) + (i - Len(ready)) = i
      BY <1>1, <2>1, <2>3
    <3>2. ts[i - Len(ready)] = t
      BY <1>1, <2>1, <3>1
    <3> QED BY <3>1, <3>2
  <2> QED BY <2>2, <2>3
<1>3. ASSUME NEW t, InReady(t) PROVE InReady(t)'
  <2>1. PICK i \in 1..Len(ready) : ready[i] = t
    BY <1>3 DEF InReady
  <2>2. i \in 1..Len(ready') /\ ready'[i] = t
    BY <1>1, <2>1
  <2> QED BY <2>2 DEF InReady
<1>4. ASSUME NEW t, NEW i \in 1..Len(ts), ts[i] = t PROVE InReady(t)'
  <2>1. Len(ready) + i \in 1..Len(ready') /\ ready'[Len(ready) + i] = t
    BY <1>1, <1>4
  <2> QED BY <2>1 DEF InReady
<1> QED BY <1>1, <1>2, <1>3, <1>4

(* A task that is woken alone, and when nothing else is ready.             *)
LEMMA OneWoken ==
    ASSUME ready \in Seq(Task), NEW s \in Task, Wake(<<s>>)
    PROVE  /\ ready' \in Seq(Task) /\ ready' # <<>>
           /\ \A t : InReady(t)' <=> InReady(t) \/ t = s
           /\ ready = <<>> => ready' = <<s>> /\ Head(ready') = s
           /\ ready # <<>> => Head(ready') = Head(ready)
<1>1. <<s>> \in Seq(Task) /\ ready' = ready \o <<s>> /\ Len(<<s>>) = 1 /\ <<s>>[1] = s
  BY DEF Wake
<1>2. /\ ready' \in Seq(Task)
      /\ \A t : InReady(t)' <=> InReady(t) \/ \E i \in 1..Len(<<s>>) : <<s>>[i] = t
  BY <1>1, TasksWoken
<1>3. \A t : (\E i \in 1..Len(<<s>>) : <<s>>[i] = t) <=> t = s
  BY <1>1
<1>4. ready' # <<>> /\ (ready # <<>> => Head(ready') = Head(ready))
  <2>1. /\ Len(ready') = Len(ready) + 1 /\ Len(ready) \in Nat /\ ready' \in Seq(Task)
        /\ \A i \in 1..Len(ready) : ready'[i] = ready[i]
    BY <1>1
  <2>2. ready' # <<>> /\ Head(ready') = ready'[1]
    BY <2>1
  <2>3. ready # <<>> => 1 \in 1..Len(ready) /\ Head(ready) = ready[1]
    BY <2>1
  <2> QED BY <2>1, <2>2, <2>3
<1>5. ready = <<>> => ready' = <<s>> /\ Head(ready') = s
  <2> SUFFICES ASSUME ready = <<>> PROVE ready' = <<s>> /\ Head(ready') = s
    OBVIOUS
  <2>1. <<>> \o <<s>> = <<s>> /\ Head(<<s>>) = s
    OBVIOUS
  <2> QED BY <1>1, <2>1
<1> QED BY <1>2, <1>3, <1>4, <1>5

LEMMA ReadyStays == ready' = ready => \A t : InReady(t)' = InReady(t)
BY DEF InReady

LEMMA NoTaskReady == ASSUME ready = <<>>, NEW t PROVE ~InReady(t)
BY DEF InReady

(* Two tasks behind those of a queue.                                      *)
TwoBehind(q, a, b) == q \o <<a, b>>

LEMMA TwoBehindFacts ==
    ASSUME NEW q \in Seq(Task), NEW a \in Task, NEW b \in Task
    PROVE  /\ TwoBehind(q, a, b) \in Seq(Task) /\ Len(TwoBehind(q, a, b)) = Len(q) + 2
           /\ \A i \in 1..Len(q) : TwoBehind(q, a, b)[i] = q[i]
           /\ TwoBehind(q, a, b)[Len(q) + 1] = a /\ TwoBehind(q, a, b)[Len(q) + 2] = b
           /\ q = <<>> => Head(TwoBehind(q, a, b)) = a
BY DEF TwoBehind

LEMMA TailFacts ==
    ASSUME NEW q \in Seq(Task), q # <<>>
    PROVE  /\ Len(q) \in Nat /\ Len(q) > 0 /\ Tail(q) \in Seq(Task) /\ Len(Tail(q)) = Len(q) - 1
           /\ \A i \in 1..(Len(q) - 1) : Tail(q)[i] = q[i + 1]
OBVIOUS

(* The first task is done, and leaves the tasks on the streams of a channel*)
(* behind.                                                                 *)
LEMMA SpawnedFacts ==
    ASSUME ready \in Seq(Task), ready # <<>>, NEW ch \in Channels,
           ready' = Tail(ready) \o Spawned(ch)
    PROVE  /\ ready' \in Seq(Task) /\ ready' # <<>>
           /\ \A t : InReady(t)' => InReady(t) \/ t = T("state", ch) \/ t = T("message", ch)
           /\ \A t : InReady(t) /\ t # Head(ready) => InReady(t)'
           /\ InReady(T("state", ch))' /\ InReady(T("message", ch))'
           /\ Tail(ready) = <<>> =>
                  /\ Head(ready') = T("state", ch)
                  /\ \A t : InReady(t)' => t = T("state", ch) \/ t = T("message", ch)
<1> DEFINE a == T("state", ch)
           b == T("message", ch)
           u == Tail(ready)
<1>1. a \in Task /\ b \in Task /\ ready' = TwoBehind(u, a, b)
  BY TaskTypes DEF Spawned, TwoBehind
<1>2. /\ Len(ready) \in Nat /\ Len(ready) > 0 /\ Len(u) = Len(ready) - 1 /\ u \in Seq(Task)
      /\ \A i \in 1..(Len(ready) - 1) : u[i] = ready[i + 1]
  BY TailFacts
<1> HIDE DEF a, b, u
<1>9. /\ ready' \in Seq(Task) /\ Len(ready') = Len(u) + 2
      /\ \A i \in 1..Len(u) : ready'[i] = u[i]
      /\ ready'[Len(u) + 1] = a /\ ready'[Len(u) + 2] = b
      /\ u = <<>> => Head(ready') = a
  <2>1. /\ TwoBehind(u, a, b) \in Seq(Task) /\ Len(TwoBehind(u, a, b)) = Len(u) + 2
        /\ \A i \in 1..Len(u) : TwoBehind(u, a, b)[i] = u[i]
        /\ TwoBehind(u, a, b)[Len(u) + 1] = a /\ TwoBehind(u, a, b)[Len(u) + 2] = b
        /\ u = <<>> => Head(TwoBehind(u, a, b)) = a
    <3>1. u \in Seq(Task) /\ a \in Task /\ b \in Task
      BY <1>1, <1>2
    <3> QED BY ONLY <3>1, TwoBehindFacts
  <2> QED BY <1>1, <2>1
<1>10. Head(ready) = ready[1]
  OBVIOUS
<1>3. /\ Len(ready) \in Nat /\ Len(ready) > 0 /\ Len(ready') = Len(ready) + 1
      /\ Head(ready) = ready[1] /\ ready' \in Seq(Task)
      /\ \A i \in 1..(Len(ready) - 1) : ready'[i] = ready[i + 1]
      /\ ready'[Len(ready)] = a /\ ready'[Len(ready) + 1] = b
  BY <1>2, <1>9, <1>10
<1>4. ASSUME NEW t, InReady(t)' PROVE InReady(t) \/ t = a \/ t = b
  <2>1. PICK i \in 1..Len(ready') : ready'[i] = t
    BY <1>4 DEF InReady
  <2>2. CASE i \in 1..(Len(ready) - 1)
    <3>1. i + 1 \in 1..Len(ready) /\ ready[i + 1] = t
      BY <1>3, <2>1, <2>2
    <3> QED BY <3>1 DEF InReady
  <2>3. CASE i \notin 1..(Len(ready) - 1)
    <3>1. i = Len(ready) \/ i = Len(ready) + 1
      BY <1>3, <2>3
    <3> QED BY <1>3, <2>1, <3>1
  <2> QED BY <2>2, <2>3
<1>5. ASSUME NEW t, InReady(t), t # Head(ready) PROVE InReady(t)'
  <2>1. PICK i \in 1..Len(ready) : ready[i] = t
    BY <1>5 DEF InReady
  <2>2. i # 1
    BY <1>3, <1>5, <2>1
  <2>3. i - 1 \in 1..Len(ready') /\ i - 1 \in 1..(Len(ready) - 1) /\ (i - 1) + 1 = i
    BY <1>3, <2>1, <2>2
  <2>4. ready'[i - 1] = t
    BY <1>3, <2>1, <2>3
  <2> QED BY <2>3, <2>4 DEF InReady
<1>6. InReady(a)' /\ InReady(b)'
  <2>1. Len(ready) \in 1..Len(ready') /\ Len(ready) + 1 \in 1..Len(ready')
    BY <1>3
  <2>2. \E i \in 1..Len(ready') : ready'[i] = a
    BY <1>3, <2>1
  <2>3. \E i \in 1..Len(ready') : ready'[i] = b
    BY <1>3, <2>1
  <2> QED BY <2>2, <2>3 DEF InReady
<1>7. ready' # <<>>
  BY <1>3
<1>8. Tail(ready) = <<>> => Head(ready') = a
  BY <1>9 DEF u
<1>11. ASSUME Tail(ready) = <<>>, NEW t, InReady(t)' PROVE t = a \/ t = b
  <2>4. u = <<>>
    BY <1>11 DEF u
  <2>1. Len(u) = 0
    BY ONLY <2>4
  <2>2. Len(ready') = 2 /\ ready'[1] = a /\ ready'[2] = b
    BY <1>9, <2>1
  <2>3. PICK i \in 1..Len(ready') : ready'[i] = t
    BY <1>11 DEF InReady
  <2> QED BY <2>2, <2>3
<1> QED BY <1>3, <1>4, <1>5, <1>6, <1>7, <1>8, <1>11 DEF a, b

-----------------------------------------------------------------------------
(* What the invariant says where a step begins.                            *)
LEMMA ChannelFacts ==
    ASSUME PageTypes, NEW ch \in Channels, chan[ch] # NoChannel
    PROVE  /\ chan[ch] \in Channel /\ chan[ch].state \in States /\ chan[ch].label \in Labels
           /\ chan[ch].of \in Peers /\ chan[ch].states \in Seq(States)
           /\ chan[ch].messages \in Seq([num : 1..MaxMessages, kind : Kinds])
           /\ chan[ch].announced \in BOOLEAN /\ chan[ch].live \in BOOLEAN
<1>1. chan[ch] \in Channel
  BY DEF PageTypes
<1> QED BY <1>1 DEF Channel

LEMMA NoChannelFacts == NoChannel \notin Channel /\ NoChannel.state = "none"
BY DEF NoChannel, Channel, States

(* The streams are empty when the page is at rest, and a channel that came *)
(* in has been taken.                                                      *)
LEMMA RestFacts ==
    ASSUME PageInv, AtRest
    PROVE  /\ ready = <<>> /\ NothingDue /\ \A t : ~InReady(t)
           /\ \A ch \in Channels : chan[ch] # NoChannel =>
                  chan[ch].states = <<>> /\ chan[ch].messages = <<>>
           /\ \A p \in Peers : latest[p] # 0 => dc[p] = latest[p]
<1>1. ready = <<>> /\ notifying = Silent /\ \A t : ~InReady(t)
  BY NoTaskReady DEF AtRest
<1>2. notifying.event \notin Event
  BY <1>1 DEF Silent, NoEvent, Event
<1>3. NothingDue
  BY <1>1, <1>2 DEF PageInv, HearingPart, BeingNotified, OneDue
<1> QED BY <1>1, <1>3 DEF PageInv, ReadyPart, PeersPart

LEMMA SilentFacts == notifying = Silent => notifying.event \notin Event /\ notifying.left = {}
BY DEF Silent, NoEvent, Event

NoIncoming == \A t \in Task : InReady(t) => t.kind # "incoming"

(* Only the task of a stream is polled when something is due.              *)
LEMMA PolledFacts ==
    ASSUME PageInv, NEW t \in Task, Polled(t)
    PROVE  /\ ready # <<>> /\ Head(ready) = t /\ InReady(t) /\ notifying = Silent
           /\ t.kind \notin {"state", "message"} => NothingDue
           /\ t.kind # "incoming" => NoIncoming
           /\ NothingDue \/ OneDue
<1>1. ready # <<>> /\ Head(ready) = t /\ notifying = Silent
  BY DEF Polled
<1>2. InReady(t)
  BY <1>1, HeadIsReady DEF PageInv, PageTypes
<1>3. NothingDue \/ OneDue
  BY <1>1, SilentFacts DEF PageInv, HearingPart, BeingNotified
<1>4. OneDue => t.kind \in {"state", "message"}
  BY <1>1, TaskTypes DEF OneDue, StateDue, MessageDue
<1>5. t.kind # "incoming" => NoIncoming
  <2> SUFFICES ASSUME t.kind # "incoming", NEW s \in Task, InReady(s), s.kind = "incoming"
               PROVE  FALSE
    BY DEF NoIncoming
  <2>1. ready = <<s>>
    BY DEF PageInv, ReadyPart
  <2>2. Head(ready) = s
    BY <2>1
  <2> QED BY <1>1, <2>2
<1> QED BY <1>1, <1>2, <1>3, <1>4, <1>5

LEMMA NotifyingFacts ==
    ASSUME PageInv, notifying # Silent
    PROVE  BeingNotified /\ NoIncoming
BY DEF PageInv, HearingPart, NothingDue, OneDue, ReadyPart, NoIncoming

-----------------------------------------------------------------------------
(* What keeps the parts of the invariant.                                  *)
LEMMA ReadyKept ==
    ASSUME ReadyPart, NoIncoming, chan' = chan,
           \A t : InReady(t) => InReady(t)' \/ t.kind \notin {"state", "message"},
           \A t : InReady(t)' => InReady(t) \/ t.kind \in {"call", "reader"}
    PROVE  ReadyPart' /\ NoIncoming'
<1>1. NoIncoming'
  BY DEF NoIncoming
<1>2. \A t \in Task : InReady(t)' /\ t.kind \in {"state", "message", "incoming"} =>
          t.of \in Channels /\ chan'[t.of] # NoChannel
  BY DEF ReadyPart
<1>3. \A ch \in Channels : T("state", ch).kind = "state" /\ T("message", ch).kind = "message"
  BY TaskTypes
<1>4. \A ch \in Channels : chan'[ch] # NoChannel =>
          /\ chan'[ch].states # <<>> => InReady(T("state", ch))'
          /\ chan'[ch].messages # <<>> => InReady(T("message", ch))'
  BY <1>3 DEF ReadyPart
<1> QED BY <1>1, <1>2, <1>4 DEF ReadyPart, NoIncoming

(* A channel keeps its peer and its label ...                              *)
SameEnds ==
    \A ch \in Channels :
        /\ chan'[ch] = NoChannel <=> chan[ch] = NoChannel
        /\ chan[ch] # NoChannel => chan'[ch].of = chan[ch].of /\ chan'[ch].label = chan[ch].label

(* ... and, when only its streams change, its state.                       *)
SameChannels ==
    \A ch \in Channels :
        /\ chan'[ch] = NoChannel <=> chan[ch] = NoChannel
        /\ chan[ch] # NoChannel =>
            /\ chan'[ch].of = chan[ch].of /\ chan'[ch].label = chan[ch].label
            /\ chan'[ch].state = chan[ch].state /\ chan'[ch].announced = chan[ch].announced

LEMMA SameHasEnds == SameChannels => SameEnds
BY DEF SameChannels, SameEnds

LEMMA PeersKept ==
    ASSUME PeersPart, SameEnds, dc' = dc, latest' = latest, peers \subseteq peers',
           latest \in [Peers -> {0} \cup Channels],
           \A ch \in Channels : InReady(T("incoming", ch)) => InReady(T("incoming", ch))'
    PROVE  PeersPart'
<1>1. \A ch \in Channels : Ours(ch)' <=> Ours(ch)
  BY DEF SameEnds, Ours
<1>2. \A ch \in Channels : chan'[ch] # NoChannel => chan'[ch].of \in peers'
  BY DEF PeersPart, SameEnds
<1>3. ASSUME NEW p \in Peers, latest'[p] # 0
      PROVE  /\ Ours(latest[p])' /\ chan'[latest'[p]].of = p
             /\ dc'[p] = latest'[p] \/ InReady(T("incoming", latest[p]))'
  <2>1. /\ latest[p] \in Channels /\ Ours(latest[p]) /\ chan[latest[p]].of = p
        /\ dc[p] = latest[p] \/ InReady(T("incoming", latest[p]))
    BY <1>3 DEF PeersPart
  <2> QED BY <1>1, <2>1 DEF SameEnds, Ours
<1> QED BY <1>2, <1>3 DEF PeersPart

(* No channel is coming in, and nobody is told of one there is not.        *)
LEMMA IncomingKept ==
    ASSUME IncomingPart, NoIncoming',
           \A ch \in Channels : chan'[ch] = NoChannel => chan[ch] = NoChannel,
           \A id \in Ids, ch \in Channels :
               chan[ch] = NoChannel /\ ch \in early'[id] => ch \in early[id]
    PROVE  IncomingPart'
<1>1. \A ch \in Channels : ~InReady(T("incoming", ch))'
  BY TaskTypes DEF NoIncoming
<1> QED BY <1>1 DEF IncomingPart

LEMMA CallsKept ==
    ASSUME CallsPart, SameEnds, call' = call, peers \subseteq peers', Calls \subseteq Channels
    PROVE  CallsPart'
BY DEF CallsPart, SameEnds

LEMMA ToldKept ==
    ASSUME ToldPart, PeersPart, latest \in [Peers -> {0} \cup Channels],
           SameChannels, UNCHANGED <<told, callbacks, latest>>,
           \A id \in Ids, ch \in Channels :
               /\ OwesState(id, ch)' <=> OwesState(id, ch)
               /\ OwesState(id, ch) => Head(owed'[id]) = Head(owed[id])
    PROVE  ToldPart'
<1>1. \A ch \in Channels : /\ Ours(ch)' <=> Ours(ch)
                           /\ Ours(ch) => chan'[ch].of = chan[ch].of /\ chan'[ch].state = chan[ch].state
  BY DEF SameChannels, Ours
<1>2. \A p \in Peers : latest[p] # 0 => latest[p] \in Channels /\ Ours(latest[p])
  BY DEF PeersPart
<1>3. \A ch \in Channels : Ours(ch) => StateEvent(ch)' = StateEvent(ch)
  BY <1>1 DEF StateEvent
<1>4. ASSUME NEW id \in Ids, NEW p \in Peers, latest'[p] # 0, ~OwesState(id, latest[p])'
      PROVE  Knows(id, p)'
  <2>1. latest[p] \in Channels /\ Ours(latest[p]) /\ latest'[p] = latest[p]
    BY <1>2, <1>4
  <2>2. Knows(id, p)
    BY <1>4, <2>1 DEF ToldPart, OwesState
  <2> QED BY <1>1, <2>1, <2>2 DEF Knows
<1>5. \A id \in Ids \ callbacks', p \in Peers : told'[id][p] = "none"
  BY DEF ToldPart
<1>6. \A id \in Ids, p \in Peers : told'[id][p] # "none" => latest'[p] # 0
  BY DEF ToldPart
<1>7. ASSUME NEW id \in Ids, NEW ch \in Channels, OwesState(id, ch)'
      PROVE  /\ Ours(ch)'
             /\ Head(owed'[id]) = StateEvent(ch)' /\ chan'[ch].state \in {"open", "closed"}
  <2>1. /\ OwesState(id, ch) /\ Ours(ch)
        /\ Head(owed[id]) = StateEvent(ch) /\ chan[ch].state \in {"open", "closed"}
    BY <1>7 DEF ToldPart
  <2> QED BY <1>1, <1>3, <2>1
<1> QED BY <1>4, <1>5, <1>6, <1>7 DEF ToldPart

(* An event that is due to the callbacks is notified to them.              *)
LEMMA NotifyKeeps ==
    ASSUME misheard' = FALSE, NEW event \in Event, Notify(event), DueTo(callbacks, event)',
           callbacks' = callbacks, \A ch \in Channels : Quiet(ch)'
    PROVE  HearingPart'
<1>1. CASE callbacks = {}
  <2>1. notifying' = Silent /\ OwedTo({}, NoEvent)'
    BY <1>1 DEF Notify, DueTo, OwedTo
  <2> QED BY <2>1 DEF HearingPart, NothingDue
<1>2. CASE callbacks # {}
  <2>1. notifying' = [event |-> event, left |-> callbacks]
    BY <1>2 DEF Notify
  <2>2. notifying'.event = event /\ notifying'.left = callbacks
    BY <2>1
  <2>3. DueTo(notifying.left, notifying.event)'
    BY <2>2
  <2> QED BY <1>2, <2>2, <2>3 DEF HearingPart, BeingNotified
<1> QED BY <1>1, <1>2

(* What is due stays due while only the streams change.                    *)
LEMMA DueKept ==
    ASSUME NEW event \in Event, NEW ids, DueTo(ids, event), SameChannels, UNCHANGED <<owed,
                                                                                      early>>
    PROVE  DueTo(ids, event)'
<1>1. event.type = "DataChannelOpen" => event.channel \in Channels
  BY DEF Event
<1>2. CASE Early(event)
  <2>1. Ours(event.channel) /\ event.channel \in Channels
    BY <1>1, <1>2 DEF DueTo, Early
  <2>2. /\ Early(event)' /\ Ours(event.channel)'
        /\ chan'[event.channel].state = chan[event.channel].state
    BY <1>2, <2>1 DEF Early, Ours, SameChannels
  <2> QED BY <1>2, <2>2 DEF DueTo, OwedTo
<1>3. CASE ~Early(event)
  <2>1. ~Early(event)'
    <3>1. CASE event.type # "DataChannelOpen"
      BY <3>1 DEF Early
    <3>2. CASE event.type = "DataChannelOpen" /\ chan[event.channel] = NoChannel
      <4>1. chan'[event.channel] = chan[event.channel]
        BY <1>1, <3>2 DEF SameChannels
      <4> QED BY <1>3, <4>1 DEF Early
    <3>3. CASE event.type = "DataChannelOpen" /\ chan[event.channel] # NoChannel
      BY <1>1, <1>3, <3>3 DEF Early, SameChannels
    <3> QED BY <3>1, <3>2, <3>3
  <2> QED BY <1>3, <2>1 DEF DueTo, OwedTo
<1> QED BY <1>2, <1>3

-----------------------------------------------------------------------------
(* Steps that only add or remove tasks.                                    *)
LEMMA CallFacts ==
    ASSUME PageTypes, NEW n \in Calls, call[n].op \in {"connect", "send"} \/ n \in Pending
    PROVE  /\ call[n] \in [op : {"connect", "send"}, to : Peers, step : {"start", "channel", "wait"}]
           /\ call[n].to \in Peers /\ n \in Channels /\ call[n] \notin {Unused, Done}
<1>1. call[n] \in CallType
  BY DEF PageTypes
<1>2. n \in Channels
  BY BoundsAssumption DEF Calls, Channels
<1>3. call[n] \notin {Unused, Done}
  BY DEF Unused, Done, Pending
<1> QED BY <1>1, <1>2, <1>3 DEF CallType

LEMMA NothingDueKept ==
    ASSUME misheard = FALSE, NothingDue, UNCHANGED <<chan, notifying, owed, misheard>>
    PROVE  HearingPart'
BY DEF NothingDue, HearingPart, OwedTo, Quiet

LEMMA OnlyTasksKeep ==
    ASSUME PageInv, NothingDue, PageTypes', NoIncoming, CallsPart',
           UNCHANGED <<chan, notifying, callbacks, peers, dc, owed, told, misheard, latest>>,
           \A id \in Ids : early'[id] \subseteq early[id],
           \A t : InReady(t) => InReady(t)' \/ t.kind \notin {"state", "message"},
           \A t : InReady(t)' => InReady(t) \/ t.kind \in {"call", "reader"}
    PROVE  PageInv'
<1>1. ReadyPart'
  BY ReadyKept DEF PageInv
<1>2. SameChannels /\ \A ch \in Channels : ~InReady(T("incoming", ch))
  BY TaskTypes DEF SameChannels, NoIncoming
<1>3. HearingPart'
  BY NothingDueKept DEF PageInv, HearingPart
<1>4. PeersPart'
  BY <1>2, PeersKept, SameHasEnds DEF PageInv, PageTypes
<1>5. ToldPart'
  BY <1>2, ToldKept DEF PageInv, PageTypes, OwesState
<1>6. IncomingPart'
  <2>1. NoIncoming'
    BY ReadyKept DEF PageInv
  <2> QED BY <2>1, IncomingKept DEF PageInv
<1> QED BY <1>1, <1>3, <1>4, <1>5, <1>6 DEF PageInv

LEMMA RestHasNoIncoming == PageInv /\ AtRest => NoIncoming
BY RestFacts DEF NoIncoming

LEMMA ServerMessageKeeps == ASSUME PageInv, NEW p \in Peers, ServerMessage(p) PROVE PageInv'
<1>1. /\ AtRest /\ Wake(<<T("reader", p)>>) /\ arrived' = [arrived EXCEPT !.offers = @ + 1]
      /\ UNCHANGED <<call, nextId, chan, notifying, callbacks, peers, dc, owed, told, misheard,
                     early, latest>>
  BY DEF ServerMessage, registry, manager, history, heard
<1>2. T("reader", p) \in Task /\ T("reader", p).kind = "reader" /\ ready \in Seq(Task)
  BY TaskTypes DEF PageInv, PageTypes
<1>3. ready' \in Seq(Task) /\ \A t : InReady(t)' <=> InReady(t) \/ t = T("reader", p)
  BY <1>1, <1>2, OneWoken
<1>4. PageTypes'
  <2>1. arrived' \in [offers : Nat, messages : 0..MaxMessages]
    <3>1. arrived \in [offers : Nat, messages : 0..MaxMessages]
      BY DEF PageInv, PageTypes
    <3>2. arrived.offers + 1 \in Nat
      BY <3>1
    <3> QED BY <1>1, <3>1, <3>2
  <2> QED BY <1>1, <1>3, <2>1 DEF PageInv, PageTypes
<1>5. CallsPart'
  BY <1>1 DEF PageInv, CallsPart
<1> QED BY <1>1, <1>2, <1>3, <1>4, <1>5, RestFacts, RestHasNoIncoming, OnlyTasksKeep

LEMMA CallReturnsKeeps == ASSUME PageInv, NEW n \in Calls, CallReturns(n) PROVE PageInv'
<1>1. /\ AtRest /\ call' = [call EXCEPT ![n] = Done]
      /\ UNCHANGED <<nextId, ready, arrived, chan, notifying, callbacks, peers, dc, owed, told,
                     misheard, early, latest>>
  BY DEF CallReturns, registry, manager, history, heard
<1>2. PageTypes'
  BY <1>1 DEF PageInv, PageTypes, CallType
<1>3. CallsPart'
  BY <1>1 DEF PageInv, CallsPart, PageTypes
<1>4. \A t : InReady(t)' = InReady(t)
  BY <1>1, ReadyStays
<1> QED BY <1>1, <1>2, <1>3, <1>4, RestFacts, RestHasNoIncoming, OnlyTasksKeep

LEMMA SendMessageKeeps == ASSUME PageInv, NEW n \in Calls, SendMessageToPeer(n) PROVE PageInv'
<1>1. /\ Polled(T("call", n)) /\ call' = [call EXCEPT ![n] = Done] /\ ready' = Tail(ready)
      /\ UNCHANGED <<nextId, arrived, chan, notifying, callbacks, peers, dc, owed, told,
                     misheard, early, latest>>
  BY DEF SendMessageToPeer, registry, manager, history, heard
<1>2. /\ ready # <<>> /\ Head(ready) = T("call", n) /\ NothingDue /\ NoIncoming
      /\ T("call", n).kind = "call"
  BY <1>1, TaskTypes, PolledFacts
<1>3. /\ ready' \in Seq(Task) /\ \A t : InReady(t)' => InReady(t)
      /\ \A t : InReady(t) /\ t # T("call", n) => InReady(t)'
  BY <1>1, <1>2, FirstTaskDone DEF PageInv, PageTypes
<1>4. PageTypes'
  BY <1>1, <1>3 DEF PageInv, PageTypes, CallType
<1>5. CallsPart'
  BY <1>1 DEF PageInv, CallsPart, PageTypes
<1> QED BY <1>1, <1>2, <1>3, <1>4, <1>5, OnlyTasksKeep

-----------------------------------------------------------------------------
(* The page's script. A callback that is registered now has heard nothing  *)
(* and is owed nothing.                                                    *)
LEMMA StartCallFacts ==
    ASSUME PageInv, NEW op \in {"connect", "send"}, NEW p \in Peers, StartCall(op, p),
           peers' = peers, chan' = chan
    PROVE  /\ call' \in [Calls -> CallType] /\ CallsPart'
           /\ UNCHANGED <<callbacks, nextId>>
           /\ ready' \in Seq(Task)
           /\ \A t : InReady(t) => InReady(t)'
           /\ \A t : InReady(t)' => InReady(t) \/ t.kind \in {"call"}
<1>1. PICK n \in Calls : /\ call[n] = Unused /\ Wake(<<T("call", n)>>)
                         /\ call' = [call EXCEPT ![n] = [op |-> op, to |-> p, step |-> "start"]]
  BY DEF StartCall
<1>2. T("call", n) \in Task /\ T("call", n).kind = "call"
  BY TaskTypes
<1>3. ready' \in Seq(Task) /\ \A t : InReady(t)' <=> InReady(t) \/ t = T("call", n)
  BY <1>1, <1>2, OneWoken DEF PageInv, PageTypes
<1>4. call \in [Calls -> CallType] /\ [op |-> op, to |-> p, step |-> "start"] \in CallType
  BY DEF PageInv, PageTypes, CallType
<1>5. call' \in [Calls -> CallType]
  BY <1>1, <1>4
<1>6. CallsPart'
  <2>1. chan[n] = NoChannel
    BY <1>1 DEF PageInv, CallsPart, Unused, Done
  <2>2. call'[n].step = "start" /\ \A k \in Calls \ {n} : call'[k] = call[k]
    BY <1>1, <1>4
  <2> QED BY <2>1, <2>2 DEF PageInv, CallsPart
<1>7. UNCHANGED <<callbacks, nextId>>
  BY DEF StartCall, registry
<1> QED BY <1>2, <1>3, <1>5, <1>6, <1>7

LEMMA ScriptKeeps == ASSUME PageInv, Script PROVE PageInv'
<1>1. /\ AtRest /\ PageCall
      /\ told' = [id \in Ids |-> IF id \in callbacks' THEN told[id] ELSE [p \in Peers |-> "none"]]
      /\ early' = [id \in Ids |-> IF id \in callbacks' THEN early[id] ELSE {}]
      /\ UNCHANGED <<notifying, peers, dc, chan, arrived, owed, misheard, latest>>
  BY DEF Script, manager
<1>4. early' \in [Ids -> SUBSET Channels] /\ \A id \in Ids : early'[id] \subseteq early[id]
  BY <1>1 DEF PageInv, PageTypes
<1>2. ASSUME NEW op \in {"connect", "send"}, NEW p \in Peers, StartCall(op, p) PROVE PageInv'
  <2>1. callbacks' = callbacks /\ nextId' = nextId
    BY <1>2 DEF StartCall, registry
  <2>2. told' = told
    <3>1. told \in [Ids -> [Peers -> {"none", "DataChannelOpen", "DataChannelClose"}]]
      BY DEF PageInv, PageTypes
    <3>2. ASSUME NEW id \in Ids PROVE told'[id] = told[id]
      <4>1. CASE id \in callbacks
        BY <1>1, <2>1, <4>1
      <4>2. CASE id \notin callbacks
        <5>1. told[id] \in [Peers -> {"none", "DataChannelOpen", "DataChannelClose"}]
          BY <3>1
        <5>2. \A p_1 \in Peers : told[id][p_1] = "none"
          BY <4>2 DEF PageInv, ToldPart
        <5> QED BY <1>1, <2>1, <4>2, <5>1, <5>2
      <4> QED BY <4>1, <4>2
    <3>3. told' \in [Ids -> [Peers -> {"none", "DataChannelOpen", "DataChannelClose"}]]
      BY <1>1, <3>1
    <3> QED BY <3>1, <3>2, <3>3
  <2>3. /\ call' \in [Calls -> CallType] /\ ready' \in Seq(Task) /\ CallsPart'
        /\ \A t : InReady(t) => InReady(t)'
        /\ \A t : InReady(t)' => InReady(t) \/ t.kind \in {"call"}
    BY <1>1, <1>2, StartCallFacts DEF PageInv
  <2>4. PageTypes'
    BY <1>1, <1>4, <2>1, <2>2, <2>3 DEF PageInv, PageTypes
  <2> QED BY <1>1, <1>4, <2>1, <2>2, <2>3, <2>4, RestFacts, RestHasNoIncoming, OnlyTasksKeep
<1>3. CASE OnEvent \/ RemoveOnEvent
  <2>1. NothingDue /\ ~CallbacksBorrowed
    BY <1>1, RestFacts DEF NothingDue, CallbacksBorrowed
  <2>2. /\ call' = call /\ ready' = ready
        /\ \/ nextId < MaxCallbacks /\ nextId' = nextId + 1 /\ callbacks' = callbacks \cup {nextId}
           \/ \E id \in Ids : nextId' = nextId /\ callbacks' = callbacks \ {id}
    BY <1>3, <2>1 DEF OnEvent, RemoveOnEvent, Add, Remove
  <2>3. callbacks' \subseteq Ids /\ nextId' \in Nat /\ \A id \in callbacks' : id < nextId'
    <3>1. callbacks \subseteq Ids /\ nextId \in Nat /\ \A id \in callbacks : id < nextId
      BY DEF PageInv, PageTypes
    <3>2. MaxCallbacks \in Nat /\ Ids \subseteq Nat
      BY BoundsAssumption DEF Ids
    <3>3. nextId < MaxCallbacks => nextId \in Ids
      BY <3>1, <3>2 DEF Ids
    <3>4. \A id \in callbacks : id < nextId + 1
      BY <3>1, <3>2
    <3> QED BY <2>2, <3>1, <3>3, <3>4
  <2>4. told' \in [Ids -> [Peers -> {"none", "DataChannelOpen", "DataChannelClose"}]]
    BY <1>1 DEF PageInv, PageTypes
  <2>5. notifying' \in [event : Event \cup {NoEvent}, left : SUBSET callbacks']
    BY <1>1, <2>1 DEF NothingDue, Silent
  <2>6. PageTypes'
    BY <1>1, <1>4, <2>2, <2>3, <2>4, <2>5 DEF PageInv, PageTypes
  <2>7. \A id \in Ids, p \in Peers : told'[id][p] = told[id][p] \/ told'[id][p] = "none"
    BY <1>1
  <2>8. \A id \in Ids \ callbacks', p \in Peers : told'[id][p] = "none"
    BY <1>1
  <2>9. \A id \in Ids, ch \in Channels : ~OwesState(id, ch) /\ ~OwesState(id, ch)'
    BY <1>1, <2>1 DEF NothingDue, OwedTo, OwesState
  <2>10. ToldPart'
    <3>1. \A id \in Ids, p \in Peers : told'[id][p] # "none" => latest'[p] # 0
      BY <1>1, <2>7 DEF PageInv, ToldPart
    <3>2. ASSUME NEW id \in Ids, NEW p \in Peers, latest'[p] # 0 PROVE Knows(id, p)'
      <4>1. latest[p] \in Channels
        BY <1>1, <3>2 DEF PageInv, PageTypes
      <4>2. Knows(id, p)
        BY <1>1, <2>9, <3>2, <4>1 DEF PageInv, ToldPart
      <4> QED BY <1>1, <2>7, <4>2 DEF Knows
    <3>4. \A p \in Peers : latest'[p] # 0 => latest'[p] \in Channels
      BY <1>1 DEF PageInv, PageTypes
    <3> QED BY <2>8, <2>9, <3>1, <3>2 DEF ToldPart
  <2>11. \A t : InReady(t)' = InReady(t)
    BY <2>2, ReadyStays
  <2>12. ReadyPart' /\ NoIncoming'
    BY <1>1, <2>11, ReadyKept, RestHasNoIncoming DEF PageInv
  <2>13. HearingPart'
    BY <1>1, <2>1, NothingDueKept DEF PageInv, HearingPart
  <2>14. SameChannels
    BY <1>1 DEF SameChannels
  <2>15. PeersPart' /\ CallsPart'
    <3>1. Calls \subseteq Channels
      BY BoundsAssumption DEF Calls, Channels
    <3> QED BY <1>1, <2>2, <2>11, <2>14, <3>1, PeersKept, CallsKept, SameHasEnds
            DEF PageInv, PageTypes
  <2>16. IncomingPart'
    BY <1>1, <1>4, <2>12, IncomingKept DEF PageInv
  <2> QED BY <2>6, <2>10, <2>12, <2>13, <2>15, <2>16 DEF PageInv
<1> QED BY <1>1, <1>2, <1>3 DEF PageCall

-----------------------------------------------------------------------------
(* A callback hears what it is owed. The page it calls into can add tasks, *)
(* but changes neither the registry nor the channels.                      *)
LEMMA NestedCallFacts ==
    ASSUME PageInv, NEW id \in callbacks, InvokeCallback(id)
    PROVE  /\ notifying # Silent /\ UNCHANGED <<callbacks, peers, dc, chan, arrived, latest>>
           /\ call' \in [Calls -> CallType] /\ CallsPart'
           /\ nextId' \in Nat /\ nextId <= nextId'
           /\ ready' \in Seq(Task)
           /\ \A t : InReady(t) => InReady(t)'
           /\ \A t : InReady(t)' => InReady(t) \/ t.kind \in {"call", "reader"}
<1>1. id \in notifying.left /\ UNCHANGED <<peers, dc, chan, arrived, latest>>
      /\ (PageCall \/ UNCHANGED <<registry, call, ready>>)
  BY DEF InvokeCallback, manager
<1>2. notifying # Silent /\ CallbacksBorrowed
  BY <1>1, SilentFacts DEF CallbacksBorrowed
<1>3. CASE UNCHANGED <<registry, call, ready>>
  <2>1. \A t : InReady(t)' = InReady(t)
    BY <1>3, ReadyStays
  <2> QED BY <1>1, <1>2, <1>3, <2>1 DEF registry, PageInv, PageTypes, CallsPart
<1>4. CASE OnEvent \/ RemoveOnEvent
  <2>1. UNCHANGED <<call, ready, callbacks>> /\ (nextId' = nextId \/ nextId' = nextId + 1)
    BY <1>2, <1>4 DEF OnEvent, RemoveOnEvent, Add, Remove
  <2>2. \A t : InReady(t)' = InReady(t)
    BY <2>1, ReadyStays
  <2> QED BY <1>1, <1>2, <2>1, <2>2 DEF PageInv, PageTypes, CallsPart
<1>5. ASSUME NEW op \in {"connect", "send"}, NEW p \in Peers, StartCall(op, p)
      PROVE  /\ call' \in [Calls -> CallType] /\ CallsPart' /\ UNCHANGED <<callbacks, nextId>>
             /\ ready' \in Seq(Task)
             /\ \A t : InReady(t) => InReady(t)'
             /\ \A t : InReady(t)' => InReady(t) \/ t.kind \in {"call"}
  BY <1>1, <1>5, StartCallFacts
<1>6. nextId \in Nat
  BY DEF PageInv, PageTypes
<1>7. CASE PageCall
  BY <1>1, <1>2, <1>4, <1>5, <1>6, <1>7 DEF PageCall
<1> QED BY <1>1, <1>3, <1>7

(* What it hears is the head of what it is owed, and all it is owed, or an *)
(* early report, and it is owed nothing.                                   *)
LEMMA HearFacts ==
    ASSUME PageInv, NEW id \in callbacks, InvokeCallback(id)
    PROVE  /\ misheard' = FALSE /\ id \in notifying.left /\ notifying.event \in Event
           /\ DueTo(notifying.left, notifying.event) /\ id \in Ids
           /\ owed' = [owed EXCEPT ![id] = <<>>]
           /\ ~Early(notifying.event) => owed[id] = <<notifying.event>> /\ early' = early
           /\ Early(notifying.event) =>
                  /\ owed[id] = <<>>
                  /\ early' = [early EXCEPT ![id] = @ \cup {notifying.event.channel}]
<1> DEFINE event == notifying.event
<1>1. notifying # Silent /\ id \in notifying.left /\ Hear(id, event)
  BY NestedCallFacts DEF InvokeCallback
<1>2. BeingNotified
  BY <1>1, NotifyingFacts
<1>3. id \in Ids /\ misheard = FALSE /\ owed \in [Ids -> Seq(Event)]
  BY DEF PageInv, PageTypes, HearingPart
<1>4. CASE ~Early(event)
  <2>1. owed[id] = <<event>>
    BY <1>1, <1>2, <1>3, <1>4 DEF BeingNotified, DueTo, OwedTo
  <2>2. owed[id] # <<>> /\ Head(owed[id]) = event /\ Tail(owed[id]) = <<>>
    BY <2>1
  <2>3. HearDue(id, event)
    BY <1>1, <1>4 DEF Hear
  <2>4. misheard' = FALSE /\ owed' = [owed EXCEPT ![id] = <<>>] /\ early' = early
    BY <1>3, <2>2, <2>3 DEF HearDue
  <2> QED BY <1>1, <1>2, <1>3, <1>4, <2>1, <2>4 DEF BeingNotified
<1>5. CASE Early(event)
  <2>1. owed[id] = <<>> /\ event.channel \notin early[id]
    BY <1>1, <1>2, <1>3, <1>5 DEF BeingNotified, DueTo, OwedTo
  <2>2. HearEarly(id, event.channel)
    BY <1>1, <1>5 DEF Hear
  <2>3. /\ misheard' = FALSE /\ owed' = owed
        /\ early' = [early EXCEPT ![id] = @ \cup {event.channel}]
    BY <1>3, <2>1, <2>2 DEF HearEarly
  <2>4. owed' = [owed EXCEPT ![id] = <<>>]
    BY <1>3, <2>1, <2>3
  <2> QED BY <1>1, <1>2, <1>3, <1>5, <2>1, <2>3, <2>4 DEF BeingNotified
<1> QED BY <1>4, <1>5

LEMMA InvokeKeepsHearing ==
    ASSUME PageInv, NEW id \in callbacks, InvokeCallback(id)
    PROVE  /\ HearingPart'
           /\ notifying' \in [event : Event \cup {NoEvent}, left : SUBSET callbacks']
<1> DEFINE event == notifying.event
           left  == notifying.left \ {id}
<1>1. /\ misheard' = FALSE /\ id \in notifying.left /\ event \in Event
      /\ owed' = [owed EXCEPT ![id] = <<>>] /\ id \in Ids
      /\ DueTo(notifying.left, event)
      /\ ~Early(event) => early' = early
      /\ Early(event) => early' = [early EXCEPT ![id] = @ \cup {event.channel}]
      /\ UNCHANGED <<callbacks, chan>> /\ BeingNotified
  BY HearFacts, NestedCallFacts, NotifyingFacts
<1>2. /\ notifying \in [event : Event \cup {NoEvent}, left : SUBSET callbacks] /\ callbacks \subseteq Ids
      /\ early \in [Ids -> SUBSET Channels]
  BY DEF PageInv, PageTypes
<1>3. PICK failed \in BOOLEAN :
          notifying' = IF Left(id, failed) = {} THEN Silent
                       ELSE [notifying EXCEPT !.left = Left(id, failed)]
  BY DEF InvokeCallback
<1>4. notifying' = IF left = {} THEN Silent ELSE [notifying EXCEPT !.left = left]
  BY <1>3 DEF Left
<1>5. \A ch \in Channels : Quiet(ch)'
  BY <1>1 DEF BeingNotified, Quiet
<1>6. owed' = [i \in Ids |-> IF i \in (IF Early(event) THEN {} ELSE left) THEN <<event>> ELSE <<>>]
  BY <1>1 DEF DueTo, OwedTo
<1>9. Early(event) =>
          /\ Ours(event.channel) /\ chan[event.channel].state = "open"
          /\ \A i \in left : event.channel \notin early'[i]
  BY <1>1, <1>2 DEF DueTo
<1>7. CASE left = {}
  <2>1. notifying' = Silent /\ OwedTo({}, NoEvent)'
    BY <1>4, <1>6, <1>7 DEF OwedTo
  <2> QED BY <1>1, <1>5, <2>1 DEF HearingPart, NothingDue, Silent
<1>8. CASE left # {}
  <2>1. notifying'.event = event /\ notifying'.left = left
        /\ notifying' \in [event : Event \cup {NoEvent}, left : SUBSET callbacks']
    BY <1>1, <1>2, <1>4, <1>8
  <2> HIDE DEF event, left
  <2>2. DueTo(notifying.left, notifying.event)'
    <3>1. Early(notifying.event)' <=> Early(event)
      BY <1>1, <2>1 DEF Early
    <3>2. OwedTo(IF Early(notifying.event) THEN {} ELSE notifying.left, notifying.event)'
      BY <1>6, <2>1, <3>1 DEF OwedTo
    <3>3. Early(notifying.event)' =>
              /\ Ours(notifying.event.channel)' /\ chan'[notifying'.event.channel].state = "open"
              /\ \A i \in notifying'.left : notifying'.event.channel \notin early'[i]
      BY <1>1, <1>9, <2>1, <3>1 DEF Ours
    <3> QED BY <3>2, <3>3 DEF DueTo
  <2>3. BeingNotified'
    BY <1>1, <1>5, <1>8, <2>1, <2>2 DEF BeingNotified
  <2> QED BY <1>1, <2>1, <2>3 DEF HearingPart
<1> QED BY <1>7, <1>8

(* A word about the youngest channel of a peer is true when it is heard.   *)
LEMMA WordIsTrue ==
    ASSUME PageInv, NEW id \in callbacks, InvokeCallback(id), OfLatest(notifying.event)
    PROVE  LET event == notifying.event
               c == event.channel IN
           /\ c \in Channels /\ Ours(c) /\ chan[c].of \in Peers /\ latest[chan[c].of] = c
           /\ chan[c].state \in {"open", "closed"}
           /\ event.type = IF chan[c].state = "open" THEN "DataChannelOpen" ELSE "DataChannelClose"
<1> DEFINE event == notifying.event
           c == event.channel
<1>1. /\ event \in Event /\ event.type \in {"DataChannelOpen", "DataChannelClose"}
      /\ latest[chan[c].of] = c /\ DueTo(notifying.left, event) /\ id \in Ids
      /\ ~Early(event) => owed[id] = <<event>>
  BY HearFacts DEF OfLatest
<1>2. c \in Channels /\ event \in StateEvents(c)
  BY <1>1 DEF Event, StateEvents
<1>3. /\ Ours(c) /\ chan[c].state \in {"open", "closed"}
      /\ event.type = IF chan[c].state = "open" THEN "DataChannelOpen" ELSE "DataChannelClose"
  <2>1. CASE Early(event)
    BY <1>1, <2>1 DEF DueTo, Early
  <2>2. CASE ~Early(event)
    <3>1. OwesState(id, c) /\ Head(owed[id]) = event
      BY <1>1, <1>2, <2>2 DEF OwesState
    <3>2. Ours(c) /\ event = StateEvent(c) /\ chan[c].state \in {"open", "closed"}
      BY <1>1, <1>2, <3>1 DEF PageInv, ToldPart
    <3> QED BY <3>2 DEF StateEvent
  <2> QED BY <2>1, <2>2
<1>4. chan[c].of \in Peers
  BY <1>2, <1>3, ChannelFacts DEF PageInv, Ours
<1> QED BY <1>1, <1>2, <1>3, <1>4

LEMMA InvokeKeepsTold ==
    ASSUME PageInv, NEW id \in callbacks, InvokeCallback(id)
    PROVE  /\ ToldPart'
           /\ told' \in [Ids -> [Peers -> {"none", "DataChannelOpen", "DataChannelClose"}]]
<1> DEFINE event == notifying.event
<1>1. /\ owed' = [owed EXCEPT ![id] = <<>>] /\ event \in Event
      /\ UNCHANGED <<callbacks, peers, dc, chan, latest>> /\ id \in Ids
      /\ owed \in [Ids -> Seq(Event)]
      /\ ~Early(event) => owed[id] = <<event>>
      /\ Early(event) => owed[id] = <<>>
  BY HearFacts, NestedCallFacts DEF PageInv, PageTypes
<1>2. told' = IF OfLatest(event)
              THEN [told EXCEPT ![id][chan[event.channel].of] = event.type] ELSE told
  BY DEF InvokeCallback, Hear
<1>3. /\ told \in [Ids -> [Peers -> {"none", "DataChannelOpen", "DataChannelClose"}]]
      /\ latest \in [Peers -> {0} \cup Channels]
      /\ ToldPart /\ PageTypes /\ PeersPart
  BY DEF PageInv, PageTypes
<1>4. \A ch \in Channels : chan'[ch] = chan[ch] /\ (Ours(ch)' <=> Ours(ch))
                          /\ StateEvent(ch)' = StateEvent(ch)
  BY <1>1 DEF Ours, StateEvent
<1>5. \A i \in Ids, ch \in Channels : OwesState(i, ch)' <=> i # id /\ OwesState(i, ch)
  BY <1>1 DEF OwesState
<1>6. \A i \in Ids, ch \in Channels : OwesState(i, ch)' => Head(owed'[i]) = Head(owed[i])
  BY <1>1, <1>5
<1>7. /\ \A i \in Ids \ callbacks', q \in Peers : told[i][q] = "none"
      /\ \A i \in Ids, q \in Peers : told[i][q] # "none" => latest'[q] # 0
      /\ id \notin Ids \ callbacks'
  BY <1>1, <1>3 DEF ToldPart
<1>8. \A i \in Ids, ch \in Channels : OwesState(i, ch)' =>
          /\ Ours(ch)' /\ Head(owed'[i]) = StateEvent(ch)' /\ chan'[ch].state \in {"open", "closed"}
  BY <1>1, <1>3, <1>4, <1>5, <1>6 DEF ToldPart
<1>9. \A q \in Peers : latest[q] # 0 =>
          latest[q] \in Channels /\ Ours(latest[q]) /\ chan[latest[q]].of = q
  BY <1>3 DEF PeersPart
<1>10. CASE ~OfLatest(event)
  <2>1. told' = told
    BY <1>2, <1>10
  <2>2. ASSUME NEW q \in Peers, latest[q] # 0 PROVE ~OwesState(id, latest[q])
    <3>1. SUFFICES ASSUME OwesState(id, latest[q]) PROVE FALSE
      OBVIOUS
    <3>2. event \in StateEvents(latest[q])
      BY <1>1, <3>1 DEF OwesState
    <3>3. /\ event.channel = latest[q] /\ event.type \in {"DataChannelOpen", "DataChannelClose"}
      BY <3>2 DEF StateEvents
    <3> QED BY <1>9, <1>10, <2>2, <3>3 DEF OfLatest
  <2>3. ASSUME NEW i \in Ids, NEW q \in Peers, latest'[q] # 0, ~OwesState(i, latest[q])'
        PROVE  Knows(i, q)'
    <3>1. latest[q] # 0 /\ latest[q] \in Channels /\ latest'[q] = latest[q]
      BY <1>1, <1>9, <2>3
    <3>2. ~OwesState(i, latest[q])
      BY <1>5, <2>2, <2>3, <3>1 DEF OwesState
    <3>3. Knows(i, q)
      BY <1>3, <3>1, <3>2 DEF ToldPart
    <3> QED BY <1>1, <2>1, <3>3 DEF Knows
  <2> QED BY <1>3, <1>7, <1>8, <2>1, <2>3 DEF ToldPart
<1>11. CASE OfLatest(event)
  <2> DEFINE c == event.channel
             p == chan[c].of
  <2>1. /\ c \in Channels /\ Ours(c) /\ p \in Peers /\ latest[p] = c
        /\ chan[c].state \in {"open", "closed"}
        /\ event.type = IF chan[c].state = "open" THEN "DataChannelOpen" ELSE "DataChannelClose"
    BY <1>11, WordIsTrue
  <2>2. c # 0
    BY <2>1 DEF Channels
  <2>3. told' = [told EXCEPT ![id][p] = event.type]
    BY <1>2, <1>11
  <2>9. ~Early(event) => \A ch \in Channels : OwesState(id, ch) => ch = c
    BY <1>1 DEF OwesState, StateEvents
  <2>10. Early(event) => \A ch \in Channels : ~OwesState(id, ch)
    BY <1>1 DEF OwesState
  <2> HIDE DEF c, p, event
  <2>4. /\ told' \in [Ids -> [Peers -> {"none", "DataChannelOpen", "DataChannelClose"}]]
        /\ told'[id][p] = event.type
        /\ \A i \in Ids, q \in Peers : i # id \/ q # p => told'[i][q] = told[i][q]
    BY <1>1, <1>3, <2>1, <2>3
  <2>5. \A i \in Ids \ callbacks', q \in Peers : told'[i][q] = "none"
    BY <1>7, <2>4
  <2>6. ASSUME NEW i \in Ids, NEW q \in Peers, told'[i][q] # "none" PROVE latest'[q] # 0
    <3>1. CASE i = id /\ q = p
      BY <1>1, <2>1, <2>2, <3>1
    <3>2. CASE i # id \/ q # p
      BY <1>7, <2>4, <2>6, <3>2, Zenon
    <3> QED BY <3>1, <3>2
  <2>7. ASSUME NEW i \in Ids, NEW q \in Peers, latest'[q] # 0, ~OwesState(i, latest[q])'
        PROVE  Knows(i, q)'
    <3>1. latest[q] # 0 /\ latest[q] \in Channels /\ latest'[q] = latest[q]
          /\ chan'[latest[q]] = chan[latest[q]] /\ chan[latest[q]].of = q
      BY <1>1, <1>4, <1>9, <2>7
    <3>2. CASE i = id /\ q = p
      BY <2>1, <2>4, <3>1, <3>2 DEF Knows
    <3>3. CASE i # id \/ q # p
      <4>1. ~OwesState(i, latest[q])
        <5>1. i # id => ~OwesState(i, latest[q])
          BY <1>5, <2>7, <3>1 DEF OwesState
        <5>2. q # p => latest[q] # c
          BY <3>1 DEF p
        <5> QED BY <2>9, <2>10, <3>1, <3>3, <5>1, <5>2
      <4>2. Knows(i, q) /\ told'[i][q] = told[i][q]
        BY <1>3, <2>4, <3>1, <3>3, <4>1 DEF ToldPart
      <4> QED BY <3>1, <4>2 DEF Knows
    <3> QED BY <3>2, <3>3
  <2> QED BY <2>4, <2>5, <2>6, <2>7, <1>8 DEF ToldPart
<1> QED BY <1>10, <1>11

LEMMA InvokeKeeps == ASSUME PageInv, NEW id \in callbacks, InvokeCallback(id) PROVE PageInv'
<1>1. /\ notifying # Silent /\ UNCHANGED <<callbacks, peers, dc, chan, arrived, latest>>
      /\ call' \in [Calls -> CallType] /\ CallsPart'
      /\ nextId' \in Nat /\ nextId <= nextId'
      /\ ready' \in Seq(Task)
      /\ \A t : InReady(t) => InReady(t)'
      /\ \A t : InReady(t)' => InReady(t) \/ t.kind \in {"call", "reader"}
  BY NestedCallFacts
<1>2. NoIncoming
  BY <1>1, NotifyingFacts
<1>3. ReadyPart' /\ NoIncoming'
  BY <1>1, <1>2, ReadyKept DEF PageInv
<1>4. SameChannels
  BY <1>1 DEF SameChannels
<1>9. /\ early' \in [Ids -> SUBSET Channels]
      /\ \A i \in Ids, ch \in Channels : chan[ch] = NoChannel /\ ch \in early'[i] => ch \in early[i]
  <2> DEFINE event == notifying.event
  <2>1. /\ early \in [Ids -> SUBSET Channels] /\ event \in Event
        /\ ~Early(event) => early' = early
        /\ Early(event) => /\ early' = [early EXCEPT ![id] = @ \cup {event.channel}]
                           /\ Ours(event.channel)
    BY HearFacts DEF PageInv, PageTypes, DueTo
  <2>2. CASE ~Early(event)
    BY <2>1, <2>2
  <2>3. CASE Early(event)
    <3>1. event.channel \in Channels /\ chan[event.channel] # NoChannel
      BY <2>1, <2>3 DEF Event, Early, Ours
    <3> QED BY <2>1, <2>3, <3>1
  <2> QED BY <2>2, <2>3
<1>10. IncomingPart'
  BY <1>1, <1>3, <1>9, IncomingKept DEF PageInv
<1>5. PeersPart'
  BY <1>1, <1>4, PeersKept, SameHasEnds DEF PageInv, PageTypes
<1>6. owed' \in [Ids -> Seq(Event)]
  <2>1. owed \in [Ids -> Seq(Event)] /\ <<>> \in Seq(Event)
    BY DEF PageInv, PageTypes
  <2>2. owed' = [owed EXCEPT ![id] = <<>>]
    BY HearFacts
  <2> QED BY <2>1, <2>2
<1>7. \A i \in callbacks' : i < nextId'
  BY <1>1 DEF PageInv, PageTypes, Ids
<1>8. PageTypes'
  BY <1>1, <1>6, <1>7, <1>9, InvokeKeepsHearing, InvokeKeepsTold DEF PageInv, PageTypes
<1> QED BY <1>1, <1>3, <1>5, <1>8, <1>10, InvokeKeepsHearing, InvokeKeepsTold DEF PageInv

-----------------------------------------------------------------------------
(* The server brings a peer, or a call makes one.                          *)
LEMMA OweFacts ==
    ASSUME NothingDue, NEW event \in Event, Owe(event)
    PROVE  /\ owed' = [id \in Ids |-> IF id \in callbacks THEN <<event>> ELSE <<>>]
           /\ owed' \in [Ids -> Seq(Event)]
           /\ callbacks' = callbacks /\ ~Early(event)' => DueTo(callbacks, event)'
           /\ \A id \in Ids, ch \in Channels :
                  /\ ~OwesState(id, ch)
                  /\ OwesState(id, ch)' => id \in callbacks /\ event \in StateEvents(ch)
                  /\ owed'[id] # <<>> => Head(owed'[id]) = event
<1>1. /\ owed = [id \in Ids |-> <<>>]
      /\ owed' = [id \in Ids |-> IF id \in callbacks THEN Append(owed[id], event) ELSE <<>>]
  BY DEF NothingDue, OwedTo, Owe
<1>2. Append(<<>>, event) = <<event>> /\ <<event>> \in Seq(Event) /\ <<>> \in Seq(Event)
      /\ Head(<<event>>) = event
  OBVIOUS
<1>3. owed' = [id \in Ids |-> IF id \in callbacks THEN <<event>> ELSE <<>>]
  BY <1>1, <1>2
<1>4. owed' \in [Ids -> Seq(Event)]
  BY <1>2, <1>3
<1>5. callbacks' = callbacks /\ ~Early(event)' => DueTo(callbacks, event)'
  BY <1>3 DEF DueTo, OwedTo
<1>6. ASSUME NEW id \in Ids, NEW ch \in Channels
      PROVE  /\ ~OwesState(id, ch)
             /\ OwesState(id, ch)' => id \in callbacks /\ event \in StateEvents(ch)
             /\ owed'[id] # <<>> => Head(owed'[id]) = event
  <2>1. owed[id] = <<>>
    BY <1>1
  <2>2. owed'[id] = <<>> \/ (id \in callbacks /\ owed'[id] = <<event>>)
    BY <1>3
  <2> QED BY <1>2, <2>1, <2>2 DEF OwesState
<1> QED BY <1>3, <1>4, <1>5, <1>6

LEMMA NotifyTypes ==
    ASSUME NEW event \in Event, Notify(event)
    PROVE  notifying' \in [event : Event \cup {NoEvent}, left : SUBSET callbacks]
BY DEF Notify, Silent

LEMMA NewPeerKeeps ==
    ASSUME PageInv, NothingDue, NoIncoming, NEW p \in Peers, NotifyNewPeer(p),
           call' \in [Calls -> CallType], CallsPart',
           peers \subseteq peers', peers' \subseteq Peers,
           UNCHANGED <<chan, callbacks, nextId, arrived, dc, told, misheard, early, latest>>,
           ready' \in Seq(Task),
           \A t : InReady(t) => InReady(t)' \/ t.kind \notin {"state", "message"},
           \A t : InReady(t)' => InReady(t) \/ t.kind \in {"call", "reader"}
    PROVE  PageInv'
<1> DEFINE event == [type |-> "NewPeer", peer |-> p]
<1>1. event \in Event /\ ~Early(event)' /\ \A ch \in Channels : event \notin StateEvents(ch)
  BY DEF Event, Early, StateEvents
<1>2. Owe(event) /\ Notify(event)
  BY DEF NotifyNewPeer
<1> HIDE DEF event
<1>3. /\ owed' \in [Ids -> Seq(Event)] /\ DueTo(callbacks, event)'
      /\ \A id \in Ids, ch \in Channels : ~OwesState(id, ch) /\ ~OwesState(id, ch)'
  BY <1>1, <1>2, OweFacts
<1>4. notifying' \in [event : Event \cup {NoEvent}, left : SUBSET callbacks']
  BY <1>1, <1>2, NotifyTypes
<1>5. HearingPart'
  <2>1. \A ch \in Channels : Quiet(ch)'
    BY DEF NothingDue, Quiet
  <2> QED BY <1>1, <1>2, <1>3, <2>1, NotifyKeeps DEF PageInv, HearingPart
<1>6. PageTypes'
  BY <1>3, <1>4 DEF PageInv, PageTypes
<1>7. SameChannels /\ \A ch \in Channels : ~InReady(T("incoming", ch))
  BY TaskTypes DEF SameChannels, NoIncoming
<1>8. PeersPart'
  BY <1>7, PeersKept, SameHasEnds DEF PageInv, PageTypes
<1>9. ToldPart'
  BY <1>3, <1>7, ToldKept DEF PageInv, PageTypes
<1>10. ReadyPart' /\ NoIncoming'
  BY ReadyKept DEF PageInv
<1>11. IncomingPart'
  BY <1>10, IncomingKept DEF PageInv
<1> QED BY <1>5, <1>6, <1>8, <1>9, <1>10, <1>11 DEF PageInv

LEMMA RunReaderKeeps == ASSUME PageInv, NEW p \in Peers, RunReader(p) PROVE PageInv'
<1>1. /\ Polled(T("reader", p)) /\ ready' = Tail(ready)
      /\ UNCHANGED <<call, callbacks, nextId, dc, chan, arrived, told, misheard, early, latest>>
      /\ \/ p \in peers /\ UNCHANGED <<peers, owed, notifying>>
         \/ NotifyNewPeer(p) /\ peers' = peers \cup {p}
         \/ NotifyNewPeer(p) /\ peers' = peers
  BY DEF RunReader, GetOrCreatePeer, registry, heard
<1>2. /\ ready # <<>> /\ Head(ready) = T("reader", p) /\ NothingDue /\ NoIncoming
      /\ T("reader", p).kind = "reader"
  BY <1>1, TaskTypes, PolledFacts
<1>3. /\ ready' \in Seq(Task) /\ \A t : InReady(t)' => InReady(t)
      /\ \A t : InReady(t) /\ t # T("reader", p) => InReady(t)'
  BY <1>1, <1>2, FirstTaskDone DEF PageInv, PageTypes
<1>4. CallsPart' /\ call' \in [Calls -> CallType]
  BY <1>1 DEF PageInv, CallsPart, PageTypes
<1>5. CASE UNCHANGED <<peers, owed, notifying>>
  <2>1. PageTypes'
    BY <1>1, <1>3, <1>5 DEF PageInv, PageTypes
  <2> QED BY <1>1, <1>2, <1>3, <1>4, <1>5, <2>1, OnlyTasksKeep
<1>6. CASE NotifyNewPeer(p)
  <2>1. peers \subseteq peers' /\ peers' \subseteq Peers
    BY <1>1 DEF PageInv, PageTypes
  <2> QED BY <1>1, <1>2, <1>3, <1>4, <1>6, <2>1, NewPeerKeeps
<1> QED BY <1>1, <1>5, <1>6

LEMMA ConnectKeeps == ASSUME PageInv, NEW n \in Calls, ConnectToPeer(n) PROVE PageInv'
<1> DEFINE p == call[n].to
<1>1. /\ Polled(T("call", n)) /\ call[n].op = "connect" /\ call[n].step = "start"
      /\ call' = [call EXCEPT ![n].step = "channel"] /\ ready' = ready
      /\ UNCHANGED <<callbacks, nextId, dc, chan, arrived, told, misheard, early, latest>>
      /\ \/ p \in peers /\ UNCHANGED <<peers, owed, notifying>>
         \/ NotifyNewPeer(p) /\ peers' = peers \cup {p}
  BY DEF ConnectToPeer, GetOrCreatePeer, registry, heard
<1>2. NothingDue /\ NoIncoming
  BY <1>1, TaskTypes, PolledFacts
<1>3. /\ call[n] \in [op : {"connect", "send"}, to : Peers, step : {"start", "channel", "wait"}]
      /\ p \in Peers /\ call \in [Calls -> CallType] /\ call[n] \notin {Unused, Done}
  BY <1>1, CallFacts DEF PageInv, PageTypes
<1>4. /\ call'[n] \in [op : {"connect", "send"}, to : Peers, step : {"start", "channel", "wait"}]
      /\ call'[n].to = p /\ \A k \in Calls \ {n} : call'[k] = call[k]
      /\ call' \in [Calls -> CallType]
  BY <1>1, <1>3 DEF CallType
<1>5. p \in peers' /\ peers \subseteq peers' /\ peers' \subseteq Peers
  BY <1>1, <1>3 DEF PageInv, PageTypes
<1>6. CallsPart'
  <2>1. chan[n] = NoChannel
    BY <1>1, <1>3 DEF PageInv, CallsPart
  <2> QED BY <1>1, <1>4, <1>5, <2>1 DEF PageInv, CallsPart
<1>7. ready' \in Seq(Task) /\ \A t : InReady(t)' = InReady(t)
  BY <1>1, ReadyStays DEF PageInv, PageTypes
<1> HIDE DEF p
<1>8. CASE UNCHANGED <<peers, owed, notifying>>
  <2>1. PageTypes'
    BY <1>1, <1>4, <1>8 DEF PageInv, PageTypes
  <2> QED BY <1>1, <1>2, <1>6, <1>7, <1>8, <2>1, OnlyTasksKeep
<1>9. CASE NotifyNewPeer(p)
  BY <1>1, <1>2, <1>3, <1>4, <1>5, <1>6, <1>7, <1>9, NewPeerKeeps
<1> QED BY <1>1, <1>8, <1>9

-----------------------------------------------------------------------------
(* A channel that is made, by a call or by the other side, is the youngest *)
(* of its peer, and nobody has been told of it.                            *)
LEMMA NewChannelTold ==
    ASSUME PageInv, NothingDue, NEW c \in Channels, chan[c] = NoChannel,
           \A k \in Channels \ {c} : chan'[k] = chan[k],
           \/ \E p \in Peers : Younger(p, c)
           \/ UNCHANGED <<latest, told>>,
           UNCHANGED <<callbacks, owed>>
    PROVE  /\ ToldPart' /\ latest' \in [Peers -> {0} \cup Channels]
           /\ told' \in [Ids -> [Peers -> {"none", "DataChannelOpen", "DataChannelClose"}]]
<1>1. \A id \in Ids, ch \in Channels : ~OwesState(id, ch) /\ ~OwesState(id, ch)'
  BY DEF NothingDue, OwedTo, OwesState
<1>2. /\ ToldPart /\ PeersPart /\ latest \in [Peers -> {0} \cup Channels]
      /\ told \in [Ids -> [Peers -> {"none", "DataChannelOpen", "DataChannelClose"}]]
  BY DEF PageInv, PageTypes
<1>3. /\ latest' \in [Peers -> {0} \cup Channels]
      /\ told' \in [Ids -> [Peers -> {"none", "DataChannelOpen", "DataChannelClose"}]]
      /\ \A q \in Peers : latest[q] # 0 => latest'[q] # 0
      /\ \A q \in Peers : \/ latest'[q] = latest[q] /\ \A id \in Ids : told'[id][q] = told[id][q]
                          \/ \A id \in Ids : told'[id][q] = "none"
  <2>1. CASE UNCHANGED <<latest, told>>
    BY <1>2, <2>1
  <2>2. ASSUME NEW p \in Peers, Younger(p, c)
        PROVE  /\ latest' \in [Peers -> {0} \cup Channels]
               /\ told' \in [Ids -> [Peers -> {"none", "DataChannelOpen", "DataChannelClose"}]]
               /\ \A q \in Peers : latest[q] # 0 => latest'[q] # 0
               /\ \A q \in Peers :
                     \/ latest'[q] = latest[q] /\ \A id \in Ids : told'[id][q] = told[id][q]
                     \/ \A id \in Ids : told'[id][q] = "none"
    <3>1. /\ latest' = [latest EXCEPT ![p] = c] /\ c # 0
          /\ told' = [id \in Ids |-> [told[id] EXCEPT ![p] = "none"]]
      BY <2>2 DEF Younger, Channels
    <3>2. \A id \in Ids : told[id] \in [Peers -> {"none", "DataChannelOpen", "DataChannelClose"}]
      BY <1>2
    <3> QED BY <1>2, <3>1, <3>2
  <2> QED BY <2>1, <2>2
<1>4. ASSUME NEW id \in Ids, NEW q \in Peers, latest'[q] # 0 PROVE Knows(id, q)'
  <2>1. CASE told'[id][q] = "none"
    BY <2>1 DEF Knows
  <2>2. CASE latest'[q] = latest[q] /\ told'[id][q] = told[id][q]
    <3>1. latest[q] \in Channels /\ Ours(latest[q]) /\ Knows(id, q)
      BY <1>1, <1>2, <1>4, <2>2 DEF ToldPart, PeersPart
    <3>2. latest[q] # c
      BY <3>1 DEF Ours
    <3> QED BY <2>2, <3>1, <3>2 DEF Knows
  <2> QED BY <1>3, <2>1, <2>2
<1>5. \A id \in Ids \ callbacks', p \in Peers : told'[id][p] = "none"
  BY <1>2, <1>3 DEF ToldPart
<1>6. \A id \in Ids, p \in Peers : told'[id][p] # "none" => latest'[p] # 0
  BY <1>2, <1>3 DEF ToldPart
<1> QED BY <1>1, <1>3, <1>4, <1>5, <1>6 DEF ToldPart

LEMMA StreamingFacts ==
    ASSUME NEW c \in Channel
    PROVE  /\ Streaming(c) \in Channel /\ Streaming(c).states = <<c.state>>
           /\ Streaming(c).of = c.of /\ Streaming(c).label = c.label
           /\ Streaming(c).state = c.state /\ Streaming(c).messages = c.messages
           /\ Streaming(c).announced = c.announced
<1>1. c.state \in States /\ <<c.state>> \in Seq(States)
  BY DEF Channel
<1>2. \A states \in Seq(States) : [c EXCEPT !.live = TRUE, !.states = states] \in Channel
  BY DEF Channel
<1>3. Streaming(c) \in Channel
  BY <1>1, <1>2 DEF Streaming
<1>4. /\ Streaming(c).states = <<c.state>>
      /\ Streaming(c).of = c.of /\ Streaming(c).label = c.label
      /\ Streaming(c).state = c.state /\ Streaming(c).messages = c.messages
      /\ Streaming(c).announced = c.announced
  BY DEF Streaming, Channel
<1> QED BY <1>3, <1>4

LEMMA NewChannelFacts ==
    ASSUME NEW p \in Peers, NEW label \in Labels, NEW state \in States
    PROVE  /\ NewChannel(p, label, state) \in Channel
           /\ NewChannel(p, label, state).of = p /\ NewChannel(p, label, state).label = label
           /\ NewChannel(p, label, state).state = state
           /\ NewChannel(p, label, state).states = <<>>
           /\ NewChannel(p, label, state).messages = <<>>
BY DEF NewChannel, Channel

LEMMA NewIsUnannounced ==
    \A p, label, state : NewChannel(p, label, state).announced = FALSE
BY DEF NewChannel

LEMMA CreateKeeps == ASSUME PageInv, NEW n \in Calls, CreateDataChannel(n) PROVE PageInv'
<1> DEFINE p == call[n].to
           c == Streaming(NewChannel(p, "sf-channel", "connecting"))
<1>1. /\ Polled(T("call", n)) /\ call[n].op = "connect" /\ call[n].step = "channel"
      /\ chan' = [chan EXCEPT ![n] = c] /\ dc' = [dc EXCEPT ![p] = n]
      /\ call' = [call EXCEPT ![n].step = "wait"] /\ ready' = Tail(ready) \o Spawned(n)
      /\ Younger(p, n)
      /\ UNCHANGED <<callbacks, nextId, notifying, peers, arrived, owed, misheard, early>>
  BY DEF CreateDataChannel, registry
<1>2. /\ ready # <<>> /\ Head(ready) = T("call", n) /\ NothingDue /\ NoIncoming
      /\ T("call", n).kind = "call"
  <2>1. Polled(T("call", n))
    BY <1>1
  <2>2. T("call", n) \in Task /\ T("call", n).kind = "call"
    BY TaskTypes
  <2> QED BY <2>1, <2>2, PolledFacts
<1>3. /\ call[n] \in [op : {"connect", "send"}, to : Peers, step : {"start", "channel", "wait"}]
      /\ p \in Peers /\ n \in Channels /\ call \in [Calls -> CallType]
      /\ call[n] \notin {Unused, Done}
  BY <1>1, CallFacts DEF PageInv, PageTypes
<1>4. chan[n] = NoChannel /\ p \in peers
  BY <1>1, <1>3 DEF PageInv, CallsPart
<1>5. /\ c.of = p /\ c.label = "sf-channel" /\ c.state = "connecting" /\ c.states = <<"connecting">>
      /\ c.messages = <<>> /\ c \in Channel
  <2>1. p \in Peers /\ "connecting" \in States /\ "sf-channel" \in Labels
    BY <1>3 DEF States, Labels
  <2> HIDE DEF p
  <2> QED BY <2>1, NewChannelFacts, StreamingFacts
<1> HIDE DEF c, p
<1>6. /\ chan \in [Channels -> Channel \cup {NoChannel}] /\ dc \in [Peers -> {0} \cup Channels]
      /\ ready \in Seq(Task)
  BY DEF PageInv, PageTypes
<1>7. /\ chan'[n] = c /\ c # NoChannel /\ \A k \in Channels \ {n} : chan'[k] = chan[k]
      /\ chan' \in [Channels -> Channel \cup {NoChannel}]
      /\ dc' \in [Peers -> {0} \cup Channels]
      /\ dc'[p] = n /\ n # 0 /\ \A q \in Peers \ {p} : dc'[q] = dc[q]
  BY <1>1, <1>3, <1>5, <1>6, NoChannelFacts DEF Channels
<1>8. /\ ready' \in Seq(Task)
      /\ \A t : InReady(t)' => InReady(t) \/ t = T("state", n) \/ t = T("message", n)
      /\ \A t : InReady(t) /\ t # T("call", n) => InReady(t)'
      /\ InReady(T("state", n))' /\ InReady(T("message", n))'
  BY <1>1, <1>2, <1>3, <1>6, SpawnedFacts
<1>14. /\ ToldPart' /\ latest' \in [Peers -> {0} \cup Channels]
       /\ told' \in [Ids -> [Peers -> {"none", "DataChannelOpen", "DataChannelClose"}]]
  BY <1>1, <1>2, <1>3, <1>4, <1>7, NewChannelTold
<1>9. PageTypes'
  <2>1. call'[n] \in [op : {"connect", "send"}, to : Peers, step : {"start", "channel", "wait"}]
    BY <1>1, <1>3
  <2>2. call' \in [Calls -> CallType]
    BY <1>1, <1>3, <2>1 DEF CallType
  <2> QED BY <1>1, <1>7, <1>8, <1>14, <2>2 DEF PageInv, PageTypes
<1>10. ReadyPart'
  <2>1. \A t \in Task : InReady(t)' /\ t.kind \in {"state", "message", "incoming"} =>
          t.of \in Channels /\ chan'[t.of] # NoChannel
    <3>1. \A t \in Task : InReady(t) /\ t.kind \in {"state", "message", "incoming"} =>
              t.of \in Channels /\ chan'[t.of] # NoChannel
      BY <1>7 DEF PageInv, ReadyPart
    <3>2. T("state", n).of = n /\ T("message", n).of = n
      BY TaskTypes
    <3> QED BY <1>3, <1>7, <1>8, <3>1, <3>2
  <2>2. \A t \in Task : InReady(t)' => t.kind # "incoming"
    <3>1. T("state", n).kind = "state" /\ T("message", n).kind = "message"
      BY TaskTypes
    <3> QED BY <1>2, <1>8, <3>1 DEF NoIncoming
  <2>3. ASSUME NEW ch \in Channels, chan'[ch] # NoChannel
        PROVE  /\ chan'[ch].states # <<>> => InReady(T("state", ch))'
               /\ chan'[ch].messages # <<>> => InReady(T("message", ch))'
    <3>1. CASE ch = n
      BY <1>8, <3>1
    <3>2. CASE ch # n
      <4>1. T("state", ch) # T("call", n) /\ T("message", ch) # T("call", n)
        BY TaskTypes
      <4> QED BY <1>7, <1>8, <2>3, <3>2, <4>1 DEF PageInv, ReadyPart
    <3> QED BY <3>1, <3>2
  <2> QED BY <2>1, <2>2, <2>3 DEF ReadyPart
<1>11. HearingPart'
  <2>1. Quiet(n)'
    BY <1>5, <1>7 DEF Quiet, QuietStates, QuietMessages
  <2>2. \A k \in Channels : Quiet(k)'
    BY <1>2, <1>7, <2>1 DEF NothingDue, Quiet
  <2>3. OwedTo({}, NoEvent)' /\ notifying' = Silent /\ misheard' = FALSE
    BY <1>1, <1>2 DEF NothingDue, OwedTo, PageInv, HearingPart
  <2> QED BY <2>2, <2>3 DEF HearingPart, NothingDue
<1>12. PeersPart'
  <2>1. Ours(n)' /\ chan'[n].of = p
    BY <1>5, <1>7 DEF Ours
  <2>2. \A ch \in Channels : chan'[ch] # NoChannel => chan'[ch].of \in peers'
    BY <1>1, <1>4, <1>7, <2>1 DEF PageInv, PeersPart
  <2>3. ASSUME NEW q \in Peers, latest'[q] # 0
        PROVE  Ours(latest[q])' /\ chan'[latest'[q]].of = q /\ dc'[q] = latest'[q]
    <3>1. latest' = [latest EXCEPT ![p] = n] /\ latest \in [Peers -> {0} \cup Channels]
      BY <1>1 DEF Younger, PageInv, PageTypes
    <3>2. CASE q = p
      BY <1>7, <2>1, <3>1, <3>2 DEF Ours
    <3>3. CASE q # p
      <4>1. /\ latest'[q] = latest[q] /\ Ours(latest[q]) /\ chan[latest[q]].of = q
            /\ latest[q] \in Channels
        BY <2>3, <3>1, <3>3 DEF PageInv, PeersPart
      <4>2. latest[q] # n
        BY <1>4, <4>1 DEF Ours
      <4>3. dc[q] = latest[q]
        BY <1>2, <2>3, <4>1, TaskTypes DEF NoIncoming, PageInv, PeersPart
      <4> QED BY <1>7, <3>3, <4>1, <4>2, <4>3 DEF Ours
    <3> QED BY <3>2, <3>3
  <2> QED BY <2>2, <2>3 DEF PeersPart
<1>13. CallsPart'
  <2>1. call'[n].step = "wait" /\ call'[n] # Unused /\ \A k \in Calls \ {n} : call'[k] = call[k]
    BY <1>1, <1>3 DEF Unused
  <2>2. ASSUME NEW k \in Calls \ {n} PROVE chan'[k] = chan[k]
    BY <1>7, BoundsAssumption DEF Calls, Channels
  <2> QED BY <1>1, <2>1, <2>2 DEF PageInv, CallsPart
<1>15. IncomingPart'
  <2>1. NoIncoming'
    <3>1. T("state", n).kind = "state" /\ T("message", n).kind = "message"
      BY TaskTypes
    <3> QED BY <1>2, <1>8, <3>1 DEF NoIncoming
  <2> QED BY <1>1, <1>7, <2>1, IncomingKept DEF PageInv
<1> QED BY <1>9, <1>10, <1>11, <1>12, <1>13, <1>14, <1>15 DEF PageInv

LEMMA IncomingKeeps ==
    ASSUME PageInv, NEW ch \in Channels, NEW p \in Peers, NEW label \in Labels,
           IncomingChannel(ch, p, label)
    PROVE  PageInv'
<1> DEFINE c == NewChannel(p, label, "open")
           task == T("incoming", ch)
<1>1. /\ AtRest /\ ch > MaxCalls /\ chan[ch] = NoChannel /\ p \in peers
      /\ chan' = [chan EXCEPT ![ch] = c] /\ Wake(<<task>>)
      /\ IF label = "sf-channel" THEN Younger(p, ch) ELSE UNCHANGED <<latest, told>>
      /\ UNCHANGED <<call, callbacks, nextId, notifying, peers, dc, arrived, owed, misheard,
                     early>>
  BY DEF IncomingChannel, DataChannelStream, registry, manager
<1>2. /\ c \in Channel /\ c.of = p /\ c.label = label /\ c.state = "open" /\ c.states = <<>>
      /\ c.messages = <<>> /\ c.announced = FALSE
  <2>1. c.announced = FALSE
    BY NewIsUnannounced
  <2> QED BY <2>1, NewChannelFacts DEF States
<1>3. /\ task \in Task /\ task.kind = "incoming" /\ task.of = ch
      /\ \A k \in Channels : T("incoming", k) = task => k = ch
  BY TaskTypes
<1> HIDE DEF c, task
<1>4. /\ ready = <<>> /\ NothingDue /\ notifying = Silent /\ \A t : ~InReady(t)
      /\ \A k \in Channels : chan[k] # NoChannel => chan[k].states = <<>> /\ chan[k].messages = <<>>
      /\ \A q \in Peers : latest[q] # 0 => dc[q] = latest[q]
  BY <1>1, RestFacts DEF AtRest
<1>5. ready' \in Seq(Task) /\ ready' = <<task>> /\ \A t : InReady(t)' <=> t = task
  BY <1>1, <1>3, <1>4, OneWoken DEF PageInv, PageTypes
<1>6. /\ chan \in [Channels -> Channel \cup {NoChannel}]
      /\ chan'[ch] = c /\ c # NoChannel /\ \A k \in Channels \ {ch} : chan'[k] = chan[k]
      /\ chan' \in [Channels -> Channel \cup {NoChannel}]
  BY <1>1, <1>2, NoChannelFacts DEF PageInv, PageTypes
<1>12. /\ ToldPart' /\ latest' \in [Peers -> {0} \cup Channels]
       /\ told' \in [Ids -> [Peers -> {"none", "DataChannelOpen", "DataChannelClose"}]]
  BY <1>1, <1>4, <1>6, NewChannelTold
<1>7. PageTypes'
  BY <1>1, <1>5, <1>6, <1>12 DEF PageInv, PageTypes
<1>8. ReadyPart'
  <2>1. \A k \in Channels : chan'[k] # NoChannel =>
            chan'[k].states = <<>> /\ chan'[k].messages = <<>>
    BY <1>2, <1>4, <1>6
  <2> QED BY <1>1, <1>2, <1>3, <1>4, <1>5, <1>6, <2>1 DEF ReadyPart
<1>9. HearingPart'
  <2>1. Quiet(ch)'
    BY <1>2, <1>6 DEF Quiet, QuietStates, QuietMessages
  <2>2. \A k \in Channels : Quiet(k)'
    BY <1>4, <1>6, <2>1 DEF NothingDue, Quiet
  <2>3. OwedTo({}, NoEvent)' /\ notifying' = Silent /\ misheard' = FALSE
    BY <1>1, <1>4 DEF NothingDue, OwedTo, PageInv, HearingPart
  <2> QED BY <2>2, <2>3 DEF HearingPart, NothingDue
<1>10. PeersPart'
  <2>1. \A k \in Channels : chan'[k] # NoChannel => chan'[k].of \in peers'
    BY <1>1, <1>2, <1>6 DEF PageInv, PeersPart
  <2>2. ASSUME NEW q \in Peers, latest'[q] # 0
        PROVE  /\ Ours(latest[q])' /\ chan'[latest'[q]].of = q
               /\ dc'[q] = latest'[q] \/ InReady(T("incoming", latest[q]))'
    <3> DEFINE young == label = "sf-channel" /\ q = p
    <3>1. latest'[q] = IF young THEN ch ELSE latest[q]
      BY <1>1 DEF Younger, PageInv, PageTypes
    <3>2. CASE young
      <4>1. latest'[q] = ch /\ Ours(ch)' /\ chan'[ch].of = q /\ InReady(T("incoming", ch))'
        BY <1>2, <1>5, <1>6, <3>1, <3>2 DEF Ours, task
      <4> QED BY <4>1 DEF Ours
    <3>3. CASE ~young
      <4>1. /\ latest[q] \in Channels /\ Ours(latest[q]) /\ chan[latest[q]].of = q
            /\ dc[q] = latest[q] /\ latest'[q] = latest[q]
        BY <1>4, <2>2, <3>1, <3>3 DEF PageInv, PageTypes, PeersPart
      <4>2. latest[q] # ch
        BY <1>1, <4>1 DEF Ours
      <4> QED BY <1>1, <1>6, <4>1, <4>2 DEF Ours
    <3> QED BY <3>2, <3>3
  <2> QED BY <2>1, <2>2 DEF PeersPart
<1>11. CallsPart'
  <2>1. \A n \in Calls : n # ch /\ n \in Channels
    BY <1>1, BoundsAssumption DEF Calls, Channels
  <2> QED BY <1>1, <1>6, <2>1 DEF PageInv, CallsPart
<1>13. IncomingPart'
  <2>1. ASSUME NEW k \in Channels, InReady(T("incoming", k))'
        PROVE  /\ k > MaxCalls /\ chan'[k].announced = FALSE
               /\ Ours(k)' => latest'[chan'[k].of] = k
    <3>1. k = ch
      BY <1>3, <1>5, <2>1
    <3>2. Ours(ch)' => latest'[p] = ch
      BY <1>1, <1>2, <1>6 DEF Ours, Younger, PageInv, PageTypes
    <3> QED BY <1>1, <1>2, <1>6, <3>1, <3>2
  <2>2. ASSUME NEW k \in Channels, chan'[k] = NoChannel \/ InReady(T("incoming", k))', NEW id \in Ids
        PROVE  k \notin early'[id]
    <3>1. chan[k] = NoChannel
      BY <1>1, <1>3, <1>5, <1>6, <2>2
    <3> QED BY <1>1, <3>1 DEF PageInv, IncomingPart
  <2> QED BY <2>1, <2>2 DEF IncomingPart
<1> QED BY <1>7, <1>8, <1>9, <1>10, <1>11, <1>12, <1>13 DEF PageInv

(* When the task on a channel that came in is polled nothing else is under *)
(* way, and it leaves the stream of its states with "open" in it.          *)
LEMMA RunIncomingFacts ==
    ASSUME PageInv, NEW ch \in Channels, RunIncoming(ch)
    PROVE  /\ ready = <<T("incoming", ch)>> /\ NothingDue /\ notifying = Silent
           /\ chan[ch] # NoChannel /\ chan[ch].state = "open"
           /\ \A t : InReady(t) <=> t = T("incoming", ch)
           /\ \A k \in Channels : chan[k] # NoChannel =>
                  chan[k].states = <<>> /\ chan[k].messages = <<>>
           /\ \A q \in Peers : latest[q] # 0 => dc[q] = latest[q] \/ latest[q] = ch
           /\ ch > MaxCalls /\ chan[ch].announced = FALSE /\ \A id \in Ids : ch \notin early[id]
           /\ Ours(ch) => latest[chan[ch].of] = ch
<1> DEFINE task == T("incoming", ch)
<1>1. Polled(task)
  BY DEF RunIncoming
<1>2. /\ task \in Task /\ task.kind = "incoming" /\ task.of = ch
      /\ \A k \in Channels : /\ T("incoming", k) = task => k = ch
                             /\ T("state", k) # task /\ T("message", k) # task
  BY TaskTypes
<1> HIDE DEF task
<1>3. InReady(task) /\ NothingDue /\ notifying = Silent
  BY <1>1, <1>2, PolledFacts
<1>4. ready = <<task>> /\ chan[ch] # NoChannel /\ chan[ch].state = "open"
  BY <1>2, <1>3 DEF PageInv, ReadyPart
<1>5. \A t : InReady(t) <=> t = task
  BY <1>4 DEF InReady
<1>6. \A k \in Channels : chan[k] # NoChannel => chan[k].states = <<>> /\ chan[k].messages = <<>>
  BY <1>2, <1>5 DEF PageInv, ReadyPart
<1>7. \A q \in Peers : latest[q] # 0 => dc[q] = latest[q] \/ latest[q] = ch
  BY <1>2, <1>5 DEF PageInv, PageTypes, PeersPart
<1>8. /\ ch > MaxCalls /\ chan[ch].announced = FALSE /\ \A id \in Ids : ch \notin early[id]
      /\ Ours(ch) => latest[chan[ch].of] = ch
  BY <1>3 DEF PageInv, IncomingPart, task
<1> QED BY <1>3, <1>4, <1>5, <1>6, <1>7, <1>8 DEF task

(* A channel of another protocol is let go.                                *)
LEMMA OtherIncomingKeeps ==
    ASSUME PageInv, NEW ch \in Channels, RunIncoming(ch), chan[ch].label # "sf-channel"
    PROVE  PageInv'
<1>1. /\ ready' = Tail(ready)
      /\ UNCHANGED <<call, callbacks, nextId, notifying, peers, dc, chan, arrived, owed, told,
                     misheard, early, latest>>
  BY DEF RunIncoming, registry, history, heard
<1>2. /\ ready = <<T("incoming", ch)>> /\ NothingDue
      /\ \A k \in Channels : chan[k] # NoChannel => chan[k].states = <<>> /\ chan[k].messages = <<>>
      /\ \A q \in Peers : latest[q] # 0 => dc[q] = latest[q]
  <2>1. \A q \in Peers : latest[q] # 0 => latest[q] # ch
    BY DEF PageInv, PeersPart, Ours
  <2> QED BY <2>1, RunIncomingFacts
<1>3. ready' = <<>> /\ ready' \in Seq(Task)
  BY <1>1, <1>2
<1>4. \A t : ~InReady(t)'
  BY <1>3 DEF InReady
<1>5. PageTypes'
  BY <1>1, <1>3 DEF PageInv, PageTypes
<1>6. ReadyPart'
  BY <1>1, <1>2, <1>4 DEF ReadyPart
<1>7. SameChannels
  BY <1>1 DEF SameChannels
<1>8. HearingPart'
  BY <1>1, <1>2, NothingDueKept DEF PageInv, HearingPart
<1>9. PeersPart'
  BY <1>1, <1>2 DEF PageInv, PeersPart, Ours
<1>10. CallsPart'
  BY <1>1 DEF PageInv, CallsPart
<1>11. ToldPart'
  BY <1>1, <1>7, ToldKept DEF PageInv, PageTypes, OwesState
<1>12. IncomingPart'
  <2>1. NoIncoming'
    BY <1>4 DEF NoIncoming
  <2> QED BY <1>1, <2>1, IncomingKept DEF PageInv
<1> QED BY <1>5, <1>6, <1>8, <1>9, <1>10, <1>11, <1>12 DEF PageInv

LEMMA RunIncomingKeeps ==
    ASSUME PageInv, NEW ch \in Channels, RunIncoming(ch), chan[ch].label = "sf-channel"
    PROVE  PageInv'
<1> DEFINE event == [type |-> "DataChannelOpen", channel |-> ch]
           c == Streaming(chan[ch])
           p == chan[ch].of
<1>1. /\ dc' = [dc EXCEPT ![p] = ch] /\ chan' = [chan EXCEPT ![ch] = c]
      /\ ready' = Tail(ready) \o Spawned(ch)
      /\ UNCHANGED <<call, callbacks, nextId, notifying, peers, arrived, owed, told, misheard,
                     early, latest>>
  BY DEF RunIncoming, registry, history, heard
<1>2. /\ ready = <<T("incoming", ch)>> /\ NothingDue /\ notifying = Silent
      /\ chan[ch] # NoChannel /\ chan[ch].state = "open"
      /\ \A t : InReady(t) <=> t = T("incoming", ch)
      /\ \A k \in Channels : chan[k] # NoChannel => chan[k].states = <<>> /\ chan[k].messages = <<>>
      /\ \A q \in Peers : latest[q] # 0 => dc[q] = latest[q] \/ latest[q] = ch
      /\ ch > MaxCalls /\ chan[ch].announced = FALSE /\ \A id \in Ids : ch \notin early[id]
      /\ latest[p] = ch
  BY RunIncomingFacts DEF Ours
<1>3. /\ chan[ch] \in Channel /\ p \in Peers
      /\ chan \in [Channels -> Channel \cup {NoChannel}] /\ dc \in [Peers -> {0} \cup Channels]
      /\ ready \in Seq(Task)
  BY <1>2, ChannelFacts DEF PageInv, PageTypes
<1>4. /\ c \in Channel /\ c.of = p /\ c.label = "sf-channel" /\ c.state = "open"
      /\ c.states = <<"open">> /\ c.messages = <<>> /\ c.announced = FALSE
  BY <1>2, <1>3, StreamingFacts
<1>5. event \in Event /\ event.type = "DataChannelOpen" /\ event.channel = ch
  BY DEF Event
<1> HIDE DEF c, p, event
<1>6. /\ ready # <<>> /\ Tail(ready) = <<>> /\ Head(ready) = T("incoming", ch)
  BY <1>2
<1>7. /\ ready' \in Seq(Task) /\ ready' # <<>> /\ Head(ready') = T("state", ch)
      /\ \A t : InReady(t)' <=> t = T("state", ch) \/ t = T("message", ch)
  <2>1. /\ ready' \in Seq(Task) /\ ready' # <<>>
        /\ \A t : InReady(t)' => InReady(t) \/ t = T("state", ch) \/ t = T("message", ch)
        /\ InReady(T("state", ch))' /\ InReady(T("message", ch))'
        /\ Head(ready') = T("state", ch)
    BY <1>1, <1>3, <1>6, SpawnedFacts
  <2>2. \A t : InReady(t)' => t = T("state", ch) \/ t = T("message", ch)
    BY <1>1, <1>3, <1>6, SpawnedFacts
  <2> QED BY <2>1, <2>2
<1>8. /\ chan'[ch] = c /\ c # NoChannel /\ \A k \in Channels \ {ch} : chan'[k] = chan[k]
      /\ chan' \in [Channels -> Channel \cup {NoChannel}]
      /\ dc' \in [Peers -> {0} \cup Channels]
      /\ dc'[p] = ch /\ ch # 0 /\ \A q \in Peers \ {p} : dc'[q] = dc[q]
  BY <1>1, <1>3, <1>4, NoChannelFacts DEF Channels
<1>10. SameChannels /\ Ours(ch) /\ Ours(ch)' /\ \A k \in Channels : Ours(k)' <=> Ours(k)
  BY <1>2, <1>4, <1>8 DEF SameChannels, Ours, p
<1>9. DueTo(callbacks, event)'
  <2>1. Early(event)'
    BY <1>2, <1>4, <1>5, <1>8 DEF Early
  <2>2. OwedTo({}, event)'
    BY <1>1, <1>2 DEF NothingDue, OwedTo
  <2>3. callbacks' \subseteq Ids
    BY <1>1 DEF PageInv, PageTypes
  <2> QED BY <1>1, <1>2, <1>4, <1>5, <1>8, <1>10, <2>1, <2>2, <2>3 DEF DueTo, OwedTo
<1>11. PageTypes'
  BY <1>1, <1>7, <1>8 DEF PageInv, PageTypes
<1>12. ReadyPart'
  <2>1. /\ T("state", ch).kind = "state" /\ T("state", ch).of = ch
        /\ T("message", ch).kind = "message" /\ T("message", ch).of = ch
    BY TaskTypes
  <2>2. ASSUME NEW k \in Channels, chan'[k] # NoChannel
        PROVE  /\ chan'[k].states # <<>> => InReady(T("state", k))'
               /\ chan'[k].messages # <<>> => InReady(T("message", k))'
    BY <1>2, <1>4, <1>7, <1>8, <2>2
  <2> QED BY <1>7, <1>8, <2>1, <2>2 DEF ReadyPart
<1>13. HearingPart'
  <2>1. QuietMessages(chan'[ch])
    BY <1>4, <1>8 DEF QuietMessages
  <2>2. event = StateEvent(ch)'
    BY <1>4, <1>8 DEF StateEvent, event
  <2>3. StateDue(ch, event)'
    BY <1>4, <1>7, <1>8, <2>1, <2>2 DEF StateDue
  <2>4. \A k \in Channels \ {ch} : Quiet(k)'
    BY <1>2, <1>8 DEF NothingDue, Quiet
  <2>5. notifying' = Silent /\ misheard' = FALSE
    BY <1>1, <1>2 DEF PageInv, HearingPart
  <2>6. OneDue'
    BY <1>5, <1>7, <1>8, <1>9, <2>3, <2>4, <2>5 DEF OneDue
  <2> QED BY <2>5, <2>6 DEF HearingPart
<1>14. PeersPart'
  <2>1. \A k \in Channels : chan'[k] # NoChannel => chan'[k].of \in peers'
    BY <1>1, <1>10 DEF SameChannels, PageInv, PeersPart
  <2>2. ASSUME NEW q \in Peers, latest'[q] # 0
        PROVE  Ours(latest[q])' /\ chan'[latest'[q]].of = q /\ dc'[q] = latest'[q]
    <3>1. /\ latest[q] \in Channels /\ Ours(latest[q]) /\ chan[latest[q]].of = q
          /\ latest'[q] = latest[q]
      BY <1>1, <2>2 DEF PageInv, PageTypes, PeersPart
    <3>2. Ours(latest[q])' /\ chan'[latest'[q]].of = q
      BY <1>10, <3>1 DEF SameChannels, Ours
    <3>3. q # p => latest[q] # ch
      BY <3>1 DEF p
    <3> QED BY <1>1, <1>2, <1>8, <2>2, <3>1, <3>2, <3>3
  <2> QED BY <2>1, <2>2 DEF PeersPart
<1>15. CallsPart'
  <2>1. Calls \subseteq Channels
    BY BoundsAssumption DEF Calls, Channels
  <2> QED BY <1>1, <1>10, <2>1, CallsKept, SameHasEnds DEF PageInv
<1>16. ToldPart'
  BY <1>1, <1>10, ToldKept DEF PageInv, PageTypes, OwesState
<1>17. IncomingPart'
  <2>1. NoIncoming'
    BY <1>7, TaskTypes DEF NoIncoming
  <2> QED BY <1>1, <1>10, <2>1, IncomingKept DEF PageInv, SameChannels
<1> QED BY <1>11, <1>12, <1>13, <1>14, <1>15, <1>16, <1>17 DEF PageInv

-----------------------------------------------------------------------------
(* A channel gets another state or other streams.                          *)
LEMMA Replaced ==
    ASSUME PageTypes, NEW ch \in Channels, chan[ch] # NoChannel, NEW c \in Channel,
           c.of = chan[ch].of, c.label = chan[ch].label, chan' = [chan EXCEPT ![ch] = c]
    PROVE  /\ chan'[ch] = c /\ c # NoChannel /\ \A k \in Channels \ {ch} : chan'[k] = chan[k]
           /\ chan' \in [Channels -> Channel \cup {NoChannel}]
           /\ SameEnds
           /\ \A k \in Channels : Ours(k)' <=> Ours(k)
           /\ c.state = chan[ch].state /\ c.announced = chan[ch].announced => SameChannels
<1>1. /\ chan'[ch] = c /\ c # NoChannel /\ \A k \in Channels \ {ch} : chan'[k] = chan[k]
      /\ chan' \in [Channels -> Channel \cup {NoChannel}]
  BY NoChannelFacts DEF PageTypes
<1>2. SameEnds
  BY <1>1 DEF SameEnds
<1>3. \A k \in Channels : Ours(k)' <=> Ours(k)
  BY <1>2 DEF SameEnds, Ours
<1>4. c.state = chan[ch].state /\ c.announced = chan[ch].announced => SameChannels
  BY <1>1, <1>2 DEF SameChannels, SameEnds
<1> QED BY <1>1, <1>2, <1>3, <1>4

(* A channel closes, or its state changes and nobody listens.              *)
LEMMA QuietlyReplaced ==
    ASSUME PageInv, AtRest, NEW ch \in Channels, chan[ch] # NoChannel, NEW c \in Channel,
           c.of = chan[ch].of, c.label = chan[ch].label, chan' = [chan EXCEPT ![ch] = c],
           c.states = <<>>, c.messages = <<>>,
           Ours(ch) => chan[ch].state \in {"connecting", "open"} /\ c.state = "closing",
           UNCHANGED <<call, callbacks, nextId, notifying, peers, dc, ready, arrived, owed,
                       told, misheard, early, latest>>
    PROVE  PageInv'
<1>1. /\ chan'[ch] = c /\ c # NoChannel /\ \A k \in Channels \ {ch} : chan'[k] = chan[k]
      /\ chan' \in [Channels -> Channel \cup {NoChannel}]
      /\ SameEnds
      /\ \A k \in Channels : Ours(k)' <=> Ours(k)
  BY Replaced DEF PageInv
<1>2. /\ NothingDue /\ \A t : ~InReady(t)
      /\ \A k \in Channels : chan[k] # NoChannel => chan[k].states = <<>> /\ chan[k].messages = <<>>
  BY RestFacts
<1>3. \A t : ~InReady(t)'
  BY <1>2, ReadyStays
<1>4. PageTypes'
  BY <1>1 DEF PageInv, PageTypes
<1>5. ReadyPart'
  BY <1>1, <1>2, <1>3 DEF ReadyPart
<1>6. HearingPart'
  <2>1. Quiet(ch)'
    BY <1>1 DEF Quiet, QuietStates, QuietMessages
  <2>2. \A k \in Channels : Quiet(k)'
    BY <1>1, <1>2, <2>1 DEF NothingDue, Quiet
  <2>3. OwedTo({}, NoEvent)' /\ notifying' = Silent /\ misheard' = FALSE
    BY <1>2 DEF NothingDue, OwedTo, PageInv, HearingPart
  <2> QED BY <2>2, <2>3 DEF HearingPart, NothingDue
<1>7. PeersPart'
  BY <1>1, <1>2, PeersKept DEF PageInv, PageTypes
<1>8. CallsPart'
  <2>1. Calls \subseteq Channels
    BY BoundsAssumption DEF Calls, Channels
  <2> QED BY <1>1, <2>1, CallsKept DEF PageInv
<1>9. ToldPart'
  <2>1. \A id \in Ids, k \in Channels : ~OwesState(id, k) /\ ~OwesState(id, k)'
    BY <1>2 DEF NothingDue, OwedTo, OwesState
  <2>2. ASSUME NEW id \in Ids, NEW p \in Peers, latest'[p] # 0 PROVE Knows(id, p)'
    <3>1. latest[p] \in Channels /\ Ours(latest[p]) /\ Knows(id, p)
      BY <2>1, <2>2 DEF PageInv, PageTypes, PeersPart, ToldPart
    <3>2. CASE latest[p] = ch
      BY <1>1, <3>1, <3>2 DEF Knows
    <3>3. CASE latest[p] # ch
      BY <1>1, <3>1, <3>3 DEF Knows
    <3> QED BY <3>2, <3>3
  <2>3. /\ \A id \in Ids \ callbacks', p \in Peers : told'[id][p] = "none"
        /\ \A id \in Ids, p \in Peers : told'[id][p] # "none" => latest'[p] # 0
    BY DEF PageInv, ToldPart
  <2>4. \A p \in Peers : latest'[p] # 0 => latest'[p] \in Channels
    BY DEF PageInv, PageTypes
  <2> QED BY <2>1, <2>2, <2>3, <2>4 DEF ToldPart
<1>10. IncomingPart'
  <2>1. NoIncoming'
    BY <1>3 DEF NoIncoming
  <2> QED BY <1>1, <2>1, IncomingKept DEF PageInv, SameEnds
<1> QED BY <1>4, <1>5, <1>6, <1>7, <1>8, <1>9, <1>10 DEF PageInv

LEMMA ChannelClosesKeeps == ASSUME PageInv, NEW ch \in Channels, ChannelCloses(ch) PROVE PageInv'
<1> DEFINE c == [chan[ch] EXCEPT !.state = "closing"]
<1>1. /\ AtRest /\ chan[ch] # NoChannel /\ chan[ch].state \in {"connecting", "open"}
      /\ chan' = [chan EXCEPT ![ch] = c]
      /\ UNCHANGED <<call, callbacks, nextId, notifying, peers, dc, ready, arrived, owed,
                     told, misheard, early, latest>>
  BY DEF ChannelCloses, registry, manager, history, heard
<1>2. chan[ch] \in Channel /\ chan[ch].states = <<>> /\ chan[ch].messages = <<>>
  BY <1>1, RestFacts, ChannelFacts DEF PageInv
<1>3. /\ c \in Channel /\ c.of = chan[ch].of /\ c.label = chan[ch].label /\ c.states = <<>>
      /\ c.messages = <<>> /\ c.state = "closing"
  BY <1>2 DEF Channel, States
<1> HIDE DEF c
<1> QED BY <1>1, <1>3, QuietlyReplaced

(* The state of a channel changes and the stream has it: the callbacks owe *)
(* just this.                                                              *)
LEMMA ListenerKeeps ==
    ASSUME PageInv, NEW ch \in Channels, chan[ch] # NoChannel, NEW c \in Channel,
           c.of = chan[ch].of, c.label = chan[ch].label,
           c.states = chan[ch].states, c.messages = chan[ch].messages,
           c.state \in {"open", "closed"}, c.state = "open" => c.announced,
           Listener(ch, c, IF c.state = "open" THEN "DataChannelOpen" ELSE "DataChannelClose")
    PROVE  PageInv'
<1> DEFINE type == IF c.state = "open" THEN "DataChannelOpen" ELSE "DataChannelClose"
           event == [type |-> type, channel |-> ch]
           task == T("state", ch)
           d == [c EXCEPT !.states = Queued(c.states, c.state)]
<1>1. /\ AtRest
      /\ UNCHANGED <<call, callbacks, nextId, notifying, peers, dc, arrived, told, misheard,
                     early, latest>>
      /\ Ours(ch) => chan' = [chan EXCEPT ![ch] = d] /\ Owe(event) /\ Wake(<<task>>)
      /\ ~Ours(ch) => chan' = [chan EXCEPT ![ch] = c] /\ UNCHANGED <<owed, ready>>
  BY DEF Listener, registry, manager, heard
<1>2. /\ ready = <<>> /\ NothingDue /\ notifying = Silent /\ \A t : ~InReady(t)
      /\ \A k \in Channels : chan[k] # NoChannel => chan[k].states = <<>> /\ chan[k].messages = <<>>
      /\ c.states = <<>> /\ c.messages = <<>>
  BY <1>1, RestFacts DEF AtRest
<1>3. CASE ~Ours(ch)
  BY <1>1, <1>2, <1>3, QuietlyReplaced
<1>4. CASE Ours(ch)
  <2>1. /\ d.of = chan[ch].of /\ d.label = chan[ch].label /\ d.state = c.state
        /\ d.states = <<c.state>> /\ d.messages = <<>> /\ d \in Channel
        /\ d.announced = c.announced
    <3>1. c.state \in States /\ Queued(c.states, c.state) = <<c.state>> /\ <<c.state>> \in Seq(States)
      BY <1>2 DEF Queued, States
    <3>2. \A states \in Seq(States) : [c EXCEPT !.states = states] \in Channel
      BY DEF Channel
    <3>3. \A states : /\ [c EXCEPT !.states = states].of = c.of
                      /\ [c EXCEPT !.states = states].label = c.label
                      /\ [c EXCEPT !.states = states].state = c.state
                      /\ [c EXCEPT !.states = states].states = states
                      /\ [c EXCEPT !.states = states].messages = c.messages
                      /\ [c EXCEPT !.states = states].announced = c.announced
      BY DEF Channel
    <3> QED BY <1>2, <3>1, <3>2, <3>3
  <2>2. event \in Event /\ \A k \in Channels : event \in StateEvents(k) <=> k = ch
    BY DEF Event, StateEvents
  <2>3. task \in Task /\ task.kind = "state" /\ task.of = ch
    BY TaskTypes
  <2>4. event = [type |-> IF d.state = "open" THEN "DataChannelOpen" ELSE "DataChannelClose",
                 channel |-> ch]
    BY <2>1
  <2> HIDE DEF d, event, task, type
  <2>5. /\ chan'[ch] = d /\ d # NoChannel /\ \A k \in Channels \ {ch} : chan'[k] = chan[k]
        /\ chan' \in [Channels -> Channel \cup {NoChannel}]
        /\ SameEnds
        /\ \A k \in Channels : Ours(k)' <=> Ours(k)
    BY <1>1, <1>4, <2>1, Replaced DEF PageInv
  <2>6. /\ ready' \in Seq(Task) /\ ready' # <<>> /\ Head(ready') = task
        /\ \A t : InReady(t)' <=> t = task
    BY <1>1, <1>2, <1>4, <2>3, OneWoken DEF PageInv, PageTypes
  <2>7. /\ owed' = [id \in Ids |-> IF id \in callbacks THEN <<event>> ELSE <<>>]
        /\ owed' \in [Ids -> Seq(Event)] /\ DueTo(callbacks, event)'
        /\ \A id \in Ids, k \in Channels :
               /\ ~OwesState(id, k)
               /\ OwesState(id, k)' => id \in callbacks /\ event \in StateEvents(k)
               /\ owed'[id] # <<>> => Head(owed'[id]) = event
    <3>1. ~Early(event)'
      BY <2>1, <2>4, <2>5 DEF Early
    <3> QED BY <1>1, <1>2, <1>4, <2>2, <3>1, OweFacts
  <2>8. PageTypes'
    BY <1>1, <2>5, <2>6, <2>7 DEF PageInv, PageTypes
  <2>9. ReadyPart'
    <3>1. ASSUME NEW k \in Channels, chan'[k] # NoChannel
          PROVE  /\ chan'[k].states # <<>> => InReady(T("state", k))'
                 /\ chan'[k].messages # <<>> => InReady(T("message", k))'
      BY <1>2, <2>1, <2>5, <2>6, <3>1 DEF task
    <3> QED BY <2>3, <2>5, <2>6, <3>1 DEF ReadyPart
  <2>10. StateEvent(ch)' = event
    BY <2>4, <2>5 DEF StateEvent
  <2>11. HearingPart'
    <3>1. QuietMessages(chan'[ch])
      BY <2>1, <2>5 DEF QuietMessages
    <3>2. StateDue(ch, event)'
      BY <2>1, <2>5, <2>6, <2>10, <3>1 DEF StateDue, task
    <3>3. \A k \in Channels \ {ch} : Quiet(k)'
      BY <1>2, <2>5 DEF NothingDue, Quiet
    <3>4. notifying' = Silent /\ misheard' = FALSE
      BY <1>1, <1>2 DEF PageInv, HearingPart
    <3>5. OneDue'
      BY <2>2, <2>5, <2>6, <2>7, <3>2, <3>3, <3>4 DEF OneDue
    <3> QED BY <3>4, <3>5 DEF HearingPart
  <2>12. PeersPart'
    BY <1>1, <1>2, <2>5, PeersKept DEF PageInv, PageTypes
  <2>13. CallsPart'
    <3>1. Calls \subseteq Channels
      BY BoundsAssumption DEF Calls, Channels
    <3> QED BY <1>1, <2>5, <3>1, CallsKept DEF PageInv
  <2>14. ToldPart'
    <3>1. ASSUME NEW id \in Ids, NEW k \in Channels, OwesState(id, k)'
          PROVE  /\ Ours(k)'
                 /\ Head(owed'[id]) = StateEvent(k)' /\ chan'[k].state \in {"open", "closed"}
      <4>1. k = ch /\ Head(owed'[id]) = event
        BY <2>2, <2>7, <3>1 DEF OwesState
      <4> QED BY <1>4, <2>1, <2>5, <2>10, <4>1
    <3>2. ASSUME NEW id \in Ids, NEW p \in Peers, latest'[p] # 0, ~OwesState(id, latest[p])'
          PROVE  Knows(id, p)'
      <4>1. latest[p] \in Channels /\ latest'[p] = latest[p]
        BY <1>1, <3>2 DEF PageInv, PageTypes
      <4>2. Knows(id, p)
        BY <2>7, <3>2, <4>1 DEF PageInv, ToldPart
      <4>3. CASE latest[p] # ch
        BY <1>1, <2>5, <4>1, <4>2, <4>3 DEF Knows
      <4>4. CASE latest[p] = ch
        <5>1. id \notin callbacks
          BY <2>2, <2>7, <3>2, <4>1, <4>4 DEF OwesState
        <5>2. told'[id][p] = "none"
          BY <1>1, <5>1 DEF PageInv, ToldPart
        <5> QED BY <5>2 DEF Knows
      <4> QED BY <4>3, <4>4
    <3>3. /\ \A id \in Ids \ callbacks', p \in Peers : told'[id][p] = "none"
          /\ \A id \in Ids, p \in Peers : told'[id][p] # "none" => latest'[p] # 0
      BY <1>1 DEF PageInv, ToldPart
    <3> QED BY <3>1, <3>2, <3>3 DEF ToldPart
  <2>15. IncomingPart'
    <3>1. NoIncoming'
      BY <2>3, <2>6 DEF NoIncoming
    <3> QED BY <1>1, <2>5, <3>1, IncomingKept DEF PageInv, SameEnds
  <2> QED BY <2>8, <2>9, <2>11, <2>12, <2>13, <2>14, <2>15 DEF PageInv
<1> QED BY <1>3, <1>4

LEMMA ChannelOpensKeeps == ASSUME PageInv, NEW ch \in Channels, ChannelOpens(ch) PROVE PageInv'
<1> DEFINE c == [chan[ch] EXCEPT !.state = "open", !.announced = TRUE]
<1>1. chan[ch] # NoChannel /\ Listener(ch, c, "DataChannelOpen")
  BY DEF ChannelOpens
<1>2. chan[ch] \in Channel
  BY <1>1, ChannelFacts DEF PageInv
<1>3. /\ c \in Channel /\ c.of = chan[ch].of /\ c.label = chan[ch].label
      /\ c.states = chan[ch].states /\ c.messages = chan[ch].messages
      /\ c.state = "open" /\ c.announced
  BY <1>2 DEF Channel, States
<1> HIDE DEF c
<1> QED BY <1>1, <1>3, ListenerKeeps

LEMMA ChannelClosedKeeps == ASSUME PageInv, NEW ch \in Channels, ChannelClosed(ch) PROVE PageInv'
<1> DEFINE c == [chan[ch] EXCEPT !.state = "closed"]
<1>1. chan[ch] # NoChannel /\ Listener(ch, c, "DataChannelClose")
  BY DEF ChannelClosed
<1>2. chan[ch] \in Channel
  BY <1>1, ChannelFacts DEF PageInv
<1>3. /\ c \in Channel /\ c.of = chan[ch].of /\ c.label = chan[ch].label
      /\ c.states = chan[ch].states /\ c.messages = chan[ch].messages /\ c.state = "closed"
  BY <1>2 DEF Channel, States
<1> HIDE DEF c
<1> QED BY <1>1, <1>3, ListenerKeeps

-----------------------------------------------------------------------------
(* A message arrives: a text is owed, the rest of the stream is not, and   *)
(* nobody listens to a channel whose stream has ended.                     *)
LEMMA MessageArrivesKeeps ==
    ASSUME PageInv, NEW ch \in Channels, NEW kind \in Kinds, MessageArrives(ch, kind)
    PROVE  PageInv'
<1>2. arrived' \in [offers : Nat, messages : 0..MaxMessages] /\ arrived'.messages \in 1..MaxMessages
  <2>1. arrived \in [offers : Nat, messages : 0..MaxMessages] /\ MaxMessages \in Nat
    BY BoundsAssumption DEF PageInv, PageTypes
  <2>2. /\ arrived.messages < MaxMessages
        /\ arrived' = [arrived EXCEPT !.messages = @ + 1]
    BY DEF MessageArrives
  <2>3. arrived.messages + 1 \in 1..MaxMessages /\ arrived.messages + 1 \in 0..MaxMessages
    BY <2>1, <2>2
  <2> QED BY <2>1, <2>2, <2>3
<1>6. PICK num \in 1..MaxMessages : num = arrived'.messages
  BY <1>2
<1> DEFINE m == [num |-> num, kind |-> kind]
           event == [type |-> "DataChannelMessage", channel |-> ch, num |-> num]
           task == T("message", ch)
           d == [chan[ch] EXCEPT !.messages = Queued(chan[ch].messages, m)]
<1>1. /\ AtRest /\ chan[ch] # NoChannel
      /\ UNCHANGED <<call, callbacks, nextId, notifying, peers, dc, told, misheard, early,
                     latest>>
      /\ IF chan[ch].live THEN chan' = [chan EXCEPT ![ch] = d] /\ Wake(<<task>>)
         ELSE UNCHANGED <<chan, ready>>
      /\ IF chan[ch].live /\ kind = "text" THEN Owe(event) ELSE UNCHANGED owed
  BY <1>6 DEF MessageArrives, registry, manager, heard
<1>3. /\ ready = <<>> /\ NothingDue /\ notifying = Silent /\ NoIncoming /\ \A t : ~InReady(t)
      /\ \A k \in Channels : chan[k] # NoChannel => chan[k].states = <<>> /\ chan[k].messages = <<>>
      /\ ready \in Seq(Task)
  BY <1>1, RestFacts, RestHasNoIncoming DEF AtRest, PageInv, PageTypes
<1>4. CASE ~chan[ch].live
  <2>1. PageTypes'
    BY <1>1, <1>2, <1>4 DEF PageInv, PageTypes
  <2>2. CallsPart'
    BY <1>1, <1>4 DEF PageInv, CallsPart
  <2>3. \A t : InReady(t)' = InReady(t)
    BY <1>1, <1>4, ReadyStays
  <2> QED BY <1>1, <1>3, <1>4, <2>1, <2>2, <2>3, OnlyTasksKeep
<1>5. CASE chan[ch].live
  <2>1. /\ d.of = chan[ch].of /\ d.label = chan[ch].label /\ d.state = chan[ch].state
        /\ d.states = <<>> /\ d.messages = <<m>> /\ d \in Channel
        /\ d.announced = chan[ch].announced
    <3> DEFINE Items == [num : 1..MaxMessages, kind : Kinds]
    <3>5. m \in Items /\ chan[ch].messages = <<>>
      BY <1>1, <1>3
    <3>2. chan[ch] \in Channel
      BY <1>1, ChannelFacts DEF PageInv
    <3>3. \A messages \in Seq(Items) : [chan[ch] EXCEPT !.messages = messages] \in Channel
      BY <3>2 DEF Channel
    <3> HIDE DEF m, Items
    <3>1. Queued(chan[ch].messages, m) = <<m>> /\ <<m>> \in Seq(Items)
      BY <3>5 DEF Queued
    <3>4. \A messages : LET c == [chan[ch] EXCEPT !.messages = messages] IN
              /\ c.of = chan[ch].of /\ c.label = chan[ch].label /\ c.state = chan[ch].state
              /\ c.states = chan[ch].states /\ c.messages = messages
              /\ c.announced = chan[ch].announced
      BY <3>2 DEF Channel
    <3> QED BY <1>1, <1>3, <3>1, <3>3, <3>4
  <2>2. event \in Event /\ ~Early(event)' /\ \A k \in Channels : event \notin StateEvents(k)
    BY <1>2 DEF Event, Early, StateEvents
  <2>3. task \in Task /\ task.kind = "message" /\ task.of = ch
    BY TaskTypes
  <2>4. kind = "text" => m = [num |-> num, kind |-> "text"]
    OBVIOUS
  <2>5. m.kind = kind
    OBVIOUS
  <2> HIDE DEF d, m, task
  <2>6. /\ chan'[ch] = d /\ d # NoChannel /\ \A k \in Channels \ {ch} : chan'[k] = chan[k]
        /\ chan' \in [Channels -> Channel \cup {NoChannel}]
        /\ SameEnds /\ SameChannels
    BY <1>1, <1>5, <2>1, Replaced DEF PageInv
  <2>7. /\ ready' \in Seq(Task) /\ ready' # <<>> /\ Head(ready') = task
        /\ \A t : InReady(t)' <=> t = task
    BY <1>1, <1>3, <1>5, <2>3, OneWoken
  <2>8. QuietStates(chan'[ch]) /\ \A k \in Channels \ {ch} : Quiet(k)'
    BY <1>3, <2>1, <2>6 DEF NothingDue, Quiet, QuietStates
  <2>9. /\ owed' \in [Ids -> Seq(Event)] /\ HearingPart'
        /\ \A id \in Ids, k \in Channels : ~OwesState(id, k) /\ ~OwesState(id, k)'
    <3>1. CASE kind = "text"
      <4>1. Owe(event)
        BY <1>1, <1>5, <3>1
      <4> HIDE DEF event
      <4>2. /\ owed' \in [Ids -> Seq(Event)] /\ DueTo(callbacks, event)'
            /\ \A id \in Ids, k \in Channels : ~OwesState(id, k) /\ ~OwesState(id, k)'
        BY <1>1, <1>3, <2>2, <4>1, OweFacts
      <4>3. MessageDue(ch, event)'
        BY <1>2, <2>1, <2>4, <2>6, <2>7, <2>8, <3>1 DEF MessageDue, task, event
      <4>4. notifying' = Silent /\ misheard' = FALSE
        BY <1>1, <1>3 DEF PageInv, HearingPart
      <4>5. OneDue'
        BY <2>2, <2>6, <2>7, <2>8, <4>2, <4>3, <4>4 DEF OneDue
      <4> QED BY <4>2, <4>4, <4>5 DEF HearingPart
    <3>2. CASE kind # "text"
      <4>1. Quiet(ch)'
        BY <2>1, <2>5, <2>6, <2>8, <3>2 DEF Quiet, QuietMessages
      <4>2. owed' = owed /\ OwedTo({}, NoEvent)' /\ notifying' = Silent /\ misheard' = FALSE
        BY <1>1, <1>3, <3>2 DEF NothingDue, OwedTo, PageInv, HearingPart
      <4>3. \A id \in Ids, k \in Channels : ~OwesState(id, k) /\ ~OwesState(id, k)'
        BY <1>3, <4>2 DEF NothingDue, OwedTo, OwesState
      <4> QED BY <2>8, <4>1, <4>2, <4>3 DEF HearingPart, NothingDue, PageInv, PageTypes
    <3> QED BY <3>1, <3>2
  <2>10. PageTypes'
    BY <1>1, <1>2, <2>6, <2>7, <2>9 DEF PageInv, PageTypes
  <2>11. ReadyPart'
    <3>1. ASSUME NEW k \in Channels, chan'[k] # NoChannel
          PROVE  /\ chan'[k].states # <<>> => InReady(T("state", k))'
                 /\ chan'[k].messages # <<>> => InReady(T("message", k))'
      BY <1>3, <2>1, <2>6, <2>7, <3>1 DEF task
    <3> QED BY <2>3, <2>6, <2>7, <3>1 DEF ReadyPart
  <2>12. PeersPart'
    BY <1>1, <1>3, <2>6, PeersKept DEF PageInv, PageTypes
  <2>13. CallsPart'
    <3>1. Calls \subseteq Channels
      BY BoundsAssumption DEF Calls, Channels
    <3> QED BY <1>1, <2>6, <3>1, CallsKept DEF PageInv
  <2>14. ToldPart'
    BY <1>1, <2>6, <2>9, ToldKept DEF PageInv, PageTypes
  <2>15. IncomingPart'
    <3>1. NoIncoming'
      BY <2>3, <2>7 DEF NoIncoming
    <3> QED BY <1>1, <2>6, <3>1, IncomingKept DEF PageInv, SameEnds
  <2> QED BY <2>9, <2>10, <2>11, <2>12, <2>13, <2>14, <2>15 DEF PageInv
<1> QED BY <1>4, <1>5

-----------------------------------------------------------------------------
(* The tasks on the streams. The task that took the last item leaves.      *)
LEMMA StreamTaskKeeps ==
    ASSUME PageInv, NEW ch \in Channels, NEW kind \in {"state", "message"}, Polled(T(kind, ch)),
           ready' = Tail(ready) \/ ready' = ready, SameChannels,
           \A k \in Channels \ {ch} : chan'[k] = chan[k],
           chan' \in [Channels -> Channel \cup {NoChannel}],
           chan[ch].states = <<>> => chan'[ch].states = <<>>,
           chan[ch].messages = <<>> => chan'[ch].messages = <<>>,
           kind = "state" /\ ready' # ready => chan'[ch].states = <<>>,
           kind = "message" /\ ready' # ready => chan'[ch].messages = <<>>,
           HearingPart', notifying' \in [event : Event \cup {NoEvent}, left : SUBSET callbacks],
           UNCHANGED <<call, callbacks, nextId, peers, dc, arrived, owed, told, misheard,
                       early, latest>>
    PROVE  PageInv'
<1> DEFINE task == T(kind, ch)
<1>1. /\ task \in Task /\ task.kind = kind /\ task.of = ch
      /\ \A k \in Channels : /\ T("state", k) \in Task /\ T("message", k) \in Task
                             /\ T("state", k) = task => kind = "state" /\ k = ch
                             /\ T("message", k) = task => kind = "message" /\ k = ch
      /\ \A k \in Channels : T("incoming", k) \in Task /\ T("incoming", k).kind = "incoming"
  BY TaskTypes
<1>2. ready # <<>> /\ Head(ready) = task /\ NoIncoming /\ ready \in Seq(Task)
  BY <1>1, PolledFacts DEF PageInv, PageTypes
<1> HIDE DEF task
<1>3. /\ ready' \in Seq(Task) /\ \A t : InReady(t)' => InReady(t)
      /\ \A t : InReady(t) /\ t # task => InReady(t)'
      /\ ready' = ready => \A t : InReady(t) => InReady(t)'
  BY <1>2, FirstTaskDone, ReadyStays
<1>4. PageTypes'
  BY <1>3 DEF PageInv, PageTypes
<1>5. ReadyPart'
  <2>1. \A t \in Task : InReady(t)' /\ t.kind \in {"state", "message", "incoming"} =>
            t.of \in Channels /\ chan'[t.of] # NoChannel
    BY <1>3 DEF PageInv, ReadyPart, SameChannels
  <2>2. \A t \in Task : InReady(t)' => t.kind # "incoming"
    BY <1>2, <1>3 DEF NoIncoming
  <2>3. ASSUME NEW k \in Channels, chan'[k] # NoChannel, chan'[k].states # <<>>
        PROVE  InReady(T("state", k))'
    <3>1. InReady(T("state", k))
      BY <2>3 DEF PageInv, ReadyPart, SameChannels
    <3>2. T("state", k) = task => ready' = ready
      BY <1>1, <2>3
    <3> QED BY <1>3, <3>1, <3>2
  <2>4. ASSUME NEW k \in Channels, chan'[k] # NoChannel, chan'[k].messages # <<>>
        PROVE  InReady(T("message", k))'
    <3>1. InReady(T("message", k))
      BY <2>4 DEF PageInv, ReadyPart, SameChannels
    <3>2. T("message", k) = task => ready' = ready
      BY <1>1, <2>4
    <3> QED BY <1>3, <3>1, <3>2
  <2> QED BY <2>1, <2>2, <2>3, <2>4 DEF ReadyPart
<1>6. \A k \in Channels : ~InReady(T("incoming", k))
  BY <1>1, <1>2 DEF NoIncoming
<1>7. PeersPart'
  BY <1>6, PeersKept, SameHasEnds DEF PageInv, PageTypes
<1>8. CallsPart'
  <2>1. Calls \subseteq Channels
    BY BoundsAssumption DEF Calls, Channels
  <2> QED BY <2>1, CallsKept, SameHasEnds DEF PageInv
<1>9. ToldPart'
  BY ToldKept DEF PageInv, PageTypes, OwesState
<1>10. IncomingPart'
  <2>1. NoIncoming'
    BY <1>2, <1>3 DEF NoIncoming
  <2> QED BY <2>1, IncomingKept DEF PageInv, SameChannels
<1> QED BY <1>4, <1>5, <1>7, <1>8, <1>9, <1>10 DEF PageInv

LEMMA AfterFacts ==
    ASSUME NEW S, NEW queue \in Seq(S)
    PROVE  /\ After(queue) = ready \/ After(queue) = Tail(ready)
           /\ queue = <<>> => After(queue) = Tail(ready)
           /\ queue # <<>> => /\ Tail(queue) \in Seq(S) /\ Head(queue) \in S
                              /\ Tail(queue) = <<>> \/ After(queue) = ready
                              /\ Head(queue) = queue[1]
                              /\ \A i \in 1..Len(Tail(queue)) :
                                     i + 1 \in 1..Len(queue) /\ Tail(queue)[i] = queue[i + 1]
                              /\ 1 \in 1..Len(queue)
<1>1. After(queue) = ready \/ After(queue) = Tail(ready)
  BY DEF After
<1>2. queue = <<>> => Len(queue) = 0
  OBVIOUS
<1>3. queue = <<>> => After(queue) = Tail(ready)
  BY <1>2 DEF After
<1>4. ASSUME queue # <<>>
      PROVE  /\ Tail(queue) \in Seq(S) /\ Head(queue) \in S
             /\ Head(queue) = queue[1]
             /\ \A i \in 1..Len(Tail(queue)) :
                    i + 1 \in 1..Len(queue) /\ Tail(queue)[i] = queue[i + 1]
             /\ 1 \in 1..Len(queue)
             /\ Len(Tail(queue)) = Len(queue) - 1 /\ Len(queue) \in Nat /\ Len(queue) > 0
  BY <1>4
<1>5. ASSUME queue # <<>>, After(queue) # ready PROVE Tail(queue) = <<>>
  <2>1. ~(Len(queue) > 1)
    BY <1>5 DEF After
  <2>5. /\ Tail(queue) \in Seq(S) /\ Len(Tail(queue)) = Len(queue) - 1
        /\ Len(queue) \in Nat /\ Len(queue) > 0
    BY <1>4, <1>5
  <2> DEFINE n == Len(queue)
             k == Len(Tail(queue))
  <2> HIDE DEF n, k
  <2>6. n \in Nat /\ n > 0 /\ ~(n > 1) /\ k = n - 1
    BY <2>1, <2>5 DEF n, k
  <2>7. k = 0
    BY <2>6
  <2>3. Len(Tail(queue)) = 0 /\ Tail(queue) \in Seq(S)
    BY <2>5, <2>7 DEF k
  <2>4. \A s \in Seq(S) : Len(s) = 0 => s = <<>>
    OBVIOUS
  <2> QED BY <2>3, <2>4
<1> QED BY <1>1, <1>3, <1>4, <1>5

(* What is due when a task on a stream is polled is in its own stream.     *)
LEMMA DueToTask ==
    ASSUME PageInv, NEW ch \in Channels, NEW kind \in {"state", "message"}, Polled(T(kind, ch))
    PROVE  /\ chan[ch] # NoChannel /\ chan[ch] \in Channel /\ notifying = Silent
           /\ misheard = FALSE
           /\ notifying \in [event : Event \cup {NoEvent}, left : SUBSET callbacks]
           /\ \/ NothingDue
              \/ /\ \A k \in Channels \ {ch} : Quiet(k)
                 /\ \E event \in Event :
                        /\ DueTo(callbacks, event)
                        /\ \/ kind = "state" /\ StateDue(ch, event)
                           \/ kind = "message" /\ MessageDue(ch, event)
<1>1. /\ T(kind, ch) \in Task /\ T(kind, ch).kind = kind /\ T(kind, ch).of = ch
      /\ \A k \in Channels : /\ T("state", k) = T(kind, ch) => kind = "state" /\ k = ch
                             /\ T("message", k) = T(kind, ch) => kind = "message" /\ k = ch
  BY TaskTypes
<1>2. /\ Head(ready) = T(kind, ch) /\ InReady(T(kind, ch)) /\ notifying = Silent
      /\ NothingDue \/ OneDue
  BY <1>1, PolledFacts
<1>3. chan[ch] # NoChannel
  BY <1>1, <1>2 DEF PageInv, ReadyPart
<1>4. chan[ch] \in Channel
  BY <1>3, ChannelFacts DEF PageInv
<1>5. CASE OneDue
  <2>1. PICK k \in Channels, event \in Event :
            /\ StateDue(k, event) \/ MessageDue(k, event)
            /\ DueTo(callbacks, event) /\ \A j \in Channels \ {k} : Quiet(j)
    BY <1>5 DEF OneDue
  <2>5. /\ StateDue(k, event) => Head(ready) = T("state", k)
        /\ MessageDue(k, event) => Head(ready) = T("message", k)
    BY DEF StateDue, MessageDue
  <2>2. /\ k = ch
        /\ \/ kind = "state" /\ StateDue(k, event)
           \/ kind = "message" /\ MessageDue(k, event)
    BY <1>1, <1>2, <2>1, <2>5
  <2>3. /\ \A j \in Channels \ {ch} : Quiet(j)
        /\ DueTo(callbacks, event)
        /\ \/ kind = "state" /\ StateDue(ch, event)
           \/ kind = "message" /\ MessageDue(ch, event)
    BY <2>1, <2>2
  <2>4. \/ NothingDue
        \/ /\ \A j \in Channels \ {ch} : Quiet(j)
           /\ \E e \in Event : /\ DueTo(callbacks, e)
                               /\ \/ kind = "state" /\ StateDue(ch, e)
                                  \/ kind = "message" /\ MessageDue(ch, e)
    BY <2>3
  <2> QED BY <1>2, <1>3, <1>4, <2>4 DEF PageInv, PageTypes, HearingPart
<1> QED BY <1>2, <1>3, <1>4, <1>5 DEF PageInv, PageTypes, HearingPart

(* The event is what the state of the channel is.                          *)
LEMMA RunStateKeeps == ASSUME PageInv, NEW ch \in Channels, RunState(ch) PROVE PageInv'
<1> DEFINE queue == chan[ch].states
           c == [chan[ch] EXCEPT !.states = Tail(queue)]
           opened == [type |-> "DataChannelOpen", channel |-> ch]
           closed == [type |-> "DataChannelClose", channel |-> ch]
<1>1. /\ Polled(T("state", ch)) /\ ready' = After(queue)
      /\ UNCHANGED <<call, callbacks, nextId, peers, dc, arrived, owed, told, misheard, early,
                     latest>>
      /\ queue = <<>> => UNCHANGED <<chan, notifying>>
      /\ queue # <<>> =>
             /\ chan' = [chan EXCEPT ![ch] = c]
             /\ Head(queue) = "open" => Notify(opened)
             /\ Head(queue) = "closed" => Notify(closed)
             /\ Head(queue) \notin {"open", "closed"} => notifying' = notifying
  <2>1. CASE queue = <<>>
    BY <2>1 DEF RunState, registry, manager, history, heard
  <2>2. CASE queue # <<>>
    BY <2>2 DEF RunState, registry, manager, history, heard
  <2> QED BY <2>1, <2>2
<1>2. /\ chan[ch] # NoChannel /\ chan[ch] \in Channel /\ notifying = Silent
      /\ misheard = FALSE
      /\ notifying \in [event : Event \cup {NoEvent}, left : SUBSET callbacks]
      /\ \/ NothingDue
         \/ /\ \A k \in Channels \ {ch} : Quiet(k)
            /\ \E event \in Event : DueTo(callbacks, event) /\ StateDue(ch, event)
  BY <1>1, DueToTask
<1>3. queue \in Seq(States)
  BY <1>2 DEF Channel
<1>4. opened \in Event /\ closed \in Event
  BY DEF Event
<1>5. CASE queue = <<>>
  <2>1. ready' = Tail(ready)
    BY <1>1, <1>3, <1>5, AfterFacts
  <2>2. NothingDue
    BY <1>2, <1>5 DEF StateDue
  <2>3. HearingPart'
    BY <1>1, <1>2, <1>5, <2>2, NothingDueKept
  <2>4. chan \in [Channels -> Channel \cup {NoChannel}]
    BY DEF PageInv, PageTypes
  <2>5. SameChannels
    BY <1>1, <1>5 DEF SameChannels
  <2> HIDE DEF c, opened, closed
  <2> QED BY <1>1, <1>2, <1>5, <2>1, <2>3, <2>4, <2>5, StreamTaskKeeps
<1>6. CASE queue # <<>>
  <2>1. /\ ready' = ready \/ ready' = Tail(ready)
        /\ Tail(queue) \in Seq(States) /\ Head(queue) = queue[1] /\ 1 \in 1..Len(queue)
        /\ Tail(queue) = <<>> \/ ready' = ready
        /\ \A i \in 1..Len(Tail(queue)) :
               i + 1 \in 1..Len(queue) /\ Tail(queue)[i] = queue[i + 1]
    BY <1>1, <1>3, <1>6, AfterFacts
  <2>2. /\ c \in Channel /\ c.of = chan[ch].of /\ c.label = chan[ch].label
        /\ c.state = chan[ch].state /\ c.states = Tail(queue) /\ c.messages = chan[ch].messages
        /\ c.announced = chan[ch].announced
    BY <1>2, <2>1 DEF Channel
  <2> HIDE DEF c, opened, closed
  <2>3. /\ chan'[ch] = c /\ \A k \in Channels \ {ch} : chan'[k] = chan[k]
        /\ chan' \in [Channels -> Channel \cup {NoChannel}] /\ SameChannels
    BY <1>1, <1>2, <1>6, <2>2, Replaced DEF PageInv
  <2>4. notifying' \in [event : Event \cup {NoEvent}, left : SUBSET callbacks]
    BY <1>1, <1>2, <1>4, <1>6, NotifyTypes
  <2>5. CASE NothingDue
    <3>1. Quiet(ch) /\ \A k \in Channels : Quiet(k)
      BY <2>5 DEF NothingDue
    <3>2. QuietStates(chan[ch]) /\ QuietMessages(chan[ch])
      BY <1>2, <3>1 DEF Quiet
    <3>3. Head(queue) \notin {"open", "closed"}
      BY <2>1, <3>2 DEF QuietStates
    <3>4. Quiet(ch)'
      <4>1. ASSUME NEW i \in 1..Len(Tail(queue)) PROVE Tail(queue)[i] \notin {"open", "closed"}
        <5>1. i + 1 \in 1..Len(queue) /\ Tail(queue)[i] = queue[i + 1]
          BY <2>1
        <5> QED BY <3>2, <5>1 DEF QuietStates
      <4>2. QuietStates(chan'[ch])
        BY <2>2, <2>3, <4>1 DEF QuietStates
      <4>3. QuietMessages(chan'[ch])
        BY <2>2, <2>3, <3>2 DEF QuietMessages
      <4> QED BY <4>2, <4>3 DEF Quiet
    <3>5. \A k \in Channels : Quiet(k)'
      BY <2>3, <3>1, <3>4 DEF Quiet
    <3>6. notifying' = Silent /\ OwedTo({}, NoEvent)' /\ misheard' = FALSE
      BY <1>1, <1>2, <1>6, <2>5, <3>3 DEF NothingDue, OwedTo
    <3>7. HearingPart'
      BY <3>5, <3>6 DEF HearingPart, NothingDue
    <3> QED BY <1>1, <2>1, <2>2, <2>3, <2>4, <3>7, StreamTaskKeeps
  <2>6. ASSUME NEW event \in Event, DueTo(callbacks, event), StateDue(ch, event),
               \A k \in Channels \ {ch} : Quiet(k)
        PROVE  PageInv'
    <3>1. /\ QuietMessages(chan[ch]) /\ queue = <<chan[ch].state>>
          /\ chan[ch].state \in {"open", "closed"} /\ event = StateEvent(ch)
      BY <2>6 DEF StateDue
    <3>2. Head(queue) = chan[ch].state /\ Tail(queue) = <<>>
      BY <3>1
    <3>3. Notify(event)
      BY <1>1, <1>6, <3>1, <3>2 DEF StateEvent, opened, closed
    <3>4. Quiet(ch)'
      BY <2>2, <2>3, <3>1, <3>2 DEF Quiet, QuietStates, QuietMessages
    <3>5. \A k \in Channels : Quiet(k)'
      BY <2>3, <2>6, <3>4 DEF Quiet
    <3>6. DueTo(callbacks, event)' /\ misheard' = FALSE
      BY <1>1, <1>2, <2>3, <2>6, DueKept
    <3>7. HearingPart'
      BY <1>1, <3>3, <3>5, <3>6, NotifyKeeps
    <3> QED BY <1>1, <2>1, <2>2, <2>3, <2>4, <3>7, StreamTaskKeeps
  <2> QED BY <1>2, <2>5, <2>6
<1> QED BY <1>5, <1>6

LEMMA RunMessageKeeps == ASSUME PageInv, NEW ch \in Channels, RunMessage(ch) PROVE PageInv'
<1> DEFINE queue == chan[ch].messages
           m == Head(queue)
           c == [chan[ch] EXCEPT !.messages = Tail(queue), !.live = m.kind # "blob"]
           news == [type |-> "DataChannelMessage", channel |-> ch, num |-> m.num]
           Items == [num : 1..MaxMessages, kind : Kinds]
<1>1. /\ Polled(T("message", ch)) /\ ready' = After(queue)
      /\ UNCHANGED <<call, callbacks, nextId, peers, dc, arrived, owed, told, misheard, early,
                     latest>>
      /\ queue = <<>> => UNCHANGED <<chan, notifying>>
      /\ queue # <<>> =>
             /\ chan' = [chan EXCEPT ![ch].messages = Tail(@), ![ch].live = m.kind # "blob"]
             /\ m.kind = "text" => Notify(news)
             /\ m.kind # "text" => notifying' = notifying
  BY DEF RunMessage, registry, manager, history, heard
<1>2. /\ chan[ch] # NoChannel /\ chan[ch] \in Channel /\ notifying = Silent
      /\ misheard = FALSE
      /\ notifying \in [event : Event \cup {NoEvent}, left : SUBSET callbacks]
      /\ \/ NothingDue
         \/ /\ \A k \in Channels \ {ch} : Quiet(k)
            /\ \E event \in Event : DueTo(callbacks, event) /\ MessageDue(ch, event)
  BY <1>1, DueToTask
<1>3. queue \in Seq(Items)
  BY <1>2 DEF Channel
<1>4. chan \in [Channels -> Channel \cup {NoChannel}]
  BY DEF PageInv, PageTypes
<1>5. CASE queue = <<>>
  <2>1. ready' = Tail(ready)
    BY <1>1, <1>3, <1>5, AfterFacts
  <2>2. NothingDue
    BY <1>2, <1>5 DEF MessageDue
  <2>3. HearingPart'
    BY <1>1, <1>2, <1>5, <2>2, NothingDueKept
  <2>4. SameChannels
    BY <1>1, <1>5 DEF SameChannels
  <2> QED BY <1>1, <1>2, <1>4, <1>5, <2>1, <2>3, <2>4, StreamTaskKeeps
<1>6. CASE queue # <<>>
  <2>1. /\ ready' = ready \/ ready' = Tail(ready)
        /\ Tail(queue) \in Seq(Items) /\ m \in Items /\ m = queue[1] /\ 1 \in 1..Len(queue)
        /\ Tail(queue) = <<>> \/ ready' = ready
        /\ \A i \in 1..Len(Tail(queue)) :
               i + 1 \in 1..Len(queue) /\ Tail(queue)[i] = queue[i + 1]
    BY <1>1, <1>3, <1>6, AfterFacts
  <2>2. /\ c \in Channel /\ c.of = chan[ch].of /\ c.label = chan[ch].label
        /\ c.state = chan[ch].state /\ c.states = chan[ch].states /\ c.messages = Tail(queue)
        /\ c.announced = chan[ch].announced
    BY <1>2, <2>1 DEF Channel
  <2>3. news \in Event
    BY <2>1 DEF Event
  <2>4. chan' = [chan EXCEPT ![ch] = c]
    BY <1>1, <1>4, <1>6
  <2> HIDE DEF c, news, m
  <2>5. /\ chan'[ch] = c /\ \A k \in Channels \ {ch} : chan'[k] = chan[k]
        /\ chan' \in [Channels -> Channel \cup {NoChannel}] /\ SameChannels
    BY <1>2, <2>2, <2>4, Replaced DEF PageInv
  <2>6. notifying' \in [event : Event \cup {NoEvent}, left : SUBSET callbacks]
    BY <1>1, <1>2, <1>6, <2>3, NotifyTypes
  <2>7. CASE NothingDue
    <3>1. Quiet(ch) /\ \A k \in Channels : Quiet(k)
      BY <2>7 DEF NothingDue
    <3>2. QuietStates(chan[ch]) /\ QuietMessages(chan[ch])
      BY <1>2, <3>1 DEF Quiet
    <3>3. m.kind # "text"
      BY <2>1, <3>2 DEF QuietMessages
    <3>4. Quiet(ch)'
      <4>1. ASSUME NEW i \in 1..Len(Tail(queue)) PROVE Tail(queue)[i].kind # "text"
        <5>1. i + 1 \in 1..Len(queue) /\ Tail(queue)[i] = queue[i + 1]
          BY <2>1
        <5> QED BY <3>2, <5>1 DEF QuietMessages
      <4>2. QuietMessages(chan'[ch])
        BY <2>2, <2>5, <4>1 DEF QuietMessages
      <4>3. QuietStates(chan'[ch])
        BY <2>2, <2>5, <3>2 DEF QuietStates
      <4> QED BY <4>2, <4>3 DEF Quiet
    <3>5. \A k \in Channels : Quiet(k)'
      BY <2>5, <3>1, <3>4 DEF Quiet
    <3>6. notifying' = Silent /\ OwedTo({}, NoEvent)' /\ misheard' = FALSE
      BY <1>1, <1>2, <1>6, <2>7, <3>3 DEF NothingDue, OwedTo
    <3>7. HearingPart'
      BY <3>5, <3>6 DEF HearingPart, NothingDue
    <3> QED BY <1>1, <2>1, <2>2, <2>5, <2>6, <3>7, StreamTaskKeeps
  <2>8. ASSUME NEW event \in Event, DueTo(callbacks, event), MessageDue(ch, event),
               \A k \in Channels \ {ch} : Quiet(k)
        PROVE  PageInv'
    <3>1. PICK num \in 1..MaxMessages :
              /\ QuietStates(chan[ch]) /\ queue = <<[num |-> num, kind |-> "text"]>>
              /\ event = [type |-> "DataChannelMessage", channel |-> ch, num |-> num]
      BY <2>8 DEF MessageDue
    <3>2. m = [num |-> num, kind |-> "text"] /\ Tail(queue) = <<>>
      BY <3>1 DEF m
    <3>3. Notify(event)
      BY <1>1, <1>6, <3>1, <3>2 DEF news
    <3>4. Quiet(ch)'
      BY <2>2, <2>5, <3>1, <3>2 DEF Quiet, QuietStates, QuietMessages
    <3>5. \A k \in Channels : Quiet(k)'
      BY <2>5, <2>8, <3>4 DEF Quiet
    <3>6. DueTo(callbacks, event)' /\ misheard' = FALSE
      BY <1>1, <1>2, <2>5, <2>8, DueKept
    <3>7. HearingPart'
      BY <1>1, <3>3, <3>5, <3>6, NotifyKeeps
    <3> QED BY <1>1, <2>1, <2>2, <2>5, <2>6, <3>7, StreamTaskKeeps
  <2> QED BY <1>2, <2>7, <2>8
<1> QED BY <1>5, <1>6

-----------------------------------------------------------------------------
LEMMA PageInvInit == Init => PageInv
<1> SUFFICES ASSUME Init PROVE PageInv
  OBVIOUS
<1>1. \A ch \in Channels : chan[ch] = NoChannel
  BY DEF Init
<1>2. \A t : ~InReady(t)
  BY NoTaskReady DEF Init
<1>3. PageTypes
  <2>1. owed \in [Ids -> Seq(Event)]
    BY DEF Init
  <2>2. told \in [Ids -> [Peers -> {"none", "DataChannelOpen", "DataChannelClose"}]]
    BY DEF Init
  <2>3. /\ call \in [Calls -> CallType] /\ notifying \in [event : Event \cup {NoEvent}, left : SUBSET callbacks]
        /\ arrived \in [offers : Nat, messages : 0..MaxMessages]
    BY BoundsAssumption DEF Init, CallType, Silent
  <2>4. ready \in Seq(Task) /\ chan \in [Channels -> Channel \cup {NoChannel}]
    BY DEF Init
  <2>5. early \in [Ids -> SUBSET Channels] /\ latest \in [Peers -> {0} \cup Channels]
    BY DEF Init
  <2> QED BY <2>1, <2>2, <2>3, <2>4, <2>5 DEF Init, PageTypes
<1>4. ReadyPart
  BY <1>1, <1>2 DEF ReadyPart
<1>5. HearingPart
  BY <1>1 DEF Init, HearingPart, NothingDue, OwedTo, Quiet
<1>6. PeersPart
  BY <1>1 DEF Init, PeersPart, Ours
<1>7. CallsPart
  <2>1. \A n \in Calls : chan[n] = NoChannel /\ call[n] = Unused
    BY <1>1, BoundsAssumption DEF Init, Calls, Channels
  <2> QED BY <2>1 DEF CallsPart
<1>8. ToldPart
  BY <1>1 DEF Init, ToldPart, OwesState
<1>9. IncomingPart
  BY <1>2 DEF Init, IncomingPart
<1> QED BY <1>3, <1>4, <1>5, <1>6, <1>7, <1>8, <1>9 DEF PageInv

LEMMA PageInvStutters == ASSUME PageInv, UNCHANGED vars PROVE PageInv'
<1>1. UNCHANGED <<call, callbacks, nextId, notifying, peers, dc, chan, ready, arrived, owed,
                  told, misheard, early, latest>>
  BY DEF vars, registry, manager, history, heard
<1>2. PageTypes'
  BY <1>1 DEF PageInv, PageTypes
<1>3. (\A t : InReady(t)' = InReady(t)) /\ SameChannels
  BY <1>1, ReadyStays DEF SameChannels
<1>4. ReadyPart'
  BY <1>1, <1>3 DEF PageInv, ReadyPart
<1>5. HearingPart'
  <2>1. \A ch \in Channels : Quiet(ch)' = Quiet(ch)
    BY <1>1 DEF Quiet
  <2>2. \A ch \in Channels, event \in Event :
            /\ StateDue(ch, event)' = StateDue(ch, event)
            /\ MessageDue(ch, event)' = MessageDue(ch, event)
            /\ DueTo(callbacks, event)' = DueTo(callbacks, event)
    BY <1>1 DEF StateDue, MessageDue, StateEvent, DueTo, OwedTo, Early, Ours
  <2>3. OneDue => OneDue'
    BY <1>1, <2>1, <2>2 DEF OneDue
  <2>4. NothingDue => NothingDue'
    BY <1>1, <2>1 DEF NothingDue, OwedTo
  <2>5. BeingNotified => BeingNotified'
    BY <1>1, <2>1 DEF BeingNotified, DueTo, OwedTo, Early, Ours
  <2> QED BY <1>1, <2>3, <2>4, <2>5 DEF PageInv, HearingPart
<1>6. PeersPart' /\ CallsPart'
  <2>1. Calls \subseteq Channels
    BY BoundsAssumption DEF Calls, Channels
  <2> QED BY <1>1, <1>3, <2>1, PeersKept, CallsKept, SameHasEnds DEF PageInv, PageTypes
<1>7. ToldPart'
  BY <1>1, <1>3, ToldKept DEF PageInv, PageTypes, OwesState
<1>8. IncomingPart'
  BY <1>1, <1>3 DEF PageInv, IncomingPart, Ours
<1> QED BY <1>2, <1>4, <1>5, <1>6, <1>7, <1>8 DEF PageInv

LEMMA PageInvNext == PageInv /\ [Next]_vars => PageInv'
<1> SUFFICES ASSUME PageInv, [Next]_vars PROVE PageInv'
  OBVIOUS
<1>1. CASE Run
  BY <1>1, RunReaderKeeps, ConnectKeeps, CreateKeeps, SendMessageKeeps, RunIncomingKeeps,
     OtherIncomingKeeps, RunStateKeeps, RunMessageKeeps, InvokeKeeps DEF Run
<1>2. CASE Browser
  BY <1>2, ServerMessageKeeps, CallReturnsKeeps, ChannelOpensKeeps, ChannelClosesKeeps,
     ChannelClosedKeeps, MessageArrivesKeeps, IncomingKeeps DEF Browser
<1>3. CASE Script
  BY <1>3, ScriptKeeps
<1>4. CASE UNCHANGED vars
  BY <1>4, PageInvStutters
<1> QED BY <1>1, <1>2, <1>3, <1>4 DEF Next

LEMMA HeardWhenAtRest == PageInv => HeardInOrder
<1> SUFFICES ASSUME PageInv PROVE HeardInOrder
  OBVIOUS
<1>1. ~misheard /\ callbacks \subseteq Ids
  BY DEF PageInv, HearingPart, PageTypes
<1>2. ASSUME AtRest, NEW id \in callbacks PROVE owed[id] = <<>>
  BY <1>1, <1>2, RestFacts DEF NothingDue, OwedTo
<1> QED BY <1>1, <1>2 DEF HeardInOrder

(* At rest nobody is owed anything, so what a callback knows of the        *)
(* youngest channel of a peer is true, and the peer has this channel.      *)
LEMMA ToldWhenAtRest == PageInv => EventsTellWhatWorks
<1> SUFFICES ASSUME PageInv, AtRest, NEW id \in callbacks, NEW p \in Peers
             PROVE  /\ told[id][p] = "DataChannelOpen" =>
                           Sends(p) = "sent" \/ chan[latest[p]].state = "closing"
                    /\ told[id][p] = "DataChannelClose" => Sends(p) = "not open"
  BY Zenon DEF EventsTellWhatWorks
<1>1. id \in Ids
  BY DEF PageInv, PageTypes
<1>2. SUFFICES ASSUME told[id][p] # "none"
               PROVE  /\ told[id][p] = "DataChannelOpen" =>
                             Sends(p) = "sent" \/ chan[latest[p]].state = "closing"
                      /\ told[id][p] = "DataChannelClose" => Sends(p) = "not open"
  OBVIOUS
<1>3. latest[p] # 0 /\ latest[p] \in Channels
  BY <1>1, <1>2 DEF PageInv, PageTypes, ToldPart
<1>4. ~OwesState(id, latest[p])
  BY <1>1, RestFacts DEF NothingDue, OwedTo, OwesState
<1>5. Knows(id, p)
  BY <1>1, <1>3, <1>4 DEF PageInv, ToldPart
<1>6. dc[p] = latest[p] /\ dc[p] # 0 /\ p \in peers
  BY <1>3, RestFacts DEF PageInv, PeersPart, Ours
<1> QED BY <1>5, <1>6 DEF Knows, Sends, SendStr

(* Whatever the page's callbacks and the other callbacks do, and however   *)
(* the tasks of several channels interleave, a callback hears all that     *)
(* happens while it is registered, once and in order; of a channel the     *)
(* other side opened it hears once more, and before its open event.        *)
THEOREM CallbacksHearInOrder == Spec => []HeardInOrder
<1>1. Spec => []PageInv
  BY PageInvInit, PageInvNext, PTL DEF Spec
<1> QED BY <1>1, HeardWhenAtRest, PTL

(* A page that has heard that the youngest channel of a peer is open, or is*)
(* closed, can rely on what sendMessageToPeer then does, however many      *)
(* channels the two sides have opened.                                     *)
THEOREM EventsAreTrue == Spec => []EventsTellWhatWorks
<1>1. Spec => []PageInv
  BY PageInvInit, PageInvNext, PTL DEF Spec
<1> QED BY <1>1, ToldWhenAtRest, PTL
=============================================================================
