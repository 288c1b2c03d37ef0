----------------------------- MODULE ClientPage -----------------------------
(***************************************************************************)
(* The Client of sf-wasm in its page: the callbacks the page registers, its*)
(* calls that are promises, and the data channels whose streams the client *)
(* turns into events. A page has one thread: the browser fires an event at *)
(* the listeners of a stream only when all tasks of wasm-bindgen-futures   *)
(* have run (ready is empty), and a callback of the page runs inside the   *)
(* task that notifies. What the peers negotiate is in Negotiation.         *)
(***************************************************************************)
EXTENDS Naturals, Sequences, FiniteSets

CONSTANTS
    Peers,
    MaxCallbacks,   \* callbacks registered in all (bound)
    MaxCalls,       \* connectToPeer and sendMessageToPeer (bound)
    MaxIncoming,    \* data channels the other sides open (bound)
    MaxMessages,    \* messages that arrive on all channels (bound)
    MaxOffers       \* offers the server delivers (bound)

ASSUME BoundsAssumption ==
    {MaxCallbacks, MaxCalls, MaxIncoming, MaxMessages, MaxOffers} \subseteq Nat

Ids      == 0..(MaxCallbacks - 1)
Calls    == 1..MaxCalls

(* A channel this side opens has the number of the call that does.         *)
Channels == 1..(MaxCalls + MaxIncoming)

VARIABLES
    lost,       \* the wrapper's mutable borrow was never given back
    call,       \* the promises: each holds a shared borrow of the wrapper
    callbacks,  \* JsCallbackManager: the identifiers in the map
    nextId,     \* JsCallbackManager.next_id
    notifying,  \* the event being notified and the callbacks still to call
    peers,      \* PeerManager.peers
    dc,         \* the data channel each peer has now, or 0
    chan,       \* the browser's data channels and the streams on them
    ready,      \* the tasks to be polled, first in first out
    arrived,    \* messages of the server and of the channels so far
    owed,       \* history: what each callback is still to hear, in order
    early,      \* history: the channels it was told of before their open event
    latest,     \* history: the youngest channel of each peer, or 0
    told,       \* history: the last word each callback heard of that channel
    misheard    \* history: a callback heard what was not its turn

registry == <<lost, callbacks, nextId>>
manager  == <<peers, dc>>
heard    == <<early, told, misheard>>
history  == <<owed, latest, heard>>
vars     == <<registry, call, notifying, manager, chan, ready, arrived, history>>

(* ClientEvent. A Message of the server takes the way of NewPeer.          *)
Event ==
    [type : {"NewPeer"}, peer : Peers]
        \cup [type : {"DataChannelOpen", "DataChannelClose"}, channel : Channels]
        \cup [type : {"DataChannelMessage"}, channel : Channels, num : 1..MaxMessages]
NoEvent == [type |-> "none"]
Silent  == [event |-> NoEvent, left |-> {}]

Unused    == [op |-> "unused"]
Done      == [op |-> "done"]
NoChannel == [state |-> "none"]
States    == {"connecting", "open", "closing", "closed"}
Kinds     == {"text", "binary", "blob"}
Labels    == {"sf-channel", "other"}
Task      == [kind : {"state", "message", "incoming", "call", "reader"}, of : Channels \cup Peers]

(* A channel of the browser: states and messages are the queues of the two *)
(* streams, live whether the tasks on them still run, announced whether    *)
(* its open event has been fired.                                          *)
Channel ==
    [of : Peers, label : Labels, state : States, announced : BOOLEAN,
     live : BOOLEAN, states : Seq(States), messages : Seq([num : 1..MaxMessages, kind : Kinds])]

TypeOK ==
    /\ lost \in BOOLEAN
    /\ call \in [Calls -> {Unused, Done} \cup
            [op : {"connect", "send"}, to : Peers, step : {"start", "channel", "wait"}]]
    /\ callbacks \subseteq 0..(nextId - 1) /\ nextId \in 0..MaxCallbacks
    /\ notifying \in [event : Event \cup {NoEvent}, left : SUBSET callbacks]
    /\ peers \subseteq Peers /\ dc \in [Peers -> {0} \cup Channels]
    /\ \A ch \in Channels : chan[ch] \in Channel \cup {NoChannel}
    /\ ready \in Seq(Task)
    /\ arrived \in [offers : 0..MaxOffers, messages : 0..MaxMessages]
    /\ owed \in [Ids -> Seq(Event)] /\ misheard \in BOOLEAN
    /\ early \in [Ids -> SUBSET Channels] /\ latest \in [Peers -> {0} \cup Channels]
    /\ told \in [Ids -> [Peers -> {"none", "DataChannelOpen", "DataChannelClose"}]]

(* Client::new, in a page that has connected its WebSocket.                *)
Init ==
    /\ lost = FALSE /\ call = [n \in Calls |-> Unused]
    /\ callbacks = {} /\ nextId = 0 /\ notifying = Silent
    /\ peers = {} /\ dc = [p \in Peers |-> 0]
    /\ chan = [ch \in Channels |-> NoChannel]
    /\ ready = <<>> /\ arrived = [offers |-> 0, messages |-> 0]
    /\ owed = [id \in Ids |-> <<>>] /\ misheard = FALSE
    /\ early = [id \in Ids |-> {}] /\ latest = [p \in Peers |-> 0]
    /\ told = [id \in Ids |-> [p \in Peers |-> "none"]]

-----------------------------------------------------------------------------
(* The queue of the tasks. A task that is woken goes to its end.           *)
Wake(tasks)    == ready' = ready \o tasks
T(kind, of)    == [kind |-> kind, of |-> of]
Polled(t)      == notifying = Silent /\ ready # <<>> /\ Head(ready) = t
AtRest         == notifying = Silent /\ ready = <<>>

(* Mutant: a stream that has no more items is polled on.                   *)
AfterAll(queue) == IF Len(queue) > 1 \/ queue = <<>> THEN ready ELSE Tail(ready)

(* The tasks after one took an item of a stream: it stays in front until it*)
(* has taken all of them.                                                  *)
After(queue) == IF Len(queue) > 1 THEN ready ELSE Tail(ready)

-----------------------------------------------------------------------------
(* The borrows of the wrapper that wasm-bindgen checks: a promise holds a  *)
(* shared one until it is done, onEvent and removeOnEvent need it alone.   *)
Pending == {n \in Calls : call[n] \notin {Unused, Done}}

CanBorrowMut == ~lost /\ Pending = {}

(* notify_event holds the borrow of the map until it has called them all.  *)
CallbacksBorrowed == notifying # Silent

(* JsCallbackManager::add. A panic is a trap: nothing is unwound, and the  *)
(* mutable borrow onEvent holds is never given back.                       *)
Add ==
    /\ nextId' = nextId + 1
    /\ IF CallbacksBorrowed
       THEN lost' = TRUE /\ UNCHANGED callbacks
       ELSE callbacks' = callbacks \cup {nextId} /\ UNCHANGED lost

(* JsCallbackManager::remove.                                              *)
Remove(id) ==
    /\ IF CallbacksBorrowed
       THEN lost' = TRUE /\ UNCHANGED callbacks
       ELSE callbacks' = callbacks \ {id} /\ UNCHANGED lost
    /\ UNCHANGED nextId

(* What the page calls: onEvent, ...                                       *)
OnEvent ==
    /\ CanBorrowMut /\ nextId < MaxCallbacks
    /\ Add
    /\ UNCHANGED <<call, ready>>

(* ... removeOnEvent, ...                                                  *)
RemoveOnEvent ==
    /\ CanBorrowMut
    /\ \E id \in Ids : Remove(id)
    /\ UNCHANGED <<call, ready>>

(* ... connectToPeer and sendMessageToPeer, whose futures run later. A call*)
(* that cannot borrow the wrapper throws and changes nothing.              *)
StartCall(op, p) ==
    /\ ~lost
    /\ \E n \in Calls :
        /\ call[n] = Unused /\ \A k \in 1..(n - 1) : call[k] # Unused
        /\ call' = [call EXCEPT ![n] = [op |-> op, to |-> p, step |-> "start"]]
        /\ Wake(<<T("call", n)>>)
    /\ UNCHANGED registry

PageCall ==
    \/ OnEvent \/ RemoveOnEvent
    \/ \E op \in {"connect", "send"}, p \in Peers : StartCall(op, p)

(* The page's own script, in a task of its own.                            *)
Script ==
    /\ AtRest /\ PageCall
    /\ told' = [id \in Ids |-> IF id \in callbacks' THEN told[id] ELSE [p \in Peers |-> "none"]]
    /\ early' = [id \in Ids |-> IF id \in callbacks' THEN early[id] ELSE {}]
    /\ UNCHANGED <<notifying, manager, chan, arrived, owed, latest, misheard>>

-----------------------------------------------------------------------------
(* History: something happened that the callbacks there are have to hear,  *)
(* a peer has a new channel, and a callback hears something.               *)
Owe(event) ==
    owed' = [id \in Ids |-> IF id \in callbacks THEN Append(owed[id], event) ELSE <<>>]

Younger(p, ch) ==
    /\ latest' = [latest EXCEPT ![p] = ch]
    /\ told' = [id \in Ids |-> [told[id] EXCEPT ![p] = "none"]]

(* A channel of the other side is open when the client is given it, and is *)
(* reported before its open event, when nothing else is due.               *)
Early(event) ==
    event.type = "DataChannelOpen" /\ event.channel > MaxCalls /\ ~chan[event.channel].announced

HearEarly(id, ch) ==
    /\ misheard' = (misheard \/ owed[id] # <<>> \/ ch \in early[id])
    /\ early' = [early EXCEPT ![id] = @ \cup {ch}]
    /\ UNCHANGED owed

HearDue(id, event) ==
    /\ misheard' = (misheard \/ owed[id] = <<>> \/ Head(owed[id]) # event)
    /\ owed' = [owed EXCEPT ![id] = IF @ = <<>> THEN @ ELSE Tail(@)]
    /\ UNCHANGED early

OfLatest(event) ==
    /\ event.type \in {"DataChannelOpen", "DataChannelClose"}
    /\ latest[chan[event.channel].of] = event.channel

Hear(id, event) ==
    /\ IF Early(event) THEN HearEarly(id, event.channel) ELSE HearDue(id, event)
    /\ told' = IF OfLatest(event) THEN [told EXCEPT ![id][chan[event.channel].of] = event.type]
               ELSE told

(* notify_event: the callbacks there are now are called one by one.        *)
Notify(event) ==
    notifying' = IF callbacks = {} THEN Silent ELSE [event |-> event, left |-> callbacks]

(* Mutant: an error ends the notification.                                 *)
LeftUnlessFailed(id, failed) == IF failed THEN {} ELSE notifying.left \ {id}

(* An error of a callback is logged, and the others are called.            *)
Left(id, failed) == notifying.left \ {id}

(* invoke_event_callback: the callback does nothing, throws, or calls the  *)
(* client, whatever comes of that.                                         *)
InvokeCallback(id) ==
    /\ id \in notifying.left
    /\ Hear(id, notifying.event)
    /\ \E failed \in BOOLEAN :
        LET left == Left(id, failed) IN
        notifying' = IF left = {} THEN Silent ELSE [notifying EXCEPT !.left = left]
    /\ PageCall \/ UNCHANGED <<registry, call, ready>>
    /\ UNCHANGED <<manager, chan, arrived, latest>>

-----------------------------------------------------------------------------
(* The reader loop has a message of the server: an offer needs a peer, and *)
(* only a new one is notified; a NewPeer is notified always.               *)
ServerMessage(p) ==
    /\ AtRest /\ arrived.offers < MaxOffers
    /\ arrived' = [arrived EXCEPT !.offers = @ + 1]
    /\ Wake(<<T("reader", p)>>)
    /\ UNCHANGED <<registry, call, notifying, manager, chan, history>>

NotifyNewPeer(p) ==
    /\ Owe([type |-> "NewPeer", peer |-> p])
    /\ Notify([type |-> "NewPeer", peer |-> p])

(* get_or_create_peer.                                                     *)
GetOrCreatePeer(p) ==
    IF p \in peers THEN UNCHANGED <<peers, owed, notifying>>
    ELSE peers' = peers \cup {p} /\ NotifyNewPeer(p)

(* handle_peer_event.                                                      *)
RunReader(p) ==
    /\ Polled(T("reader", p))
    /\ ready' = Tail(ready)
    /\ \/ GetOrCreatePeer(p)
       \/ NotifyNewPeer(p) /\ UNCHANGED peers
    /\ UNCHANGED <<registry, call, dc, chan, arrived, latest, heard>>

-----------------------------------------------------------------------------
(* A stream of sf-webrtc is a listener that puts what it makes of an event *)
(* on an unbounded queue.                                                  *)
Queued(queue, item) == Append(queue, item)

(* state_stream begins with the state the channel has; the task on it and  *)
(* that on the messages are spawned in this order.                         *)
Streaming(c) == [c EXCEPT !.live = TRUE, !.states = <<c.state>>]

Spawned(ch) == <<T("state", ch), T("message", ch)>>

NewChannel(p, label, state) ==
    [of |-> p, label |-> label, state |-> state, announced |-> FALSE,
     live |-> FALSE, states |-> <<>>, messages |-> <<>>]

(* connect_to_peer: a new peer is notified in the middle of the call.      *)
ConnectToPeer(n) ==
    /\ Polled(T("call", n)) /\ call[n].op = "connect" /\ call[n].step = "start"
    /\ GetOrCreatePeer(call[n].to)
    /\ call' = [call EXCEPT ![n].step = "channel"]
    /\ UNCHANGED <<registry, dc, chan, ready, arrived, latest, heard>>

(* make_offer: the new channel takes the place of the one there was. The   *)
(* call then waits for the browser.                                        *)
CreateDataChannel(n) ==
    /\ Polled(T("call", n)) /\ call[n].op = "connect" /\ call[n].step = "channel"
    /\ chan' = [chan EXCEPT ![n] = Streaming(NewChannel(call[n].to, "sf-channel", "connecting"))]
    /\ dc' = [dc EXCEPT ![call[n].to] = n]
    /\ call' = [call EXCEPT ![n].step = "wait"]
    /\ ready' = Tail(ready) \o Spawned(n)
    /\ Younger(call[n].to, n)
    /\ UNCHANGED <<registry, notifying, peers, arrived, owed, early, misheard>>

(* The descriptions are made and sent, or an error ends the call.          *)
CallReturns(n) ==
    /\ AtRest /\ n \in Pending /\ call[n].step = "wait"
    /\ call' = [call EXCEPT ![n] = Done]
    /\ UNCHANGED <<registry, notifying, manager, chan, ready, arrived, history>>

(* DataChannel::send_str.                                                  *)
SendStr(ch) == IF chan[ch].state = "open" THEN "sent" ELSE "not open"

(* direct_send_str: what send_message_to_peer resolves to. A peer without  *)
(* a channel is no error, though nothing is sent.                          *)
Sends(p) ==
    IF p \notin peers THEN "no peer"
    ELSE IF dc[p] = 0 THEN "nothing sent" ELSE SendStr(dc[p])

(* send_message_to_peer has no await: one poll completes it.               *)
SendMessageToPeer(n) ==
    /\ Polled(T("call", n)) /\ call[n].op = "send"
    /\ call' = [call EXCEPT ![n] = Done]
    /\ ready' = Tail(ready)
    /\ UNCHANGED <<registry, notifying, manager, chan, arrived, history>>

-----------------------------------------------------------------------------
(* The listener of data_channel_stream queues every channel, and the task  *)
(* on the stream is woken.                                                 *)
DataChannelStream(ch) == Wake(<<T("incoming", ch)>>)

(* The datachannel event: the browser has opened the channel of the other  *)
(* side, but has not announced it.                                         *)
IncomingChannel(ch, p, label) ==
    /\ AtRest /\ ch > MaxCalls /\ chan[ch] = NoChannel
    /\ \A k \in (MaxCalls + 1)..(ch - 1) : chan[k] # NoChannel
    /\ p \in peers
    /\ chan' = [chan EXCEPT ![ch] = NewChannel(p, label, "open")]
    /\ DataChannelStream(ch)
    /\ IF label = "sf-channel" THEN Younger(p, ch) ELSE UNCHANGED <<latest, told>>
    /\ UNCHANGED <<registry, call, notifying, manager, arrived, owed, early, misheard>>

(* Mutant: the streams are made, but the channel is not kept.              *)
RunIncomingUnkept(ch) ==
    /\ Polled(T("incoming", ch))
    /\ IF chan[ch].label = "sf-channel"
       THEN /\ chan' = [chan EXCEPT ![ch] = Streaming(@)]
            /\ ready' = Tail(ready) \o Spawned(ch)
       ELSE ready' = Tail(ready) /\ UNCHANGED chan
    /\ UNCHANGED <<registry, call, notifying, manager, arrived, history>>

(* The task on data_channel_stream. The stream of the states begins with   *)
(* "open": the task on it reports the channel, and once more when the open *)
(* event comes.                                                            *)
RunIncoming(ch) ==
    /\ Polled(T("incoming", ch))
    /\ IF chan[ch].label = "sf-channel"
       THEN /\ dc' = [dc EXCEPT ![chan[ch].of] = ch]
            /\ chan' = [chan EXCEPT ![ch] = Streaming(@)]
            /\ ready' = Tail(ready) \o Spawned(ch)
       ELSE ready' = Tail(ready) /\ UNCHANGED <<dc, chan>>
    /\ UNCHANGED <<registry, call, notifying, peers, arrived, history>>

-----------------------------------------------------------------------------
Ours(ch) == chan[ch] # NoChannel /\ chan[ch].label = "sf-channel"

(* The listeners state_stream adds: the state is queued and the task woken.*)
Listener(ch, c, type) ==
    /\ AtRest
    /\ IF Ours(ch)
       THEN /\ chan' = [chan EXCEPT ![ch] = [c EXCEPT !.states = Queued(@, c.state)]]
            /\ Owe([type |-> type, channel |-> ch])
            /\ Wake(<<T("state", ch)>>)
       ELSE chan' = [chan EXCEPT ![ch] = c] /\ UNCHANGED <<owed, ready>>
    /\ UNCHANGED <<registry, call, notifying, manager, arrived, latest, heard>>

ChannelOpens(ch) ==
    /\ chan[ch] # NoChannel /\ chan[ch].state \in {"connecting", "open"} /\ ~chan[ch].announced
    /\ Listener(ch, [chan[ch] EXCEPT !.state = "open", !.announced = TRUE], "DataChannelOpen")

(* A closing channel tells the streams nothing, but sends no more.         *)
ChannelCloses(ch) ==
    /\ AtRest /\ chan[ch] # NoChannel /\ chan[ch].state \in {"connecting", "open"}
    /\ chan' = [chan EXCEPT ![ch].state = "closing"]
    /\ UNCHANGED <<registry, call, notifying, manager, ready, arrived, history>>

ChannelClosed(ch) ==
    /\ chan[ch] # NoChannel /\ chan[ch].state = "closing"
    /\ Listener(ch, [chan[ch] EXCEPT !.state = "closed"], "DataChannelClose")

MessageArrives(ch, kind) ==
    /\ AtRest /\ chan[ch] # NoChannel /\ chan[ch].announced /\ chan[ch].state = "open"
    /\ arrived.messages < MaxMessages
    /\ arrived' = [arrived EXCEPT !.messages = @ + 1]
    /\ IF chan[ch].live
       THEN /\ chan' = [chan EXCEPT ![ch].messages =
                            Queued(@, [num |-> arrived'.messages, kind |-> kind])]
            /\ Wake(<<T("message", ch)>>)
       ELSE UNCHANGED <<chan, ready>>
    /\ IF chan[ch].live /\ kind = "text"
       THEN Owe([type |-> "DataChannelMessage", channel |-> ch, num |-> arrived'.messages])
       ELSE UNCHANGED owed
    /\ UNCHANGED <<registry, call, notifying, manager, latest, heard>>

(* The task on state_stream.                                               *)
RunState(ch) ==
    /\ Polled(T("state", ch))
    /\ ready' = After(chan[ch].states)
    /\ IF chan[ch].states = <<>> THEN UNCHANGED <<chan, notifying>>
       ELSE /\ chan' = [chan EXCEPT ![ch].states = Tail(@)]
            /\ CASE Head(chan[ch].states) = "open" ->
                        Notify([type |-> "DataChannelOpen", channel |-> ch])
                 [] Head(chan[ch].states) = "closed" ->
                        Notify([type |-> "DataChannelClose", channel |-> ch])
                 [] OTHER -> UNCHANGED notifying
    /\ UNCHANGED <<registry, call, manager, arrived, history>>

(* The task on message_stream: it notifies texts, passes over what is      *)
(* binary, and ends at what the stream cannot convert.                     *)
RunMessage(ch) ==
    /\ Polled(T("message", ch))
    /\ ready' = After(chan[ch].messages)
    /\ IF chan[ch].messages = <<>> THEN UNCHANGED <<chan, notifying>>
       ELSE LET m == Head(chan[ch].messages) IN
            /\ chan' = [chan EXCEPT ![ch].messages = Tail(@), ![ch].live = m.kind # "blob"]
            /\ IF m.kind = "text"
               THEN Notify([type |-> "DataChannelMessage", channel |-> ch, num |-> m.num])
               ELSE UNCHANGED notifying
    /\ UNCHANGED <<registry, call, manager, arrived, history>>

-----------------------------------------------------------------------------
Run ==
    \/ \E p \in Peers : RunReader(p)
    \/ \E n \in Calls : ConnectToPeer(n) \/ CreateDataChannel(n) \/ SendMessageToPeer(n)
    \/ \E ch \in Channels : RunIncoming(ch) \/ RunState(ch) \/ RunMessage(ch)
    \/ \E id \in callbacks : InvokeCallback(id)

Browser ==
    \/ \E p \in Peers : ServerMessage(p)
    \/ \E n \in Calls : CallReturns(n)
    \/ \E ch \in Channels : ChannelOpens(ch) \/ ChannelCloses(ch) \/ ChannelClosed(ch)
    \/ \E ch \in Channels, kind \in Kinds : MessageArrives(ch, kind)
    \/ \E ch \in Channels, p \in Peers, label \in Labels : IncomingChannel(ch, p, label)

Next == Run \/ Browser \/ Script

(* The browser polls a task that is ready; what a callback does ends.      *)
Spec == Init /\ [][Next]_vars /\ WF_vars(Run)

-----------------------------------------------------------------------------
(* Whatever other callbacks throw or do to the client, a callback hears    *)
(* what happens to the peers while it is registered, each thing once, in   *)
(* the order it happened on all channels, and no later than the page is at *)
(* rest: notify_event and the streams of several tasks lose and reorder    *)
(* nothing. (A message the stream cannot convert ends what is owed of the  *)
(* messages of its channel.) One thing comes twice: a channel of the other *)
(* side is also reported open once before its open event, and not earlier  *)
(* than what happened before.                                              *)
HeardInOrder ==
    /\ ~misheard
    /\ AtRest => \A id \in callbacks : owed[id] = <<>>

(* A page that acts on the events of the youngest channel of a peer can    *)
(* rely on them: after DataChannelOpen sendMessageToPeer sends, unless the *)
(* channel is about to close, and after DataChannelClose it fails. Whatever*)
(* channels there were before, the client sends on that one; only what it  *)
(* reports of the older ones, which events do not tell apart, misleads.    *)
EventsTellWhatWorks ==
    AtRest => \A id \in callbacks, p \in Peers :
        /\ told[id][p] = "DataChannelOpen" =>
               Sends(p) = "sent" \/ chan[latest[p]].state = "closing"
        /\ told[id][p] = "DataChannelClose" => Sends(p) = "not open"

(* The tasks come to an end: whatever callbacks do, the page is free for   *)
(* the next event again.                                                   *)
PageRests == []<>AtRest
=============================================================================
