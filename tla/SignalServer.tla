---------------------------- MODULE SignalServer ----------------------------
(***************************************************************************)
(* The signalling server of sf-server: the peer registry (state.rs), the   *)
(* connection task of every WebSocket (ws.rs) and the handle other tasks   *)
(* use to queue requests for it (peer_handler.rs).                         *)
(*                                                                         *)
(* Every connection is a tokio task on a multi-threaded runtime, so a step *)
(* below is what happens between two points where another task can be      *)
(* seen: one operation on the DashMap, one operation on the gauge, one     *)
(* operation on a bounded mpsc channel, one socket read or write.          *)
(***************************************************************************)
EXTENDS Integers, Sequences, FiniteSets

CONSTANTS
    Conns,      \* connection tasks; each serves one accepted WebSocket
    Peers,      \* peer identifiers
    IdOf,       \* the identifier a connection presented when it was accepted
    Cap,        \* capacity of a connection's mpsc channel (32 in the code)
    MaxFrames,  \* bound: frames the server reads from one connection
    Talkers,    \* bound: connections whose client sends frames
    Flaky,      \* bound: connections for which something outside the server
                \* fails (the socket, the client, the random generator)
    Deaf,       \* bound: connections whose client never reads its socket
    System,     \* the random sender identifier of a system event
    None        \* no handler is registered

ASSUME ConnsAssumption  == IsFiniteSet(Conns) /\ IdOf \in [Conns -> Peers]
ASSUME PeersAssumption  == IsFiniteSet(Peers)
ASSUME NoneAssumption   == None \notin Conns /\ System \notin Peers
ASSUME CapAssumption    == Cap \in Nat \ {0}
ASSUME BoundsAssumption ==
    MaxFrames \in Nat /\ Talkers \subseteq Conns /\ Flaky \subseteq Conns /\ Deaf \subseteq Conns

VARIABLES
    pc,          \* where each connection task is
    peers,       \* AppState.peers: identifier -> connection behind its handler
    peer_count,  \* AppState.peer_count, the gauge "Connected peers"
    received,    \* msg_recv_total of each handler
    todo, ids,   \* broadcast in progress: keys not yet iterated; collected ids
    audience,    \* history: connections registered when it began
    tasks,       \* requests held by spawned send tasks, by target connection
    queue,       \* the mpsc channel of each connection
    hand,        \* the request a connection has received and is writing
    delivered,   \* history: requests written to each connection's socket
    link,        \* the client's side of the socket
    overwrote,   \* history: connections whose insert replaced another's entry
    unannounced  \* history: connections whose system event failed

reg  == <<peers, peer_count, overwrote>>
cast == <<todo, ids, audience>>
mail == <<tasks, queue, hand, delivered>>
vars == <<pc, received, link, unannounced, reg, cast, mail>>

-----------------------------------------------------------------------------
(* A Forward request. by and seq identify the event it carries: seq is the *)
(* number of the frame of connection `by` that carried it, and 0 is the    *)
(* NewPeer event the server broadcasts when `by` joins.                    *)
Message == [by : Conns, seq : 0..MaxFrames, from : Peers \cup {System}, to : Peers]

Label == {"new", "insert", "count", "broadcast", "loop",
          "write", "remove", "uncount", "drop", "closed"}

(* The labels at which the connection's entry can be in the registry, and  *)
(* those at which it is still being served.                                *)
Serving  == {"count", "broadcast", "loop", "write"}
Enlisted == Serving \cup {"remove"}

Elems(s) == {s[i] : i \in DOMAIN s}

(* What is on its way to connection c: not yet queued, queued, in hand.    *)
Pending(c) == tasks[c] \cup Elems(queue[c]) \cup hand[c]

Registered(c) == peers[IdOf[c]] = c

Has(c, m) == m \in Pending(c) \cup delivered[c]

(* The Forward that c's broadcast sends to identifier p.                   *)
BroadcastMsg(c, p) ==
    [by |-> c, seq |-> received[c], to |-> p,
     from |-> IF received[c] = 0 THEN System ELSE IdOf[c]]

(* Mutant: the request is dropped when the channel is full (try_send).     *)
SendToPeerTry(p, m) ==
    tasks' = IF peers[p] = None \/ Len(queue[peers[p]]) = Cap THEN tasks
             ELSE [tasks EXCEPT ![peers[p]] = @ \cup {m}]

(* send_to_peer: a handler found in the registry gets a spawned task that  *)
(* queues the request; a missing peer is only logged.                      *)
SendToPeer(p, m) ==
    tasks' = IF peers[p] = None THEN tasks
             ELSE [tasks EXCEPT ![peers[p]] = @ \cup {m}]

(* broadcast_forward_except: start iterating over the keys of the registry. *)
StartBroadcast(c) ==
    /\ todo' = [todo EXCEPT ![c] = Peers]
    /\ ids'  = [ids  EXCEPT ![c] = {}]
    /\ audience' = [audience EXCEPT ![c] = {d \in Conns : Registered(d)}]

Goto(c, l) == pc' = [pc EXCEPT ![c] = l]

Init ==
    /\ pc = [c \in Conns |-> "new"]
    /\ peers = [p \in Peers |-> None]
    /\ peer_count = 0
    /\ received = [c \in Conns |-> 0]
    /\ todo = [c \in Conns |-> {}]
    /\ ids = [c \in Conns |-> {}]
    /\ audience = [c \in Conns |-> {}]
    /\ tasks = [c \in Conns |-> {}]
    /\ queue = [c \in Conns |-> <<>>]
    /\ hand = [c \in Conns |-> {}]
    /\ delivered = [c \in Conns |-> {}]
    /\ link = [c \in Conns |-> IF c \in Deaf THEN "stalled" ELSE "up"]
    /\ overwrote = {}
    /\ unannounced = {}

-----------------------------------------------------------------------------
(* Joining: handle_ws_connection and add_peer.                             *)

(* Mutant: the refused connection goes through the common clean-up.        *)
RejectCleansUp(c) ==
    /\ pc[c] = "new" /\ peers[IdOf[c]] # None
    /\ Goto(c, "remove")
    /\ UNCHANGED <<received, link, unannounced, reg, cast, mail>>

(* contains_key says the identifier is taken: the task logs and returns.   *)
Reject(c) ==
    /\ pc[c] = "new" /\ peers[IdOf[c]] # None
    /\ Goto(c, "closed")
    /\ UNCHANGED <<received, link, unannounced, reg, cast, mail>>

(* contains_key says the identifier is free.                               *)
Accept(c) ==
    /\ pc[c] = "new" /\ peers[IdOf[c]] = None
    /\ Goto(c, "insert")
    /\ UNCHANGED <<received, link, unannounced, reg, cast, mail>>

(* DashMap::insert replaces whatever is there by now.                      *)
Insert(c) ==
    /\ pc[c] = "insert"
    /\ peers' = [peers EXCEPT ![IdOf[c]] = c]
    /\ overwrote' = IF peers[IdOf[c]] = None THEN overwrote ELSE overwrote \cup {c}
    /\ Goto(c, "count")
    /\ UNCHANGED <<received, link, unannounced, peer_count, cast, mail>>

(* The gauge, then the NewPeer event goes out under a random identifier.   *)
Announce(c) ==
    /\ pc[c] = "count"
    /\ peer_count' = peer_count + 1
    /\ StartBroadcast(c)
    /\ Goto(c, "broadcast")
    /\ UNCHANGED <<received, link, unannounced, peers, overwrote, mail>>

(* Mutant: only an announced peer is counted.                              *)
AnnounceFailsUncounted(c) ==
    /\ pc[c] = "count" /\ c \in Flaky
    /\ unannounced' = unannounced \cup {c}
    /\ Goto(c, "loop")
    /\ UNCHANGED <<received, link, reg, cast, mail>>

(* PeerID::random fails: the error is logged and the peer is served anyway. *)
AnnounceFails(c) ==
    /\ pc[c] = "count" /\ c \in Flaky
    /\ peer_count' = peer_count + 1
    /\ unannounced' = unannounced \cup {c}
    /\ Goto(c, "loop")
    /\ UNCHANGED <<received, link, peers, overwrote, cast, mail>>

-----------------------------------------------------------------------------
(* Broadcasting: the iterator locks one shard of the map at a time, so a   *)
(* key is read at a moment of its own; every collected identifier is then  *)
(* looked up again.                                                        *)
Scan(c) ==
    /\ pc[c] = "broadcast"
    /\ \E p \in todo[c] :
         /\ todo' = [todo EXCEPT ![c] = @ \ {p}]
         /\ ids' = IF peers[p] = None THEN ids ELSE [ids EXCEPT ![c] = @ \cup {p}]
    /\ UNCHANGED <<audience, pc, received, link, unannounced, reg, mail>>

(* Mutant: the first identifier that is gone ends the loop.                *)
SendForwardStops(c) ==
    /\ pc[c] = "broadcast" /\ todo[c] = {}
    /\ \E p \in ids[c] :
         /\ SendToPeer(p, BroadcastMsg(c, p))
         /\ ids' = [ids EXCEPT ![c] = IF peers[p] = None THEN {} ELSE @ \ {p}]
    /\ UNCHANGED <<pc, received, link, unannounced, reg, todo, audience, queue, hand, delivered>>

SendForward(c) ==
    /\ pc[c] = "broadcast" /\ todo[c] = {}
    /\ \E p \in ids[c] :
         /\ SendToPeer(p, BroadcastMsg(c, p))
         /\ ids' = [ids EXCEPT ![c] = @ \ {p}]
    /\ UNCHANGED <<pc, received, link, unannounced, reg, todo, audience, queue, hand, delivered>>

EndBroadcast(c) ==
    /\ pc[c] = "broadcast" /\ todo[c] = {} /\ ids[c] = {}
    /\ Goto(c, "loop")
    /\ UNCHANGED <<received, link, unannounced, reg, cast, mail>>

-----------------------------------------------------------------------------
(* Mutant: a task that finds the channel full gives up.                    *)
EnqueueOrDrop(c, m) ==
    /\ m \in tasks[c] /\ pc[c] # "closed"
    /\ queue' = IF Len(queue[c]) < Cap THEN [queue EXCEPT ![c] = Append(@, m)] ELSE queue
    /\ tasks' = [tasks EXCEPT ![c] = @ \ {m}]
    /\ UNCHANGED <<pc, received, link, unannounced, reg, cast, hand, delivered>>

(* The spawned task of send_to_peer: PeerHandler::send waits for room, and *)
(* fails once the receiver has been dropped.                               *)
Enqueue(c, m) ==
    /\ m \in tasks[c] /\ pc[c] # "closed" /\ Len(queue[c]) < Cap
    /\ queue' = [queue EXCEPT ![c] = Append(@, m)]
    /\ tasks' = [tasks EXCEPT ![c] = @ \ {m}]
    /\ UNCHANGED <<pc, received, link, unannounced, reg, cast, hand, delivered>>

SendFails(c, m) ==
    /\ m \in tasks[c] /\ pc[c] = "closed"
    /\ tasks' = [tasks EXCEPT ![c] = @ \ {m}]
    /\ UNCHANGED <<pc, received, link, unannounced, reg, cast, queue, hand, delivered>>

-----------------------------------------------------------------------------
(* The select loop of process_ws, outbound branch.                         *)

(* Mutant: requests are sent inline, so a connection does not come back to *)
(* its loop before everything it sent has been queued.                     *)
RecvAfterOwnSends(c) ==
    /\ pc[c] = "loop" /\ queue[c] # <<>>
    /\ \A d \in Conns : \A m \in tasks[d] : m.by # c
    /\ hand' = [hand EXCEPT ![c] = {Head(queue[c])}]
    /\ queue' = [queue EXCEPT ![c] = Tail(@)]
    /\ Goto(c, "write")
    /\ UNCHANGED <<received, link, unannounced, reg, cast, tasks, delivered>>

Recv(c) ==
    /\ pc[c] = "loop" /\ queue[c] # <<>>
    /\ hand' = [hand EXCEPT ![c] = {Head(queue[c])}]
    /\ queue' = [queue EXCEPT ![c] = Tail(@)]
    /\ Goto(c, "write")
    /\ UNCHANGED <<received, link, unannounced, reg, cast, tasks, delivered>>

WriteOk(c) ==
    /\ pc[c] = "write" /\ link[c] = "up"
    /\ delivered' = [delivered EXCEPT ![c] = @ \cup hand[c]]
    /\ hand' = [hand EXCEPT ![c] = {}]
    /\ Goto(c, "loop")
    /\ UNCHANGED <<received, link, unannounced, reg, cast, tasks, queue>>

(* Mutant: a failed write is logged and the loop goes on.                  *)
WriteFailsQuietly(c) ==
    /\ pc[c] = "write" /\ link[c] = "gone"
    /\ hand' = [hand EXCEPT ![c] = {}]
    /\ Goto(c, "loop")
    /\ UNCHANGED <<received, link, unannounced, reg, cast, tasks, queue, delivered>>

WriteFails(c) ==
    /\ pc[c] = "write" /\ link[c] = "gone"
    /\ hand' = [hand EXCEPT ![c] = {}]
    /\ Goto(c, "remove")
    /\ UNCHANGED <<received, link, unannounced, reg, cast, tasks, queue, delivered>>

-----------------------------------------------------------------------------
(* The select loop, inbound branch: process_incoming and handle_request.   *)
(* A read stream that yields nothing more only disables the branch, so     *)
(* there is no step for it.                                                *)
Frame(c) ==
    /\ pc[c] = "loop" /\ link[c] # "gone" /\ c \in Talkers /\ received[c] < MaxFrames
    /\ received' = [received EXCEPT ![c] = @ + 1]

(* KeepAlive, a text that does not parse, Binary, Ping and Pong.           *)
ReadOther(c) ==
    /\ Frame(c)
    /\ UNCHANGED <<pc, link, unannounced, reg, cast, mail>>

(* Mutant: the lookup is made with the sender's identifier.                *)
ReadForwardSingleToSender(c) ==
    /\ Frame(c)
    /\ \E from, to \in Peers :
         SendToPeer(from, [by |-> c, seq |-> received[c] + 1, from |-> from, to |-> to])
    /\ UNCHANGED <<pc, link, unannounced, reg, cast, queue, hand, delivered>>

(* Forward to one peer; the sender is whatever the request names.          *)
ReadForwardSingle(c) ==
    /\ Frame(c)
    /\ \E from, to \in Peers :
         SendToPeer(to, [by |-> c, seq |-> received[c] + 1, from |-> from, to |-> to])
    /\ UNCHANGED <<pc, link, unannounced, reg, cast, queue, hand, delivered>>

(* Forward to everyone; the sender is the connection's own identifier.     *)
ReadForwardAll(c) ==
    /\ Frame(c)
    /\ StartBroadcast(c)
    /\ Goto(c, "broadcast")
    /\ UNCHANGED <<link, unannounced, reg, mail>>

ReadClose(c) ==
    /\ Frame(c)
    /\ Goto(c, "remove")
    /\ UNCHANGED <<link, unannounced, reg, cast, mail>>

(* The stream yields an error: no frame is counted.                        *)
ReadError(c) ==
    /\ pc[c] = "loop" /\ c \in Flaky /\ link[c] # "gone"
    /\ Goto(c, "remove")
    /\ UNCHANGED <<received, link, unannounced, reg, cast, mail>>

-----------------------------------------------------------------------------
(* Leaving: remove_peer, then the task's locals are dropped.               *)

(* Mutant: the entry stays when the connection leaves.                     *)
RemoveForgets(c) ==
    /\ pc[c] = "remove"
    /\ Goto(c, IF peers[IdOf[c]] = None THEN "drop" ELSE "uncount")
    /\ UNCHANGED <<received, link, unannounced, reg, cast, mail>>

(* DashMap::remove by identifier; the gauge follows only if it was there.  *)
Remove(c) ==
    /\ pc[c] = "remove"
    /\ Goto(c, IF peers[IdOf[c]] = None THEN "drop" ELSE "uncount")
    /\ peers' = [peers EXCEPT ![IdOf[c]] = None]
    /\ UNCHANGED <<received, link, unannounced, peer_count, overwrote, cast, mail>>

Uncount(c) ==
    /\ pc[c] = "uncount"
    /\ peer_count' = peer_count - 1
    /\ Goto(c, "drop")
    /\ UNCHANGED <<received, link, unannounced, peers, overwrote, cast, mail>>

(* The receiver is dropped with whatever is still queued.                  *)
DropReceiver(c) ==
    /\ pc[c] = "drop"
    /\ queue' = [queue EXCEPT ![c] = <<>>]
    /\ Goto(c, "closed")
    /\ UNCHANGED <<received, link, unannounced, reg, cast, tasks, hand, delivered>>

-----------------------------------------------------------------------------
(* The client: it stops reading, or it vanishes without a Close frame.     *)
Stall(c) ==
    /\ pc[c] \in Serving /\ c \in Flaky /\ link[c] = "up"
    /\ link' = [link EXCEPT ![c] = "stalled"]
    /\ UNCHANGED <<pc, received, unannounced, reg, cast, mail>>

Vanish(c) ==
    /\ pc[c] \in Serving /\ c \in Flaky /\ link[c] # "gone"
    /\ link' = [link EXCEPT ![c] = "gone"]
    /\ UNCHANGED <<pc, received, unannounced, reg, cast, mail>>

-----------------------------------------------------------------------------
(* What the server does on its own, and what it does when a client acts.   *)
Join(c)  == Insert(c) \/ Announce(c) \/ AnnounceFails(c)
Cast(c)  == Scan(c) \/ SendForward(c) \/ EndBroadcast(c)
Write(c) == Recv(c) \/ WriteOk(c) \/ WriteFails(c)
Leave(c) == Remove(c) \/ Uncount(c) \/ DropReceiver(c)
Run(c)   == Join(c) \/ Cast(c) \/ Write(c) \/ Leave(c)

SendTask(c) == \E m \in tasks[c] : Enqueue(c, m) \/ SendFails(c, m)

Read(c)   == ReadOther(c) \/ ReadForwardSingle(c) \/ ReadForwardAll(c)
               \/ ReadClose(c) \/ ReadError(c)
Client(c) == Reject(c) \/ Accept(c) \/ Read(c) \/ Stall(c) \/ Vanish(c)

Next == \E c \in Conns : Run(c) \/ SendTask(c) \/ Client(c)

Spec == Init /\ [][Next]_vars

(* The runtime keeps polling a task that can go on. At "loop" only the     *)
(* outbound branch is in Run: a client owes the server no frames.          *)
Fairness == \A c \in Conns : WF_vars(Run(c)) /\ WF_vars(SendTask(c))
FairSpec == Spec /\ Fairness

-----------------------------------------------------------------------------
(* Types, and the bound the channel keeps on what waits for a connection.  *)
TypeOK ==
    /\ pc \in [Conns -> Label]
    /\ peers \in [Peers -> Conns \cup {None}]
    /\ peer_count \in Int
    /\ received \in [Conns -> 0..MaxFrames]
    /\ todo \in [Conns -> SUBSET Peers]
    /\ ids \in [Conns -> SUBSET Peers]
    /\ audience \in [Conns -> SUBSET Conns]
    /\ tasks \in [Conns -> SUBSET Message]
    /\ queue \in [Conns -> Seq(Message)]
    /\ \A c \in Conns : Len(queue[c]) <= Cap
    /\ hand \in [Conns -> SUBSET Message]
    /\ delivered \in [Conns -> SUBSET Message]
    /\ link \in [Conns -> {"up", "stalled", "gone"}]
    /\ overwrote \in SUBSET Conns
    /\ unannounced \in SUBSET Conns

(* The registry never answers with the handler of a connection that has    *)
(* left or never joined, nor with one filed under another identifier, even *)
(* when two connections of one identifier insert and remove each other's   *)
(* entry (add_peer, remove_peer).                                          *)
NoStaleHandler ==
    \A p \in Peers : peers[p] # None =>
        /\ IdOf[peers[p]] = p
        /\ pc[peers[p]] \in Enlisted

(* A connection that is being served can be found under its identifier,    *)
(* unless some insert for that identifier lost the race between            *)
(* contains_key and insert: a refused duplicate never costs the peer that  *)
(* is already there its entry.                                             *)
ServedIsFound ==
    \A c \in Conns :
        pc[c] \in Enlisted /\ (\A d \in overwrote : IdOf[d] # IdOf[c]) => Registered(c)

(* The gauge against the map it is updated beside, never together with: it *)
(* is off by the connections between the two operations, and for ever by   *)
(* one for each insert that replaced an entry.                             *)
GaugeAccount ==
    peer_count + Cardinality({c \in Conns : pc[c] = "count"}) =
        Cardinality({p \in Peers : peers[p] # None})
        + Cardinality({c \in Conns : pc[c] = "uncount"})
        + Cardinality(overwrote)

(* A request sent to an identifier only ever reaches a connection that     *)
(* presented this identifier, whatever happened to the registry between    *)
(* the lookup, the spawned send and the write.                             *)
Routed == \A c \in Conns : \A m \in Pending(c) \cup delivered[c] : m.to = IdOf[c]

(* A broadcast reaches every connection that was registered when it began  *)
(* and still is, although the keys are read one by one and looked up again *)
(* later (broadcast_forward_except).                                       *)
BroadcastReaches ==
    \A c \in Conns : pc[c] = "broadcast" =>
        \A d \in audience[c] : Registered(d) /\ pc[d] \in Serving =>
            \/ IdOf[d] \in todo[c] \cup ids[c]
            \/ Has(d, BroadcastMsg(c, IdOf[d]))

NewPeerMsg(c, p) == [by |-> c, seq |-> 0, from |-> System, to |-> p]

Joined(c) ==
    /\ Registered(c) /\ c \notin unannounced
    /\ pc[c] \in {"loop", "write"} \/ (pc[c] = "broadcast" /\ received[c] > 0)

(* Of any two registered connections that have joined, at least one has    *)
(* been sent the other's NewPeer: peers that join at the same time cannot  *)
(* miss each other, because each is in the map before it iterates over it. *)
MutualDiscovery ==
    \A c, d \in Conns : c # d /\ Joined(c) /\ Joined(d) =>
        Has(c, NewPeerMsg(d, IdOf[c])) \/ Has(d, NewPeerMsg(c, IdOf[d]))

-----------------------------------------------------------------------------
(* What a connection's mailbox promises; see Mailbox.                      *)
Open(c) == pc[c] \notin {"remove", "uncount", "drop", "closed"}

Mail == INSTANCE Mailbox WITH
    Boxes    <- Conns,
    Messages <- Message,
    open     <- [c \in Conns |-> Open(c)],
    pending  <- [c \in Conns |-> IF Open(c) THEN Pending(c) ELSE {}],
    done     <- delivered

(* The spawned send, the channel, the hand-over to the socket and the      *)
(* clean-up together are a mailbox: whatever is sent to a connection is    *)
(* kept until it is written, is written at most once, and is lost only     *)
(* when the connection closes. Order is not promised.                      *)
ImplementsMailbox == Mail!Spec

(* Whatever is sent to a connection whose client keeps reading is written  *)
(* in the end, or the connection closes; a client that stops reading holds *)
(* up nobody but itself, because sends are spawned (send_to_peer).         *)
MailDrains ==
    \A c \in Conns : Pending(c) # {} ~> (Pending(c) = {} \/ ~Open(c) \/ link[c] = "stalled")

(* A client that vanished is found out by the next request for it, and its *)
(* entry is then removed (process_ws).                                     *)
GoneIsRemoved ==
    \A c \in Conns : (link[c] = "gone" /\ pc[c] \in Serving /\ Pending(c) # {})
                        ~> (pc[c] = "closed" /\ ~Registered(c))

-----------------------------------------------------------------------------
(* error.rs: PeerAlreadyExists is the "Error when trying to add a peer     *)
(* that already exists", so two connections of one identifier are never    *)
(* served together.                                                        *)
NeverTwoOfOne ==
    \A c, d \in Conns : c # d /\ IdOf[c] = IdOf[d] =>
        ~(pc[c] \in Serving /\ pc[d] \in Serving)

=============================================================================
