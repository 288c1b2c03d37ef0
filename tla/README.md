# Verification of sf-rs

This directory specifies and checks the core of sf-rs: the signalling server
over WebSockets (`sf-server`), the identifiers, protocol and metrics it uses
(`sf-peer-id`, `sf-protocol`, `sf-metrics`), the browser client that negotiates
WebRTC connections through it (`sf-wasm`, `sf-webrtc`), and the node that dials and
listens over WebTransport (`sf-node`, `sf-wt-transport`). The specifications are
TLA+ modules, checked with TLC on small instances. Most safety properties are also
proved with TLAPS, for every number of connections, clients, calls, messages,
buffers and bytes.

1. [The system](#1-the-system): parts, state, operations, what is hard
2. [The modules](#2-the-modules) and how they correspond to the code
3. [The runs](#3-the-runs): what they check, bounds, fairness
4. [The proofs](#4-the-proofs)
5. [What the code does otherwise than it says](#5-findings)
6. [What is not modelled](#6-what-is-not-modelled)
7. [The plan](#7-the-plan)

## 1. The system

Browser clients connect to the server by WebSocket, each under an identifier.
The server tells every peer who joined and forwards requests between peers; the
clients use it to exchange WebRTC offers, answers and candidates until they have
a direct connection. Beside this there is a second, younger stack: a node that
dials and listens over WebTransport.

| component | state | operations | what is hard, and what makes it correct |
|---|---|---|---|
| **Signalling server** `sf-server/src/{state,ws,peer_handler}.rs` | `AppState.peers` (DashMap: identifier to handler), the gauge `peer_count`; per connection a task, a channel of 32 requests, the socket; one spawned task per request on its way | join (`contains_key`, `insert`, count, broadcast NewPeer), select loop (write what the channel yields, read a frame), forward to one or to all, leave (`remove`, uncount, drop the receiver) | Every connection is a task on a multi-threaded runtime and each map operation is atomic only by itself. The registry must not answer with dead handlers, requests must reach whom they name, not be lost or doubled, a slow client must not hold up others, peers joining together must not miss each other |
| **Identifier extraction** `sf-server/src/extract_peer_id.rs` | none | header, then query; percent decoding; reject | An identifier must survive every path it can take |
| **Start-up** `sf-server/src/{main,server,builder,args}.rs` | configuration | bind, serve | Runs once; I/O |
| **Identifiers** `sf-peer-id/src` | `S` bytes and a size | hexadecimal text, bytes with a varint length, serde, equality, hash, order | Boundaries: odd lengths, `S as u8`, two-byte varints, unused bytes in the derived order |
| **Metrics** `sf-metrics/src/inmemory` | per kind a map name to storage; per storage a map labels to atomics | register, labels, count, set, observe, timers, read, gather | Relaxed atomics read one by one while written; two registrations of one name at once; labels in any order; NaN |
| **Protocol** `sf-protocol/src` | none | the requests and events as data | Carried by the modules that use it; its JSON is in `Wire` |
| **Browser client, negotiation** `sf-wasm/src/{peer,client,peer_manager}.rs` | a peer connection for each known peer | `connect_to_peer`, `make_offer`, `handle_offer`, `handle_candidate`, sending of candidates | One thread, but every `.await` lets other tasks in: what was looked at before it may be stale after. Messages are reordered by the server; both sides may call at once, or one side twice |
| **Browser client, WebSocket and callbacks** `sf-wasm/src/{websocket,callback,bindings}.rs` | the one WebSocket, a writer queue of 32, the callbacks, a data channel for each peer | connect, reader loop, writer loop, notify, the calls of the page | The reader handles one message at a time and may itself wait for the queue; borrows are held while callbacks and promises run; two tasks and a field tell the page of one channel |
| **WebRTC wrappers** `sf-webrtc/src` | the browser's objects, channels of events | promises as futures, events as streams | The environment of the negotiation |
| **Node** `sf-node/src` | a map protocol to transport | dial, listen, poll | Everything is handled inside one poll: it may return only when every source has kept a waker |
| **WebTransport** `sf-wt-transport/src` | a listener with an accept channel of 16 and pending events; a session behind a mutex; a leftover buffer per stream | listen, dial, accept, poll, open and accept streams, read, write | A closed channel, an accept task that outlives its listener, two parsers of one address, a mutex held over an await, futures that are dropped, buffers at their boundary |
| **Demo server, visualisation, logging, proxy** `sf-wt`, `sf-viz`, `sf-logging`, `docker` | none of interest | glue | Not modelled |

How they interact: the server calls the identifier parser on every connection,
increments gauges and histograms, and owns one mailbox per client. A client sends
requests into the server and reads its mailbox; the order of a mailbox is not the
order of sending, since `send_to_peer` spawns a task for each request. Within the
page the client's tasks share the peer connections.

`PROJECT.json` lists the hazards of the code line by line, with the properties
that cover each, and maps every definition to the lines it models.

## 2. The modules

| module | models | about |
|---|---|---|
| `SignalServer` | `state.rs`, `ws.rs`, `peer_handler.rs` | registry, connection tasks, spawned sends, channels, sockets |
| `Mailbox` | (abstract) | what the server promises to whoever sends to a connection |
| `Negotiation` | `peer.rs`, `client.rs`, `websocket.rs` (reader) | two or more clients negotiating over the Mailbox |
| `PeerConnection` | `sf-webrtc/src/peer_connection`, and the browser's RTCPeerConnection behind it | signalling state and descriptions; data only |
| `ClientSocket` | `websocket.rs`, `peer_manager.rs`, `client.rs` (connect) | writer loop, bounded channel, reader loop, known peers |
| `ClientPage` | `bindings.rs`, `callback.rs`, `client.rs`, `peer.rs` (channels), `sf-webrtc/src/data_channel` | the page's calls and callbacks, data channels and their events |
| `PeerId` | `peer_id.rs`, `hex.rs`, `serde.rs`, percent decoding | codecs and comparisons as operators and functions |
| `Wire` | `sdp.rs`, `sdp_type.rs`, `ice.rs`, the JSON of `sf-protocol` | conversions of descriptions and candidates |
| `Outcome` | | the result of a conversion: a value, an error, a panic |
| `PeerIdTravel` | `extract_peer_id.rs` and the callers of the codecs | an identifier, or a description, sent on from form to form |
| `Histogram` | `histogram.rs`, `implementation.rs` | registration, observers, timers, readers |
| `Metrics` | `counter.rs`, `gauge.rs`, `common.rs`, `implementation.rs` | `Histogram`, or a counter or a gauge beside it, and the gathered text |
| `NodeEvents` | `node.rs`, `sf-wt-transport/src/lib.rs`, `listener/native.rs`, `listen_on` | the node's poll of its listener, wakers, the accept task |
| `WtConnection` | `lib.rs`, `connection.rs`, `stream.rs`, `platform/native.rs` of `sf-wt-transport`; `stream.rs` of `sf-node` | addresses, dialling, the session's mutex, streams |
| `MC...` | | constants for TLC |
| `...Proofs` | | theorems, one module for each specification |

Definitions whose comment begins with *Mutant* are deliberately wrong versions of
the definition that follows, as a slip in the code would make them. No
specification uses them; they serve to see that a property notices.

**SignalServer.** A step is what happens between two points where another task can
be seen: one operation of the map, the gauge or a channel, one read or write of a
socket. `pc[c]` is the place of the connection's task in
`handle_ws_connection`/`process_ws`:

    new -> insert -> count -> broadcast -> loop <-> write
                                            |  \-> broadcast (Forward to all)
                                            v
                              remove -> uncount -> drop -> closed

`peers` and `peer_count` are `AppState`; `queue[c]` is the bounded channel,
`tasks[c]` the requests held by tasks that `send_to_peer` spawned for `c` (a set:
tasks run in any order), `hand[c]` the request the loop has taken and is writing.
`todo` and `ids` are the iteration over the map in `broadcast_forward_except`:
DashMap locks one shard at a time, so each key is read at a moment of its own.
`link[c]` is the client: it reads, it has stopped reading (`stalled`), or it is
gone without a Close. `Flaky` names the connections for which something outside
fails, `Deaf` those whose client never reads, `Talkers` those whose client sends.
`delivered`, `audience`, `overwrote` and `unannounced` are history. A read stream
that yields `None` disables its branch of the `select!` and no more, hence no step.
`AnnounceFails` is the error branch of `PeerID::random`; on a native build the
generator does not fail, so the model allows more than the program does there.
A sender named in a Forward to one peer is passed on as the client wrote it
(`peer_handler.rs:118`); only a broadcast carries the connection's own identifier.

**Mailbox.** Whatever is posted to an open mailbox stays until it is delivered, at
most once and in any order, or until the mailbox closes. `ImplementsMailbox` maps
a connection's `tasks`, `queue` and `hand` to the mailbox's contents; closing is
the moment the task leaves the loop. `Negotiation` is written against the
Mailbox and not against the server.

**Negotiation.** A step is what a client does between two awaits. `call[c][n]` is
the n-th call of `connect_to_peer`, `reader[c]` the reader loop, which does not take
the next message before the handler has returned; the candidates' task of each
connection runs beside both. `pc[c][p]` is the peer connection, with the rules of
the browser's object in `PeerConnection`: when a promise rejects, what becomes
pending and what current, and that a remote offer rolls back a pending local one.
These rules are the W3C definition, not code of this repository, and are marked
external in the map. Answers travel in `WebRtcOffer` messages, as in the code.
`Lose` is the loss of the WebSocket, for good, because `connect` refuses a second.

**ClientSocket.** The same client one layer below: what `send_peer_request` does with a
request. Every send clones the channel's `Sender`, and futures' mpsc grants every clone one
place, so the send itself never fails for want of room; the task is parked until the
writer has taken one for it. `queue`, `parked` and `writer` are this protocol, `sent` and
`written` its history. The reader sends on the same channel when it answers, and takes no
message while it is parked. The WebSocket may open late, or fail before or after.
When the writer has ended a request is dropped and its caller told nothing
(`peer.rs:147`), which the model does, too.

**ClientPage.** One page has one thread. `ready` is the queue of tasks of
wasm-bindgen-futures, first in first out; the browser fires events, and the page's script
runs, only when it is empty. A callback runs inside the task that notifies, and may make any
call of the client. Two borrows are modelled because they decide what a call does: the one
wasm-bindgen takes on the wrapper for each exported method (shared by promises until they
are done, alone for `onEvent` and `removeOnEvent`), and the one `notify_event` holds on the
map of callbacks (`client.rs:152`). A method that cannot borrow the wrapper throws;
`onEvent` or `removeOnEvent` inside a callback traps, because the map is borrowed, and the
wrapper's borrow is never returned: `lost`. A data channel is a pair of streams with a task
on each; the channel a peer sends through, `dc`, is set by the call that made it or by the
task that hears of one from the other side. The browser makes an incoming channel open and
announces it afterwards, so its state stream queues the state it finds (`futures.rs:140`)
and the open event as well (`:145`): the page hears `DataChannelOpen` twice. `owed`,
`early`, `latest`, `told` and `misheard` are history: what each callback has still to hear,
of which incoming channels it has had the early word, the youngest channel of each peer,
what was last said of it, and whether a callback heard something out of turn, a second early
word included. What happens is owed once; the early word is owed by nothing and allowed once
for each incoming channel.

**PeerId, Wire, PeerIdTravel.** Texts are sequences of digit values, where capital and
small letters differ and one value stands for everything that is not a digit; a
panic is a result of its own. `PeerIdTravel` starts from a fresh identifier, from any text, request
or wire form, or from a description or candidate of a browser, and then repeats the
conversions of server, client and storage, including the changes a client or proxy may make
on the way (capital digits, percent escapes). A request has at most one header and a list of
parameters, of whose keys it matters only whether they are `peer_id`, another one or none. Absent
fields become `null` in JSON, and in the browser's objects, and come back. The browser's candidate
has a field that the wire's has not, `usernameFragment`; the conversion names three fields
(`ice.rs:49`) and leaves it behind.
`PeerID::random` parses 64 digits whatever `S` is, and so fails for `S` below 32. The serde form
handed to JavaScript is an array of bytes, while `TryFrom<JsValue>` wants a string.

**Histogram, Metrics.** An `Arc` is an index, so two handles share atomics or do not.
All atomic operations are Relaxed and on different locations: an observation is
three additions that take effect in any order, even after those of the thread's next
observation, and a reader's loads are in any order, too. Floats are integers
(thousandths) and two values that are not finite; rounding of the sum is left out.
With a NaN among the buckets the sort promises only a permutation and the binary
search only an index in range; the model takes any. Without one there is a single result, which
`Sorted` computes by insertion. (A sort may also panic on such an
order; that outcome is not modelled.) The three maps of `InMemoryMetrics` have nothing in common,
so a behaviour of `Metrics` is about one metric of one kind. A counter or gauge is one atomic for
each `LabelKey`, the labels sorted by name; names are assumed distinct, since the sort is unstable
and leaves the order of equal names open; `ValuesAddUp` says what the value is, the fold of the
calls for these labels. `increment_by` refuses what is less than zero,
which a NaN is not (`counter.rs:28`): the counter is then NaN for ever, and the
properties say so. `gather_metrics_string` loads one value after the other.

**NodeEvents.** `at` is the place of the poll: `poll_next_event` starts over after every
event (`Report`), `WebTransport::poll` looks at `pending` first, then `Listener::poll_next` at
`hello` (its `pending_event`), at the interface watcher and at the accept channel. Other
threads add to the sources between any two looks. A source that had nothing keeps the waker
of the owner's task (`wakers`) and calls it once; `woken` is that the runtime will poll
the owner. `task[g]` is the task that accepts sessions for the endpoint of the `g`-th `listen`:
it outlives the listener and notices only when it sends. tokio's channel makes a task yield that
has used up its budget; without this a closed channel, which `poll_next` answers with `continue`,
would never let the poll return. With it, the owner is polled again and again and never rests:
`NodeRests` therefore assumes that the endpoint lives, and `SessionsReported` does not. The node
reports by logging only; the stream it implements never yields an event, and an accepted
session is dropped with its report.

**WtConnection.** What the two ends of a connection do once they have found each other, and
whether they do. A multiaddr is a sequence of protocols. `listen_on` takes the last ip and
the last port of an address, wherever they stand, and reports the address as it was given: a
wildcard is reported as a wildcard (`lib.rs:104`), which no other node can dial, and port 0
as port 0 although the system has chosen another (`platform/native.rs:56`). For a wildcard
the interfaces of the family come after it, with the real port. `dial` uses a parser of its
own, which wants ip, udp, anything, webtransport, and unwraps what it returns (`lib.rs:62`):
an address the first parser accepts can make the second panic. The calls on a connection
share the session behind a tokio Mutex, which is fair: `lock` is its queue, and a dropped
future leaves it. The remote side opens streams, allows them, or closes. One stream is
written and read; `poll_write` reports all of the buffer as written whatever the QUIC stream
took (`stream.rs:51`), `left` being the bytes it did not take, and `poll_read` keeps what
did not fit in `read_buf`, from which a read that asks for more than is left indexes beyond
the end and panics (`stream.rs:73`).

## 3. The runs

| run | instance | states | shows |
|---|---|---|---|
| `server_pair` | two identifiers; one client sends a frame, the other never reads and may fail; channel of 1 | 91,609 | `Routed`, `MutualDiscovery`, `ImplementsMailbox`, and under fairness `MailDrains`, `GoneIsRemoved` |
| `server_trio` | two connections of one identifier, one of which may fail, and a third that joins beside them | 3,145,286 | `NoStaleHandler`, `ServedIsFound`, `GaugeAccount`, `BroadcastReaches` |
| `peer_id` | `S` in 1, 2, 32, 127, 128, 255, 256, 258; texts, requests and wire forms around the ends of what `S` allows; payloads with and without each field | 14,414 | `SameIdentifier`, `SamePayload`, `NeverRefused` |
| `negotiation` | two clients, one calls twice, one once, a candidate each | 172,111 | `NoOrphanOffer`, `CandidatesAreTaken`, `AnswersFit`, `RemoteIsFinal`, `LossNeedsOvertaking`, and under fairness `OneCallConnects`, `CrossedCallsAnswered` |
| `client_socket` | two tasks and the reader, two requests each, two messages, a channel of 1 | 174,529 | `WrittenInOrder`, and under fairness `AllWritten`, `MessagesHandled` |
| `client_page` | one peer, two callbacks, two calls, a channel of the other side, a message, an offer | 1,501,188 | `HeardInOrder`, `EventsTellWhatWorks`, and under fairness `PageRests` |
| `metrics_readers` | two threads, a histogram, a counter or a gauge, two sets of labels in both orders, two changes, a reader | 859,789 (up to symmetry) | `SnapshotHolds`, `ValuesAddUp`, `GatheredInTime` |
| `metrics_timers` | two threads that race to register a histogram with one of four requests for buckets, two observations, one of them through a timer that may be stopped or dropped | 773,964 (up to symmetry) | `NothingLost`, `BucketsOfTheFirst` |
| `node_events` | two calls of `listen`, two sessions, two interface events, channel of 1, budget of 2; the second endpoint may close | 237,161 | `NoLostWakeup`, `ReportedInOrder`, `OrphanTakesOne`, and under fairness `SessionsReported`, `NodeRests` |
| `wt_connection` | nine addresses, two interfaces, two calls, one stream of 4 bytes received 3 at a time at most | 708,440 | `DialReachesListener`, `ReadInOrder`, `EndMeansAll`, `SafeBuffers`, and under fairness `CallsGetThrough` |
| `server_duplicate`, `peer_id_odd` | | | violations, see [5](#5-findings) |

**Why the bounds are enough.** The server's hazards are races of two operations of one task
with another task, about one identifier: two connections of the same identifier meet all of
them, and a third is needed only to see a broadcast pass by two that come and go. A channel
of one request is full as often as possible; no code depends on its size. A frame is one of
each kind the loop distinguishes, and `received` only labels messages. In the negotiation
one client can have two calls open while the other calls once: offers that cross, a second
offer before the first answer, and a second offer on an established connection. With a
buffer of one and three senders the client's channel is above its bound in every combination
of parked tasks. At the page one callback can call the client, throw, or remove another
while it hears of the one peer's channels, of which there can be three in turn; events of
different peers meet only in the queue of tasks. The identifier's sizes sit on both sides of
every boundary of the code (`u8`, one byte of varint, the buffer). For the histogram two
observations by two threads overlap in every order, and a bound of the bucket is observed
exactly and exceeded. At the node a second session finds the channel full, a second `listen`
replaces a listener at any point of its life, two interface events can be in or out of the
family and in either order, and no part of the poll remembers more than one event. On a
stream a receive of three bytes can leave a leftover of two, and one of one after another
read, with the last byte still to come. Addresses are of every form one of the two parsers
accepts and the other refuses. What the small instances cannot show is shown by the proofs
for every size.

`CHECK_DEADLOCK` is off everywhere: the programs may rightly stop, when every client
has left, all calls are done or every observation has been made, or the node sleeps and nothing
more happens. That nobody waits for ever is the liveness properties' to say.

**Fairness.** Server: weak fairness of each connection's own steps (`Run`) and of
its spawned sends (`SendTask`); the tokio runtime polls a task that can go on, and
of the senders that wait for room in a channel some one gets it. Nothing is assumed of the clients:
reading frames, closing and failing are never forced, and a client that does not
read blocks the write in the model, too. Negotiation: weak fairness of the reader
loop and of each call, which is the browser running its tasks. Delivery is part of
the reader's step: that a message on its way arrives is what `MailDrains` says of
the server, for clients that keep reading. `connect_to_peer` is never forced. Client socket: weak
fairness of the two loops, and of the browser deciding whether a WebSocket opens or fails. Page:
weak fairness of the tasks in `ready` and of the callbacks of a notification, for the
executor of wasm-bindgen-futures runs its queue to the end; events and the script are never forced.
Node: weak fairness of the poll, of a task that is woken, and of an accept task that holds a session
and finds room; sessions, interface events, `listen` and the end of an endpoint are never forced.
Connection: weak fairness of the call that has the mutex and whose answer is there; the remote
side never owes anything, and callers may drop their futures.

**What the liveness properties say, and what they do not.** `OneCallConnects`: if one side
calls once, and the WebSockets stay up, both end with the same exchange completed.
`CrossedCallsAnswered`: if both call once, each completes an exchange. It does not say the
same one: `handle_offer` does nothing about offers that cross, and with both offers out the
two sides can end with different descriptions in force. A client that calls twice can do
worse: the answer to its first offer may be applied to the second, and a second offer on an
established connection is not set and not answered, so the caller stays in have-local-offer.
Both are about descriptions: a candidate that comes before its description is dropped and
nobody sends it again (`peer.rs:115`), and `LossNeedsOvertaking`, an action property, says
that this takes an overtaking. And both assume that the WebSockets stay up, since a client
that has lost its own never gets another (`client.rs:187`). `CallsGetThrough` makes an
exception for a connection on which the call that has the mutex waits for the remote side:
while `accept_stream` waits, `open_stream` and even `close` wait behind it
(`connection.rs:46`). `EventsTellWhatWorks` is about the youngest channel of a peer: the
events do not say which of several channels they are about, and an older one that is
replaced goes on reporting, so that what they say of it is no guide to what
`sendMessageToPeer` does. `NodeRests` is only said while the endpoint lives: when it has
ended the poll spins (`listener/native.rs:88`). `EndMeansAll` accounts for the bytes that
short writes left out and does not promise that there are none. All this is behaviour of the
specifications, taken from the code; no text in the repository claims otherwise, so it is
recorded here and not as a finding.

**The gauge.** After the race of `server_duplicate` the gauge "Connected peers" (`state.rs:26`)
never comes back: it is incremented for an insert that replaced an entry and
decremented only when there was one to remove. `GaugeAccount` says by exactly how much it
is off: by one for every entry that was overwritten.

## 4. The proofs

All theorems are about the specifications as they stand, for all constants that
satisfy the named assumptions: finite sets of connections and peers with an
identifier for each connection, `None` and `System` outside them, a channel of at
least one request, natural numbers as bounds, amounts and bounds of buckets that are
numbers or NaN, labels that are sequences of pairs of a name and a value with no name
twice, ips that are ips, texts made of characters, and payloads of the two kinds a
browser makes. TLC evaluates the assumptions on every run. Every invariant and every
action property that a run checks is stated by a theorem; what only TLC checks is at
the end of this section.

The installed provers cannot instantiate the induction theorems of the library.
Where a fact is about all sequences or all finite sets it is proved by the least
counterexample: the library does state that `<` on the natural numbers is well founded in
a form that can be cited, and with it a set of numbers has a least member. A fold or a
recursive function is then unrolled into the chain of its values. The model has no
`RECURSIVE` operator.

**Server** (`SignalServerProofs`). Each theorem is `Spec => []P` by an inductive
invariant that implies `P`:

- `TypeCorrect`: `TypeOK`, with it that the channel keeps its bound.
- `HandlersAreLive`, `ServedConnectionsAreFound`: `RegistryInv`. An entry belongs to an
  enlisted connection of its identifier; an enlisted connection is registered unless
  an insert for its identifier has overwritten one. Neither half is inductive alone: a
  removal by identifier takes away the entry of whoever is filed there, which is the
  leaving connection itself only as long as the other half holds.
- `GaugeAccounts`: `GaugeInv` with `OverwroteInv`. The account of the gauge moves by one in
  each of the five steps that touch the map or the gauge; the lemmas are about
  cardinalities of a set with one element added or removed. `OverwroteInv`
  says that whoever overwrote an entry is past its insert, so that `overwrote` gains a
  new element when it grows.
- `RequestsAreRouted`: a request is posted to the connection filed under the name it
  carries, which by `RegistryInv` presented this name; from then on it moves between
  `tasks`, `queue`, `hand` and `delivered` of one connection. `HandInv` (a request is in hand only
  during the write) makes the hand-over lose nothing.
- `BroadcastsReach`: `AudienceInv` (whoever was registered when a broadcast began has
  inserted, and inserts no second time), and what a served connection has been sent it
  keeps (lemma `NothingLost`).
- `PeersDiscoverEachOther`: `DiscoveryInv`: of any two registered connections, one still owes
  the other its NewPeer (it has not begun its broadcast, or the other is on its lists) or
  has told it. `ReceivedInv` (no frame is counted before the NewPeer broadcast) keeps that
  broadcast apart from later ones.

The last part proves `ServerImplementsMailbox`: the initial states map to initial states,
and every step is a post, a delivery, a closing or no step of the Mailbox. A broadcast sends
a message that has never been sent before (`Numbered`, `Unsent`), and a message is in one
place at a time (`OnePlace`): without these two a step could be a second post.

**Negotiation** (`NegotiationProofs`), for any number of clients, calls and candidates.
The inductive invariant `Inv` is the conjunction of the types and of what ties the
three kinds of tasks of a page together: `ConnectionInv` (what a peer connection's
signalling state says of its descriptions), `ReaderInv` and `CallInv` (where a task is
says what it has already done), `OffersInv` (descriptions on their way were made by a
call or a reader), `AnswersFit` and `CandidatesAreTaken`. From it: `NegotiationTypeCorrect`,
`OffersAreTended`, `CandidatesTaken`, `AnswersFitOffers`, and the action property
`RemoteStays`. The heart is that `set_remote_description` still finds no description
where the reader looked before the await: only the reader loop itself sets one, and it
handles one message at a time. `CandidatesAreLostByOvertaking` (`LossNeedsOvertaking`) has an invariant
of its own, on top of `Inv`: whoever made an offer stays able to take the answer (`OutInv`), so that
a description that is read is also set; and as soon as a client may send candidates, its
description is with the other one or on its way to it (`DescribedInv`), in a message, in a call or in
a reader loop. The mutants show that neither the check in `handle_offer`
nor the order of `set_local_description` and sending can be given up.

**Client socket** (`ClientSocketProofs`), for any number of tasks, requests and any buffer.
`OrderOfRequests` rests on `Inv`: as long as the writer lives, `sent` is, index by index,
`written`, the request in its hands and `queue` (`WaitingPart`); afterwards only the first
part is left (`WrittenPart`); before `connect` there is nothing (`Before`). `QueueStaysBounded`:
the channel holds no more than its buffer and one request for each parked task, which is
what bounds it although every send clones the `Sender`. `PeersListedOnce`: every peer with
a connection is on the page's list, and nobody twice. The last two are proved without being
stated in a run.

**Page** (`ClientPageProofs`). `CallbacksHearInOrder` (`HeardInOrder`) and `EventsAreTrue`
(`EventsTellWhatWorks`) rest on `PageInv`. What makes them true is that events of the browser and
the page's script find all tasks at rest, so that at most one thing is due: either a
notification is going on, and the callbacks left of it are still to hear it (`BeingNotified`), or
one task is about to notify (`OneDue`), or nothing is due (`NothingDue`). What is due may be an early
word, which is then the first about its channel (`DueTo`): as long as the task of an incoming channel
is in `ready`, nobody has had one (`IncomingPart`), and only that task queues the state that becomes
it. `ReadyPart` says that a stream with something in it has its task in `ready`, and that the task of
an incoming channel is alone there; `PeersPart` that a peer sends through its youngest channel, or
that the task which will see to that is in `ready`; `CallsPart` what the calls in progress say of
the channels; `ToldPart` that what a callback was told last of a peer's youngest channel is the state
of that channel (`Knows`), unless it is still to hear of it. `NotifiedStayRegistered`:
the set of callbacks does not change while an event is being notified, whatever the callbacks call.

**Transport** (`WtConnectionProofs`). For the stream one inductive invariant: what was
received is what the reader got followed by the leftover (`ReadPart`), what was written is
what was offered less what short writes left out, in order (`WrittenPart`), the end is told
only when nothing is left (`EndPart`), and there is a leftover only after a buffer shorter
than a receive (`BufferPart`). From it `BytesInOrder`, `EndIsTheEnd`, `BuffersAreSafe`.
`ReportedAddressesReach` needs that interfaces are reported only for the family of the
socket and that no interface has a wildcard as its address; of the address `listen` was
given it speaks only if that is no wildcard.

**Node** (`NodeEventsProofs`). `NoWakeupIsLost` rests on what a poll has passed: `PastTransport`,
`PastPending`, `PastAddr` say that a source already looked at is still empty and has the waker, or
that the waker has been called since; `Asleep` is their sum when the poll returns.
`OrphansTakeOne` counts what an accept task has taken since its listener was replaced.
`NodeReportsInOrder` (`ReportedInOrder`) is by `LogInv`: for each listener there is a number `k` such
that the log has its first `k` sessions, in order, and its channel the next ones (`Sessions`), and a
number `n` such that the log has what was to be told of the first `n` interface events, and the
watcher holds the others (`Interfaces`). A listener that was replaced reports nothing more; one
that is still to come has done nothing (`StillToCome`).

**Metrics** (`MetricsProofs`). For the histogram one inductive invariant, `HistogramInv`:

- there is at most one storage, every handle, a thread's or a timer's, has the
  atomics filed for its labels, and distinct labels own distinct atomics;
- each observation that was recorded is assigned to a bucket in such a way that the
  additions in flight are those the recorded observations have not yet made, and each
  atomic holds the number, or the sum, of what has landed;
- each number a reader has already loaded lies between what had settled when it began and
  what had been issued when it was loaded.

From it `NoObservationIsLost` (`NothingLost`), `SnapshotsHold` (`SnapshotHolds`) and
`BucketsAreOfTheFirst` (`BucketsOfTheFirst`); the last one also needs that sorting and removing
duplicates give the finite bounds each once and in order, for every list without a NaN. For
counters and gauges, `ValuesAreTheCalls` (`ValuesAddUp`) is by `ValueInv`: there is a storage as
soon as there is a handle, a handle writes what is filed for its labels, and what is filed is what
the calls amount to. Its key is `SameLabels`: two lists of labels have the same key if and
only if they have the same pairs, in whatever order. `CountersGatheredInTime`: the values
from before a gathering, those put down and those there are now are in this order, where none
comes before every number, and a NaN is for ever.

**Identifiers and payloads** (`PeerIdTravelProofs`), for every capacity `S` and every text,
request, byte string and payload. `TravelInv`: nothing has been accepted yet, or what there
is stands for the accepted identifier in its form (an equal identifier; a text that spells
it, `Spells`; a request whose first parameter of the name encodes such a text, `Carries`;
its bytes), or it is a payload on its way, without its `usernameFragment` at most. From it
`IdentifiersSurvive` (`SameIdentifier`), `PayloadsSurvive` (`SamePayload`) and
`OnlyTheseRefusals` (`NeverRefused`). The most work is `percent_decode`: its recursive
function exists and is determined position by position (`DecoderIs`), and a text comes out
of it unharmed if each of its characters begins at some position of the query, raw or
escaped (`EncodedDecodes`); escaping the first or the last character keeps that.

**Only model-checked.** The liveness properties (`MailDrains`, `GoneIsRemoved`,
`OneCallConnects`, `CrossedCallsAnswered`, `AllWritten`, `MessagesHandled`, `PageRests`,
`SessionsReported`, `NodeRests`, `CallsGetThrough`), for the prover does not treat fairness and
`ENABLED`.

## 5. Findings

- `server_duplicate`: `add_peer` asks `contains_key` (`state.rs:44`) and inserts in a second
  operation (`:49`), so two connections of one identifier can both be accepted, although
  `error.rs:16` says that adding a peer that already exists is an error. The first one
  keeps being served without an entry.
- `peer_id_odd`: `sf-peer-id/src/error.rs:14` promises an error for an odd number of digits;
  `from_str` indexes the second of each pair (`peer_id.rs:237`) and panics.

## 6. What is not modelled

- Server: the counters of messages and the labels of metrics, which nothing reads back;
  the error of serialising a request, which cannot happen for these types; start-up.
- Extraction: multi-byte characters are one error.
- Identifiers: the reader for `no_std`; `TryFrom<JsValue>` of anything but a string.
- Client: metrics and logging.
- WebRTC wrappers: the streams nobody in the repository reads (connection and gathering
  states, negotiation needed), the configuration of ICE servers.
- Metrics: the layout of the text, duplicate names of labels, rounding of sums, overflow of
  the counts at 2^64.
- Node and WebTransport: the web server for fingerprints, certificates, the browser build.
- Demo, visualisation, logging and proxy: glue and user interface.

The first three lines are wordings or platforms; the rest is input and output, without a
state that the properties could be about.

## 7. The plan

Done: all specifications with their runs, and a proof of every invariant and action property
that a run checks.

To come, in this order:

1. **Refinement**: an abstract histogram, a bag of observations from which a reader takes what
   had settled and some of what is on its way, that `Histogram` implements; the client's channel
   as a Mailbox for one receiver that `ClientSocket` implements.
2. **Safety behind the liveness properties**: which steps can still be taken when a property of
   that kind is not yet fulfilled, as far as it can be said without `ENABLED`.
3. **Compositions**: `Negotiation` over `SignalServer` itself, on the smallest instance there
   is, to see that the Mailbox loses nothing the clients rely on.
