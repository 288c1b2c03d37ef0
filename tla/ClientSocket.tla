---------------------------- MODULE ClientSocket ----------------------------
(***************************************************************************)
(* The WebSocket of a sf-wasm Client: Client::connect, the loop that writes*)
(* what tasks send through a bounded channel, the loop that reads one      *)
(* message after the other and may itself have to send, and the peers the  *)
(* PeerManager knows of. Every send uses a clone of the channel's Sender,  *)
(* so the message always has a place; the task waits while there are more  *)
(* than the buffer holds.                                                  *)
(***************************************************************************)
EXTENDS Naturals, Sequences, FiniteSets

CONSTANTS
    Callers,    \* tasks of connect_to_peer and of gathered candidates
    Peers,
    Buffer,     \* CHANNEL_BUFFER_SIZE
    MaxSends,   \* requests each task sends (bound)
    MaxRead     \* messages the server sends (bound)

ASSUME SocketAssumption == "reader" \notin Callers /\ {Buffer, MaxSends, MaxRead} \subseteq Nat

Senders == Callers \cup {"reader"}
Request == Senders \X (1..MaxSends)

(* PeerEvent, as far as the reader's next steps depend on it; "other" is a *)
(* candidate, a Message, or what is no Forward or cannot be parsed.        *)
Incoming == [type : {"NewPeer", "WebRtcOffer"}, peer : Peers] \cup [type : {"other"}]

VARIABLES
    ws,        \* the browser's WebSocket; "none": Client.ws is None
    queue,     \* the mpsc channel
    parked,    \* the tasks that wait for the channel, first in first out
    writer,    \* websocket_writer_loop
    reader,    \* websocket_reader_loop: whether it handles a message
    inbox,     \* what the reader has still to take
    sends,     \* how many requests a task has sent
    peers,     \* PeerManager.peers
    known,     \* PeerManager.known_peer_ids
    sent, written, handled   \* history: requests queued, requests written, messages handled

channel == <<queue, parked, sends, sent>>
manager == <<peers, known>>
vars    == <<ws, channel, writer, reader, inbox, manager, written, handled>>

Idle  == [step |-> "idle"]
Ended == [step |-> "ended"]

TypeOK ==
    /\ ws \in {"none", "connecting", "open", "failed"}
    /\ queue \in Seq(Request) /\ parked \in Seq(Senders) /\ sends \in [Senders -> 0..MaxSends]
    /\ writer \in {Idle, Ended} \cup [step : {"write"}, msg : Request]
    /\ reader \in {"idle", "answer", "ended"} /\ inbox \in Seq(Incoming)
    /\ peers \subseteq Peers /\ known \in Seq(Peers)
    /\ sent \in Seq(Request) /\ written \in Seq(Request) /\ handled \in 0..MaxRead

(* Client::new and PeerManager::new.                                       *)
Init ==
    /\ ws = "none"
    /\ queue = <<>> /\ parked = <<>> /\ sends = [s \in Senders |-> 0]
    /\ writer = Ended /\ reader = "ended" /\ inbox = <<>>
    /\ peers = {} /\ known = <<>>
    /\ sent = <<>> /\ written = <<>> /\ handled = 0

-----------------------------------------------------------------------------
(* WebSocketConnection::connect: the channel is new and the loops spawned. *)
SpawnLoops == ws' = "connecting" /\ writer' = Idle /\ reader' = "idle"

(* connect refuses when there is a WebSocket, whatever became of it.       *)
Connect ==
    /\ ws = "none"
    /\ SpawnLoops
    /\ UNCHANGED <<channel, inbox, manager, written, handled>>

(* The browser opens the WebSocket, or loses it at any time.               *)
Opens == ws = "connecting" /\ ws' = "open"
    /\ UNCHANGED <<channel, writer, reader, inbox, manager, written, handled>>
Fails == ws \in {"connecting", "open"} /\ ws' = "failed"
    /\ UNCHANGED <<channel, writer, reader, inbox, manager, written, handled>>

-----------------------------------------------------------------------------
Free(s) == \A i \in DOMAIN parked : parked[i] # s

(* A task that has put the channel over its buffer waits to be unparked.   *)
Parked(s, q) == IF Len(q) > Buffer THEN Append(parked, s) ELSE parked

(* send_peer_request: when the writer has ended the error is logged and the*)
(* caller told nothing; the request is gone.                               *)
Send(s) ==
    /\ ws # "none" /\ Free(s) /\ sends[s] < MaxSends
    /\ sends' = [sends EXCEPT ![s] = @ + 1]
    /\ IF writer = Ended THEN UNCHANGED <<queue, parked, sent>>
       ELSE LET m == <<s, sends'[s]>> IN
            /\ queue' = Append(queue, m)
            /\ parked' = Parked(s, queue')
            /\ sent' = Append(sent, m)

-----------------------------------------------------------------------------
(* add_known_peer_id.                                                      *)
Known(p) == IF \E i \in DOMAIN known : known[i] = p THEN known ELSE Append(known, p)

(* get_or_create_peer with add_peer: it awaits Peer::new, which never      *)
(* suspends, so nothing comes between the look and the insertion.          *)
GetOrCreatePeer(p) ==
    IF p \in peers THEN UNCHANGED manager
    ELSE peers' = peers \cup {p} /\ known' = Known(p)

(* listPeers of the page.                                                  *)
ListPeers == known

(* connect_to_peer, or a candidate that was gathered.                      *)
CallerSends(s, p) ==
    /\ s \in Callers /\ Send(s)
    /\ GetOrCreatePeer(p)
    /\ UNCHANGED <<ws, writer, reader, inbox, written, handled>>

-----------------------------------------------------------------------------
(* The writer takes a request, and the first task that waits goes on.      *)
WriterTakes ==
    /\ writer = Idle /\ queue # <<>>
    /\ writer' = [step |-> "write", msg |-> Head(queue)]
    /\ queue' = Tail(queue)
    /\ parked' = IF parked = <<>> THEN parked ELSE Tail(parked)
    /\ UNCHANGED <<ws, sends, sent, reader, inbox, manager, written, handled>>

(* Mutant: the writer does not wait for the WebSocket to be open.          *)
WriterWritesAtOnce ==
    /\ writer.step = "write" /\ ws # "failed"
    /\ writer' = Idle
    /\ written' = IF ws = "open" THEN Append(written, writer.msg) ELSE written
    /\ UNCHANGED <<ws, channel, reader, inbox, manager, handled>>

WriterWrites ==
    /\ writer.step = "write" /\ ws = "open"
    /\ writer' = Idle /\ written' = Append(written, writer.msg)
    /\ UNCHANGED <<ws, channel, reader, inbox, manager, handled>>

(* Mutant: the writer ends but keeps its end of the channel.               *)
WriterStops ==
    /\ writer.step = "write" /\ ws = "failed"
    /\ writer' = Ended
    /\ UNCHANGED <<ws, channel, reader, inbox, manager, written, handled>>

(* A send error ends the loop: with the receiver go the requests in the    *)
(* channel, and whoever waits goes on.                                     *)
WriterEnds ==
    /\ writer.step = "write" /\ ws = "failed"
    /\ writer' = Ended /\ queue' = <<>> /\ parked' = <<>>
    /\ UNCHANGED <<ws, sends, sent, reader, inbox, manager, written, handled>>

-----------------------------------------------------------------------------
Received == handled + Len(inbox) + (IF reader = "answer" THEN 1 ELSE 0)

ServerSends(m) ==
    /\ ws = "open" /\ Received < MaxRead
    /\ inbox' = Append(inbox, m)
    /\ UNCHANGED <<ws, channel, writer, reader, manager, written, handled>>

(* handle_incoming_text: only an offer makes the reader send itself.       *)
ReaderTakes ==
    /\ reader = "idle" /\ Free("reader") /\ inbox # <<>>
    /\ inbox' = Tail(inbox)
    /\ LET m == Head(inbox) IN
       CASE m.type = "WebRtcOffer" ->
                reader' = "answer" /\ GetOrCreatePeer(m.peer) /\ UNCHANGED handled
         [] m.type = "NewPeer" ->
                /\ known' = Known(m.peer) /\ handled' = handled + 1
                /\ UNCHANGED <<reader, peers>>
         [] OTHER -> handled' = handled + 1 /\ UNCHANGED <<reader, manager>>
    /\ UNCHANGED <<ws, channel, writer, written>>

(* handle_offer ends with the answer, or in an error that is logged.       *)
ReaderAnswers ==
    /\ reader = "answer"
    /\ Send("reader") \/ UNCHANGED channel
    /\ reader' = "idle" /\ handled' = handled + 1
    /\ UNCHANGED <<ws, writer, inbox, manager, written>>

ReaderEnds ==
    /\ reader = "idle" /\ Free("reader") /\ inbox = <<>> /\ ws = "failed"
    /\ reader' = "ended"
    /\ UNCHANGED <<ws, channel, writer, inbox, manager, written, handled>>

-----------------------------------------------------------------------------
Writer == WriterTakes \/ WriterWrites \/ WriterEnds
Reader == ReaderTakes \/ ReaderAnswers \/ ReaderEnds

Next ==
    \/ Connect \/ Opens \/ Fails
    \/ \E s \in Callers, p \in Peers : CallerSends(s, p)
    \/ Writer \/ Reader
    \/ \E m \in Incoming : ServerSends(m)

(* The browser runs the two loops, and opens a WebSocket or gives it up.   *)
Fairness == WF_vars(Writer) /\ WF_vars(Reader) /\ WF_vars(ws = "connecting" /\ (Opens \/ Fails))

Spec == Init /\ [][Next]_vars /\ Fairness

-----------------------------------------------------------------------------
(* The request the writer has in its hands.                                *)
InHand == IF writer.step = "write" THEN <<writer.msg>> ELSE <<>>

(* Requests are written in the order in which the tasks sent them, none is *)
(* left out or written twice; what a failure takes away is always the end. *)
WrittenInOrder ==
    /\ Len(written) <= Len(sent) /\ written = SubSeq(sent, 1, Len(written))
    /\ writer # Ended => sent = written \o InHand \o queue

(* The bound of the channel does not hold for the clones of its Sender, but*)
(* what is above it is one request for every task that waits.              *)
QueueBounded == Len(queue) <= Buffer + Len(parked)

(* Every peer with a connection is on the list the page sees, and nobody is*)
(* on it twice, in whatever order offers, calls and announcements come.    *)
ListedOnce ==
    /\ \A p \in peers : \E i \in DOMAIN ListPeers : ListPeers[i] = p
    /\ \A i, j \in DOMAIN ListPeers : ListPeers[i] = ListPeers[j] => i = j

(* A request is written, unless the WebSocket fails: those sent before it  *)
(* was open are kept.                                                      *)
AllWritten ==
    \A k \in 1..(MaxSends * Cardinality(Senders)) :
        Len(sent) >= k ~> Len(written) >= k \/ ws = "failed"

(* A reader that has to send itself does not stop reading: every message   *)
(* that arrives is handled, even after the WebSocket has failed.           *)
MessagesHandled ==
    \A k \in 1..MaxRead : Received >= k ~> handled >= k
=============================================================================
