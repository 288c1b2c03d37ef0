---------------------------- MODULE Negotiation ----------------------------
(***************************************************************************)
(* The browser clients of sf-wasm as they set up WebRTC connections with   *)
(* each other: Client::connect_to_peer and Peer::make_offer, the reader    *)
(* loop of the WebSocket with handle_offer and handle_candidate, and the   *)
(* task that sends the gathered candidates. What a client does between two *)
(* awaits is one step; between its steps the other tasks of the page run.  *)
(* The signalling server between the clients is the Mailbox.               *)
(***************************************************************************)
EXTENDS Naturals, FiniteSets

CONSTANTS
    Clients,
    MaxCalls,       \* calls of connect_to_peer by each client (bound)
    MaxCandidates   \* candidates gathered by one peer connection (bound)

ASSUME BoundsAssumption == MaxCalls \in [Clients -> Nat] /\ MaxCandidates \in Nat

Calls == UNION {1..MaxCalls[c] : c \in Clients}

INSTANCE PeerConnection

Candidate == [type : {"candidate"}, by : Clients, num : 1..MaxCandidates]

(* WebRtcOffer (an answer is sent in one, too) and WebRtcCandidate.        *)
Message == Description \cup Candidate

VARIABLES
    pc,        \* PeerManager.peers of each client: the connection, or NoPeer
    call,      \* for each call of connect_to_peer: where it is, and to whom
    reader,    \* where the reader loop is, and with what message
    gathered,  \* how many candidates a connection has gathered
    rejected,  \* history: the browser rejected a candidate
    online, mail, got   \* the Mailbox: open WebSockets, messages on their way and read

vars == <<pc, call, reader, gathered, rejected, online, mail, got>>

NoPeer == [signaling |-> "absent"]
Idle   == [step |-> "idle"]

Relay == INSTANCE Mailbox WITH
    Boxes <- Clients, Messages <- Message, open <- online, pending <- mail, done <- got

CallSteps   == {"create_offer", "set_local", "send", "done", "failed"}
ReaderSteps == {"set_remote", "create_answer", "set_local", "send", "add"}

TypeOK ==
    /\ pc \in [Clients -> [Clients -> PeerConnections \cup {NoPeer}]]
    /\ call \in [Clients -> [Calls -> {Idle} \cup [step : CallSteps, to : Clients]]]
    /\ reader \in [Clients -> {Idle} \cup [step : ReaderSteps, peer : Clients, msg : Message]]
    /\ gathered \in [Clients -> [Clients -> 0..MaxCandidates]]
    /\ rejected \in BOOLEAN
    /\ online \in [Clients -> BOOLEAN]
    /\ mail \in [Clients -> SUBSET Message]
    /\ got \in [Clients -> SUBSET Message]

(* Both clients have connected their WebSockets.                           *)
Init ==
    /\ pc = [c \in Clients |-> [p \in Clients |-> NoPeer]]
    /\ call = [c \in Clients |-> [n \in Calls |-> Idle]]
    /\ reader = [c \in Clients |-> Idle]
    /\ gathered = [c \in Clients |-> [p \in Clients |-> 0]]
    /\ rejected = FALSE
    /\ Relay!Init

-----------------------------------------------------------------------------
(* send_peer_request: a message that cannot be queued because the writer   *)
(* loop has ended is lost, and so is one to a client that has left.        *)
SendPeerRequest(c, p, m) ==
    IF online[c] /\ online[p] THEN Relay!Post(p, m) ELSE UNCHANGED <<online, mail, got>>

(* Mutant: a new Peer for every message.                                   *)
CreatePeer(c, p) == New

(* get_or_create_peer.                                                     *)
GetOrCreatePeer(c, p) == IF pc[c][p] = NoPeer THEN New ELSE pc[c][p]

Offer(c, n)    == [type |-> "offer", by |-> c, of |-> <<c, n>>]
AnswerTo(c, d) == [type |-> "answer", by |-> c, of |-> d.of]

CallGoes(c, n, step) == call' = [call EXCEPT ![c][n].step = step]
ReaderDone(c)        == reader' = [reader EXCEPT ![c] = Idle]

-----------------------------------------------------------------------------
(* connect_to_peer up to the first await: the peer is there and has a data *)
(* channel.                                                                *)
ConnectToPeer(c, n, p) ==
    /\ c # p /\ n <= MaxCalls[c] /\ call[c][n] = Idle
    /\ \A k \in Calls : k < n => call[c][k] # Idle
    /\ pc' = [pc EXCEPT ![c][p] = GetOrCreatePeer(c, p)]
    /\ call' = [call EXCEPT ![c][n] = [step |-> "create_offer", to |-> p]]
    /\ UNCHANGED <<reader, gathered, rejected, online, mail, got>>

(* make_offer: create_offer.                                               *)
CreateOffer(c, n) ==
    /\ call[c][n].step = "create_offer"
    /\ LET p == call[c][n].to IN
       IF CanCreateOffer(pc[c][p])
       THEN /\ pc' = [pc EXCEPT ![c][p] = OfferCreated(@, Offer(c, n))]
            /\ CallGoes(c, n, "set_local")
       ELSE CallGoes(c, n, "failed") /\ UNCHANGED pc
    /\ UNCHANGED <<reader, gathered, rejected, online, mail, got>>

(* make_offer: set_local_description.                                      *)
SetLocalOffer(c, n) ==
    /\ call[c][n].step = "set_local"
    /\ LET p == call[c][n].to IN
       IF CanSetLocal(pc[c][p], Offer(c, n))
       THEN /\ pc' = [pc EXCEPT ![c][p] = SetLocal(@, Offer(c, n))]
            /\ CallGoes(c, n, "send")
       ELSE CallGoes(c, n, "failed") /\ UNCHANGED pc
    /\ UNCHANGED <<reader, gathered, rejected, online, mail, got>>

(* make_offer: send_peer_request.                                          *)
SendOffer(c, n) ==
    /\ call[c][n].step = "send"
    /\ SendPeerRequest(c, call[c][n].to, Offer(c, n))
    /\ CallGoes(c, n, "done")
    /\ UNCHANGED <<pc, reader, gathered, rejected>>

-----------------------------------------------------------------------------
(* Mutant: answers are answered, offers are not.                           *)
AfterRemoteSwapped(p, d) ==
    IF d.type = "answer" THEN [step |-> "create_answer", peer |-> p, msg |-> d] ELSE Idle

(* handle_offer, once the remote description has been looked at: an offer  *)
(* is answered, an answer is not.                                          *)
AfterRemote(p, d) ==
    IF d.type = "offer" THEN [step |-> "create_answer", peer |-> p, msg |-> d] ELSE Idle

(* Mutant: no offer is taken while an own one is out.                      *)
HandleOfferBusy(peer, p, d) ==
    IF d.type = "offer" /\ peer.signaling = "have-local-offer" THEN Idle
    ELSE IF Remote(peer) = NoDesc THEN [step |-> "set_remote", peer |-> p, msg |-> d]
    ELSE AfterRemote(p, d)

(* Mutant: the remote description is set whatever is there.                *)
HandleOfferAlways(peer, p, d) == [step |-> "set_remote", peer |-> p, msg |-> d]

(* handle_offer up to its first await.                                     *)
HandleOffer(peer, p, d) ==
    IF Remote(peer) = NoDesc THEN [step |-> "set_remote", peer |-> p, msg |-> d]
    ELSE AfterRemote(p, d)

(* The reader loop takes a message when it has finished the one before:    *)
(* handle_web_rtc_offer.                                                   *)
ReadDescription(c, d) ==
    /\ reader[c] = Idle
    /\ Relay!Deliver(c, d)
    /\ pc' = [pc EXCEPT ![c][d.by] = GetOrCreatePeer(c, d.by)]
    /\ reader' = [reader EXCEPT ![c] =
                     HandleOffer(GetOrCreatePeer(c, d.by), d.by, d)]
    /\ UNCHANGED <<call, gathered, rejected>>

(* set_remote_description. An error ends the handling of the message.      *)
SetRemoteDescription(c) ==
    /\ reader[c].step = "set_remote"
    /\ LET p == reader[c].peer
           d == reader[c].msg IN
       IF CanSetRemote(pc[c][p], d)
       THEN /\ pc' = [pc EXCEPT ![c][p] = SetRemote(@, d)]
            /\ reader' = [reader EXCEPT ![c] = AfterRemote(p, d)]
       ELSE ReaderDone(c) /\ UNCHANGED pc
    /\ UNCHANGED <<call, gathered, rejected, online, mail, got>>

(* create_answer.                                                          *)
CreateAnswer(c) ==
    /\ reader[c].step = "create_answer"
    /\ LET p == reader[c].peer
           d == AnswerTo(c, Remote(pc[c][p])) IN
       IF CanCreateAnswer(pc[c][p])
       THEN /\ pc' = [pc EXCEPT ![c][p] = AnswerCreated(@, d)]
            /\ reader' = [reader EXCEPT ![c] = [step |-> "set_local", peer |-> p, msg |-> d]]
       ELSE ReaderDone(c) /\ UNCHANGED pc
    /\ UNCHANGED <<call, gathered, rejected, online, mail, got>>

(* Mutant: the answer is sent before it is set.                            *)
SetLocalAnswerLate(c) ==
    /\ reader[c].step = "set_local"
    /\ SendPeerRequest(c, reader[c].peer, reader[c].msg)
    /\ reader' = [reader EXCEPT ![c].step = "send"]
    /\ UNCHANGED <<pc, call, gathered, rejected>>

(* set_local_description.                                                  *)
SetLocalAnswer(c) ==
    /\ reader[c].step = "set_local"
    /\ LET p == reader[c].peer
           d == reader[c].msg IN
       IF CanSetLocal(pc[c][p], d)
       THEN /\ pc' = [pc EXCEPT ![c][p] = SetLocal(@, d)]
            /\ reader' = [reader EXCEPT ![c].step = "send"]
       ELSE ReaderDone(c) /\ UNCHANGED pc
    /\ UNCHANGED <<call, gathered, rejected, online, mail, got>>

(* send_peer_request.                                                      *)
SendAnswer(c) ==
    /\ reader[c].step = "send"
    /\ SendPeerRequest(c, reader[c].peer, reader[c].msg)
    /\ ReaderDone(c)
    /\ UNCHANGED <<pc, call, gathered, rejected>>

-----------------------------------------------------------------------------
(* The browser gathers candidates once there is a local description, and   *)
(* the task of init_peer_connection_callbacks sends them, but for the null *)
(* candidate at the end.                                                   *)
SendCandidate(c, p) ==
    /\ pc[c][p] # NoPeer /\ Local(pc[c][p]) # NoDesc
    /\ gathered[c][p] < MaxCandidates
    /\ gathered' = [gathered EXCEPT ![c][p] = @ + 1]
    /\ SendPeerRequest(c, p, [type |-> "candidate", by |-> c, num |-> gathered'[c][p]])
    /\ UNCHANGED <<pc, call, reader, rejected>>

(* Mutant: a candidate is added without a look at the description.         *)
CanAddUnlooked(peer) == peer # NoPeer

(* handle_candidate: there must be a peer, and a remote description.       *)
CanAdd(peer) == peer # NoPeer /\ Remote(peer) # NoDesc

(* handle_web_rtc_candidate up to the await; what cannot be added is       *)
(* dropped with an error.                                                  *)
ReadCandidate(c, m) ==
    /\ reader[c] = Idle
    /\ Relay!Deliver(c, m)
    /\ IF CanAdd(pc[c][m.by])
       THEN reader' = [reader EXCEPT ![c] = [step |-> "add", peer |-> m.by, msg |-> m]]
       ELSE UNCHANGED reader
    /\ UNCHANGED <<pc, call, gathered, rejected>>

(* addIceCandidate: the browser rejects it without a remote description.   *)
AddIceCandidate(c) ==
    /\ reader[c].step = "add"
    /\ rejected' = (rejected \/ Remote(pc[c][reader[c].peer]) = NoDesc)
    /\ ReaderDone(c)
    /\ UNCHANGED <<pc, call, gathered, online, mail, got>>

(* The WebSocket is lost. connect refuses a second one, so that is for ever*)
Lose(c) == Relay!Close(c) /\ UNCHANGED <<pc, call, reader, gathered, rejected>>

-----------------------------------------------------------------------------
CallStep(c, n) == CreateOffer(c, n) \/ SetLocalOffer(c, n) \/ SendOffer(c, n)

ReaderStep(c) ==
    \/ \E d \in mail[c] \cap Description : ReadDescription(c, d)
    \/ \E m \in mail[c] \cap Candidate : ReadCandidate(c, m)
    \/ SetRemoteDescription(c) \/ CreateAnswer(c) \/ SetLocalAnswer(c) \/ SendAnswer(c)
    \/ AddIceCandidate(c)

Next ==
    \/ \E c \in Clients :
        \/ \E n \in Calls : CallStep(c, n) \/ \E p \in Clients : ConnectToPeer(c, n, p)
        \/ \E p \in Clients : SendCandidate(c, p)
        \/ ReaderStep(c)
        \/ Lose(c)

(* The browser runs every task that can go on; nobody has to call          *)
(* connect_to_peer. That a message on its way is delivered is what         *)
(* SignalServer promises (MailDrains).                                     *)
Fairness ==
    \A c \in Clients : WF_vars(ReaderStep(c)) /\ \A n \in Calls : WF_vars(CallStep(c, n))

Spec == Init /\ [][Next]_vars /\ Fairness

-----------------------------------------------------------------------------
(* A connection never swaps the description of the other side for another: *)
(* handle_offer only looks whether there is one before its first await, and*)
(* sets it after; the page's other tasks run in between.                   *)
RemoteIsFinal ==
    [][\A c, p \in Clients :
        pc[c][p] # NoPeer /\ Remote(pc[c][p]) # NoDesc =>
            pc'[c][p] # NoPeer /\ Remote(pc'[c][p]) = Remote(pc[c][p])]_vars

(* No connection is left with an offer nobody is answering: the reader loop*)
(* is on its way from set_remote_description to set_local_description.     *)
NoOrphanOffer ==
    \A c, p \in Clients :
        pc[c][p].signaling = "have-remote-offer" =>
            /\ reader[c] # Idle /\ reader[c].peer = p
            /\ reader[c].step \in {"create_answer", "set_local"}

(* The browser never rejects a candidate for want of a description: what   *)
(* handle_candidate saw before its await still holds after it.             *)
CandidatesAreTaken == ~rejected

(* handle_candidate drops a candidate that comes before the description of *)
(* its sender, and nobody sends it again. That takes one message overtaking*)
(* another: while both clients have their WebSockets, a candidate is never *)
(* dropped unless its sender's description is still on its way or about to *)
(* be sent. A description that arrived and was not taken is no excuse.     *)
LossNeedsOvertaking ==
    [][\A c \in Clients : \A m \in mail[c] \cap Candidate :
        m \notin mail'[c] /\ online'[c] /\ online[m.by] /\ reader'[c].step # "add" =>
            \/ \E d \in mail[c] \cap Description : d.by = m.by
            \/ \E n \in Calls : call[m.by][n].step = "send" /\ call[m.by][n].to = c
            \/ reader[m.by].step = "send" /\ reader[m.by].peer = c]_vars

(* An answer on its way or read answers the offer its sender holds as the  *)
(* description of the receiver, and goes to whoever made this offer, no    *)
(* matter how many offers crossed it.                                      *)
AnswersFit ==
    \A c \in Clients : \A d \in (mail[c] \cup got[c]) \cap Description :
        d.type = "answer" =>
            /\ d.of[1] = c
            /\ pc[d.by][c] # NoPeer
            /\ pc[d.by][c].currentRemote = Offer(d.of[1], d.of[2])

(* How often connect_to_peer has been called between two clients.          *)
CallsBetween(c, p) ==
    Cardinality({n \in Calls : call[c][n] # Idle /\ call[c][n].to = p})

(* A client has completed an exchange of descriptions with another one; and*)
(* both have completed the same.                                           *)
Completes(c, p) == pc[c][p] # NoPeer /\ pc[c][p].currentRemote # NoDesc

Connected(c, p) ==
    /\ pc[c][p] # NoPeer /\ pc[p][c] # NoPeer
    /\ pc[c][p].signaling = "stable" /\ pc[p][c].signaling = "stable"
    /\ pc[c][p].currentRemote # NoDesc
    /\ pc[c][p].currentRemote = pc[p][c].currentLocal
    /\ pc[p][c].currentRemote = pc[c][p].currentLocal

(* If one side calls connect_to_peer once, the other never, and neither    *)
(* loses its WebSocket, the two complete the exchange, whatever the order  *)
(* of the messages and of the tasks.                                       *)
OneCallConnects ==
    \A c \in Clients : \A p \in Clients \ {c} :
        [](online[c] /\ online[p] /\ CallsBetween(c, p) < 2 /\ CallsBetween(p, c) = 0)
            => (CallsBetween(c, p) = 1 ~> Connected(c, p))

(* If both sides call once, at any time, neither waits for the other: each *)
(* completes an exchange in the end, though not always the same one, for   *)
(* handle_offer does nothing about offers that cross.                      *)
CrossedCallsAnswered ==
    \A c \in Clients : \A p \in Clients \ {c} :
        [](online[c] /\ online[p] /\ CallsBetween(c, p) < 2 /\ CallsBetween(p, c) < 2)
            => (CallsBetween(c, p) = 1 ~> Completes(c, p))
=============================================================================
