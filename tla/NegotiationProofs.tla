------------------------- MODULE NegotiationProofs -------------------------
(***************************************************************************)
(* Proofs about Negotiation, for every set of clients, every number of     *)
(* calls and every number of candidates.                                   *)
(***************************************************************************)
EXTENDS Negotiation, TLAPS

USE BoundsAssumption

-----------------------------------------------------------------------------
(* The inductive invariant, beyond the types. A connection: an offer of the*)
(* other side is pending exactly in have-remote-offer, never beside a      *)
(* current description, and while the reader loop is answering it.         *)
ConnectionOK(c, p) ==
    LET q == pc[c][p] IN
    q # NoPeer =>
        /\ q.signaling = "have-remote-offer" <=> q.pendingRemote # NoDesc
        /\ q.pendingRemote # NoDesc =>
               /\ q.pendingRemote.type = "offer"
               /\ q.pendingRemote.by = p /\ q.pendingRemote.of[1] = p
               /\ q.currentRemote = NoDesc
               /\ reader[c].step \in {"create_answer", "set_local"}
               /\ reader[c].peer = p

ConnectionInv == \A c, p \in Clients : ConnectionOK(c, p)

(* The reader loop: what its next step relies on.                          *)
ReaderOK(c) ==
    LET m == reader[c].msg
        q == pc[c][reader[c].peer] IN
    /\ reader[c].step # "idle" => q # NoPeer
    /\ reader[c].step = "set_remote" =>
           /\ m \in Description /\ Remote(q) = NoDesc /\ m.by = reader[c].peer
           /\ m.type = "offer" => m.of[1] = reader[c].peer
    /\ reader[c].step \in {"create_answer", "set_local", "add"} => Remote(q) # NoDesc
    /\ reader[c].step = "set_local" =>
           /\ q.pendingRemote # NoDesc /\ m = AnswerTo(c, q.pendingRemote)
           /\ q.lastAnswer = m
    /\ reader[c].step = "send" =>
           /\ m \in Description /\ m.type = "answer" /\ m.by = c
           /\ m.of[1] = reader[c].peer
           /\ q.currentRemote = Offer(m.of[1], m.of[2])

ReaderInv == \A c \in Clients : ReaderOK(c)

(* A call that goes on has its connection.                                 *)
CallInv ==
    \A c \in Clients, n \in Calls :
        call[c][n].step \in {"create_offer", "set_local", "send"} =>
            pc[c][call[c][n].to] # NoPeer

(* An offer is of its sender.                                              *)
OffersInv ==
    \A c \in Clients : \A d \in (mail[c] \cup got[c]) \cap Description :
        d.type = "offer" => d.of[1] = d.by

Inv ==
    /\ TypeOK /\ ConnectionInv /\ ReaderInv /\ CallInv /\ OffersInv
    /\ AnswersFit /\ CandidatesAreTaken

(* What no step may undo: connections stay, and so do the descriptions of  *)
(* the other side.                                                         *)
Kept ==
    \A c, p \in Clients :
        pc[c][p] # NoPeer =>
            /\ pc'[c][p] # NoPeer
            /\ Remote(pc[c][p]) # NoDesc => Remote(pc'[c][p]) = Remote(pc[c][p])
            /\ pc[c][p].currentRemote # NoDesc =>
                   pc'[c][p].currentRemote = pc[c][p].currentRemote

-----------------------------------------------------------------------------
(* Absent peers, idle loops and missing descriptions are told apart from   *)
(* all others by their tags.                                               *)
LEMMA Tags ==
    /\ \A q \in PeerConnections : q # NoPeer /\ q.signaling \in Signaling
    /\ \A d \in Description : d # NoDesc /\ d \notin Candidate
    /\ New \in PeerConnections
BY DEF PeerConnections, NoPeer, Signaling, Description, NoDesc, Candidate, New

(* The operations of the browser's object keep its type.                   *)
LEMMA OperationTypes ==
    ASSUME NEW q \in PeerConnections, NEW d \in Description
    PROVE  /\ SetLocal(q, d) \in PeerConnections
           /\ SetRemote(q, d) \in PeerConnections
           /\ OfferCreated(q, d) \in PeerConnections
           /\ AnswerCreated(q, d) \in PeerConnections
           /\ Remote(q) \in Description \cup {NoDesc}
           /\ Local(q) \in Description \cup {NoDesc}
<1>1. SetLocal(q, d) \in PeerConnections
  BY DEF PeerConnections, SetLocal, Completed, New, Signaling
<1>2. SetRemote(q, d) \in PeerConnections
  BY DEF PeerConnections, SetRemote, Completed, New, Signaling
<1>3. OfferCreated(q, d) \in PeerConnections /\ AnswerCreated(q, d) \in PeerConnections
  BY DEF PeerConnections, OfferCreated, AnswerCreated
<1>4. Remote(q) \in Description \cup {NoDesc} /\ Local(q) \in Description \cup {NoDesc}
  BY DEF PeerConnections, Remote, Local
<1> QED
  BY <1>1, <1>2, <1>3, <1>4

(* What the clients make up is well formed.                                *)
LEMMA MadeTypes ==
    ASSUME NEW c \in Clients
    PROVE  /\ \A n \in Calls : Offer(c, n) \in Description
           /\ \A d \in Description : AnswerTo(c, d) \in Description
           /\ Description \subseteq Message /\ Candidate \subseteq Message
BY DEF Offer, AnswerTo, Description, OfferId, Message, Candidate

(* A connection may be exchanged for a typed one.                          *)
LEMMA PutType ==
    ASSUME TypeOK, NEW c \in Clients, NEW p \in Clients, NEW q \in PeerConnections,
           pc' = [pc EXCEPT ![c][p] = q]
    PROVE  pc' \in [Clients -> [Clients -> PeerConnections \cup {NoPeer}]]
<1>1. pc \in [Clients -> [Clients -> PeerConnections \cup {NoPeer}]]
  BY DEF TypeOK
<1> QED
  BY <1>1

(* The reader loop takes a typed step.                                     *)
LEMMA ReaderType ==
    ASSUME TypeOK, NEW c \in Clients,
           NEW r \in {Idle} \cup [step : ReaderSteps, peer : Clients, msg : Message],
           reader' = [reader EXCEPT ![c] = r]
    PROVE  reader' \in [Clients -> {Idle} \cup [step : ReaderSteps, peer : Clients, msg : Message]]
<1>1. reader \in [Clients -> {Idle} \cup [step : ReaderSteps, peer : Clients, msg : Message]]
  BY DEF TypeOK
<1> QED
  BY <1>1

(* A message sent is on its way, or lost.                                  *)
LEMMA SendTypes ==
    ASSUME TypeOK, NEW c \in Clients, NEW p \in Clients, NEW m \in Message,
           SendPeerRequest(c, p, m)
    PROVE  /\ online' \in [Clients -> BOOLEAN]
           /\ mail' \in [Clients -> SUBSET Message] /\ got' \in [Clients -> SUBSET Message]
<1>1. /\ online \in [Clients -> BOOLEAN]
      /\ mail \in [Clients -> SUBSET Message] /\ got \in [Clients -> SUBSET Message]
  BY DEF TypeOK
<1> QED
  BY <1>1 DEF SendPeerRequest, Relay!Post

(* A message read was on its way.                                          *)
LEMMA DeliverTypes ==
    ASSUME TypeOK, NEW c \in Clients, NEW m, Relay!Deliver(c, m)
    PROVE  /\ m \in Message
           /\ online' \in [Clients -> BOOLEAN]
           /\ mail' \in [Clients -> SUBSET Message] /\ got' \in [Clients -> SUBSET Message]
<1>1. /\ online \in [Clients -> BOOLEAN]
      /\ mail \in [Clients -> SUBSET Message] /\ got \in [Clients -> SUBSET Message]
  BY DEF TypeOK
<1> QED
  BY <1>1 DEF Relay!Deliver

(* Every step keeps the types.                                             *)
LEMMA TypeStep == Inv /\ [Next]_vars => TypeOK'
<1> SUFFICES ASSUME Inv, [Next]_vars PROVE TypeOK'
  OBVIOUS
<1>t. TypeOK
  BY DEF Inv
<1>1. CASE UNCHANGED vars
  BY <1>1, <1>t DEF TypeOK, vars
<1>2. ASSUME NEW c \in Clients, NEW n \in Calls, NEW p \in Clients, ConnectToPeer(c, n, p)
      PROVE  TypeOK'
  <2>1. GetOrCreatePeer(c, p) \in PeerConnections
    BY <1>t, Tags DEF TypeOK, GetOrCreatePeer
  <2> QED
    BY <1>t, <1>2, <2>1 DEF TypeOK, ConnectToPeer, CallSteps
<1>3. ASSUME NEW c \in Clients, NEW n \in Calls, CallStep(c, n)
      PROVE  TypeOK'
  <2> DEFINE p == call[c][n].to
  <2>1. call[c][n] \in [step : CallSteps, to : Clients] /\ p \in Clients
    BY <1>t, <1>3 DEF TypeOK, CallStep, CreateOffer, SetLocalOffer, SendOffer, Idle, CallSteps
  <2>2. pc[c][p] \in PeerConnections
    BY <1>t, <2>1, <1>3 DEF Inv, CallInv, CallStep, CreateOffer, SetLocalOffer, SendOffer, TypeOK
  <2>3. ASSUME NEW s \in CallSteps, CallGoes(c, n, s)
        PROVE  call' \in [Clients -> [Calls -> {Idle} \cup [step : CallSteps, to : Clients]]]
    BY <1>t, <2>1, <2>3 DEF TypeOK, CallGoes
  <2>g. Offer(c, n) \in Description
    BY MadeTypes
  <2>4. CASE CreateOffer(c, n)
    <3>1. /\ \E s \in CallSteps : CallGoes(c, n, s)
          /\ UNCHANGED pc \/ pc' = [pc EXCEPT ![c][p] = OfferCreated(pc[c][p], Offer(c, n))]
          /\ UNCHANGED <<reader, gathered, rejected, online, mail, got>>
      BY <2>4 DEF CreateOffer, CallSteps
    <3>2. pc' \in [Clients -> [Clients -> PeerConnections \cup {NoPeer}]]
      BY <1>t, <2>1, <2>2, <2>g, <3>1, PutType, OperationTypes DEF TypeOK
    <3> QED
      BY <1>t, <2>3, <3>1, <3>2 DEF TypeOK
  <2>5. CASE SetLocalOffer(c, n)
    <3>1. /\ \E s \in CallSteps : CallGoes(c, n, s)
          /\ UNCHANGED pc \/ pc' = [pc EXCEPT ![c][p] = SetLocal(pc[c][p], Offer(c, n))]
          /\ UNCHANGED <<reader, gathered, rejected, online, mail, got>>
      BY <2>5 DEF SetLocalOffer, CallSteps
    <3>2. pc' \in [Clients -> [Clients -> PeerConnections \cup {NoPeer}]]
      BY <1>t, <2>1, <2>2, <2>g, <3>1, PutType, OperationTypes DEF TypeOK
    <3> QED
      BY <1>t, <2>3, <3>1, <3>2 DEF TypeOK
  <2>6. CASE SendOffer(c, n)
    BY <1>t, <2>1, <2>3, <2>6, MadeTypes, SendTypes DEF TypeOK, SendOffer, CallSteps
  <2> QED
    BY <1>3, <2>4, <2>5, <2>6 DEF CallStep
<1>4. ASSUME NEW c \in Clients, NEW p \in Clients, SendCandidate(c, p)
      PROVE  TypeOK'
  <2>1. gathered[c][p] + 1 \in 0..MaxCandidates /\ gathered[c][p] + 1 \in 1..MaxCandidates
    BY <1>t, <1>4 DEF TypeOK, SendCandidate
  <2>2. gathered'[c][p] = gathered[c][p] + 1 /\ gathered' \in [Clients -> [Clients -> 0..MaxCandidates]]
    BY <1>t, <1>4, <2>1 DEF TypeOK, SendCandidate
  <2>3. [type |-> "candidate", by |-> c, num |-> gathered'[c][p]] \in Message
    BY <2>1, <2>2 DEF Candidate, Message
  <2> QED
    BY <1>t, <1>4, <2>2, <2>3, SendTypes DEF TypeOK, SendCandidate
<1>5. ASSUME NEW c \in Clients, ReaderStep(c)
      PROVE  TypeOK'
  <2>1. ASSUME NEW d \in mail[c] \cap Description, ReadDescription(c, d)
        PROVE  TypeOK'
    <3>1. d.by \in Clients /\ d \in Message
      BY <2>1, MadeTypes DEF Description
    <3>2. GetOrCreatePeer(c, d.by) \in PeerConnections
      BY <1>t, <3>1, Tags DEF TypeOK, GetOrCreatePeer
    <3>3. HandleOffer(GetOrCreatePeer(c, d.by), d.by, d)
            \in {Idle} \cup [step : ReaderSteps, peer : Clients, msg : Message]
      BY <3>1 DEF HandleOffer, AfterRemote, ReaderSteps
    <3> QED
      BY <1>t, <2>1, <3>1, <3>2, <3>3, DeliverTypes DEF TypeOK, ReadDescription
  <2>2. ASSUME NEW m \in mail[c] \cap Candidate, ReadCandidate(c, m)
        PROVE  TypeOK'
    <3>1. m.by \in Clients /\ m \in Message
      BY <2>2, MadeTypes DEF Candidate
    <3>2. /\ UNCHANGED reader
             \/ reader' = [reader EXCEPT ![c] = [step |-> "add", peer |-> m.by, msg |-> m]]
          /\ UNCHANGED <<pc, call, gathered, rejected>>
          /\ Relay!Deliver(c, m)
      BY <2>2 DEF ReadCandidate
    <3>3. [step |-> "add", peer |-> m.by, msg |-> m]
            \in [step : ReaderSteps, peer : Clients, msg : Message]
      BY <3>1 DEF ReaderSteps
    <3>4. reader' \in [Clients -> {Idle} \cup [step : ReaderSteps, peer : Clients, msg : Message]]
      BY <1>t, <3>2, <3>3, ReaderType DEF TypeOK
    <3> QED
      BY <1>t, <3>2, <3>4, DeliverTypes DEF TypeOK
  <2> DEFINE p == reader[c].peer
             m == reader[c].msg
  <2>3. CASE reader[c].step # "idle"
    <3>1. reader[c] \in [step : ReaderSteps, peer : Clients, msg : Message]
      BY <1>t, <2>3 DEF TypeOK, Idle
    <3>2. p \in Clients /\ m \in Message /\ pc[c][p] \in PeerConnections
      <4>1. p \in Clients /\ m \in Message
        BY <3>1
      <4>2. pc[c][p] # NoPeer
        BY <2>3 DEF Inv, ReaderInv, ReaderOK
      <4> QED
        BY <1>t, <4>1, <4>2 DEF TypeOK
    <3>3. ASSUME ReaderDone(c)
          PROVE  reader' \in [Clients -> {Idle} \cup [step : ReaderSteps, peer : Clients, msg : Message]]
      BY <1>t, <3>3 DEF TypeOK, ReaderDone
    <3>4. CASE SetRemoteDescription(c)
      <4>1. m \in Description
        BY <3>4 DEF Inv, ReaderInv, ReaderOK, SetRemoteDescription
      <4>2. AfterRemote(p, m) \in {Idle} \cup [step : ReaderSteps, peer : Clients, msg : Message]
        BY <3>2 DEF AfterRemote, ReaderSteps
      <4>3. /\ \/ pc' = [pc EXCEPT ![c][p] = SetRemote(pc[c][p], m)]
                  /\ reader' = [reader EXCEPT ![c] = AfterRemote(p, m)]
               \/ ReaderDone(c) /\ UNCHANGED pc
            /\ UNCHANGED <<call, gathered, rejected, online, mail, got>>
        BY <3>4 DEF SetRemoteDescription
      <4>4. pc' \in [Clients -> [Clients -> PeerConnections \cup {NoPeer}]]
        BY <1>t, <3>2, <4>1, <4>3, PutType, OperationTypes DEF TypeOK
      <4>5. reader' \in [Clients -> {Idle} \cup [step : ReaderSteps, peer : Clients, msg : Message]]
        BY <1>t, <3>3, <4>2, <4>3, ReaderType
      <4> QED
        BY <1>t, <4>3, <4>4, <4>5 DEF TypeOK
    <3>5. CASE CreateAnswer(c)
      <4>1. Remote(pc[c][p]) \in Description
        <5>1. Remote(pc[c][p]) # NoDesc
          BY <3>5 DEF Inv, ReaderInv, ReaderOK, CreateAnswer
        <5> QED
          BY <3>2, <5>1 DEF PeerConnections, Remote
      <4>2. AnswerTo(c, Remote(pc[c][p])) \in Description \cap Message
        BY <4>1, MadeTypes
      <4> DEFINE d == AnswerTo(c, Remote(pc[c][p]))
      <4>3. /\ \/ pc' = [pc EXCEPT ![c][p] = AnswerCreated(pc[c][p], d)]
                  /\ reader' = [reader EXCEPT ![c] = [step |-> "set_local", peer |-> p, msg |-> d]]
               \/ ReaderDone(c) /\ UNCHANGED pc
            /\ UNCHANGED <<call, gathered, rejected, online, mail, got>>
        BY <3>5 DEF CreateAnswer
      <4>4. pc' \in [Clients -> [Clients -> PeerConnections \cup {NoPeer}]]
        <5>1. AnswerCreated(pc[c][p], d) \in PeerConnections
          BY <3>2, <4>2, OperationTypes
        <5> QED
          BY <1>t, <3>2, <4>3, <5>1, PutType DEF TypeOK
      <4>5. reader' \in [Clients -> {Idle} \cup [step : ReaderSteps, peer : Clients, msg : Message]]
        <5>1. [step |-> "set_local", peer |-> p, msg |-> d]
                \in [step : ReaderSteps, peer : Clients, msg : Message]
          BY <3>2, <4>2 DEF ReaderSteps
        <5> HIDE DEF d
        <5> QED
          BY <1>t, <3>3, <4>3, <5>1, ReaderType
      <4> QED
        BY <1>t, <4>3, <4>4, <4>5 DEF TypeOK
    <3>6. CASE SetLocalAnswer(c)
      <4>1. m \in Description
        <5>1. pc[c][p].pendingRemote \in Description
          BY <3>2, <3>6 DEF Inv, ReaderInv, ReaderOK, SetLocalAnswer, PeerConnections
        <5> QED
          BY <5>1, <3>6, MadeTypes DEF Inv, ReaderInv, ReaderOK, SetLocalAnswer
      <4>2. [reader EXCEPT ![c].step = "send"] \in
              [Clients -> {Idle} \cup [step : ReaderSteps, peer : Clients, msg : Message]]
        BY <1>t, <3>1 DEF TypeOK, ReaderSteps
      <4>3. /\ \/ pc' = [pc EXCEPT ![c][p] = SetLocal(pc[c][p], m)]
                  /\ reader' = [reader EXCEPT ![c].step = "send"]
               \/ ReaderDone(c) /\ UNCHANGED pc
            /\ UNCHANGED <<call, gathered, rejected, online, mail, got>>
        BY <3>6 DEF SetLocalAnswer
      <4>4. pc' \in [Clients -> [Clients -> PeerConnections \cup {NoPeer}]]
        <5>1. SetLocal(pc[c][p], m) \in PeerConnections
          BY <3>2, <4>1, OperationTypes
        <5>2. CASE UNCHANGED pc
          BY <1>t, <5>2 DEF TypeOK
        <5>3. CASE pc' = [pc EXCEPT ![c][p] = SetLocal(pc[c][p], m)]
          <6> HIDE DEF p, m
          <6> QED
            BY <1>t, <3>2, <5>1, <5>3, PutType
        <5> QED
          BY <4>3, <5>2, <5>3
      <4>5. reader' \in [Clients -> {Idle} \cup [step : ReaderSteps, peer : Clients, msg : Message]]
        <5> HIDE DEF p, m
        <5> QED
          BY <3>3, <4>2, <4>3
      <4> QED
        BY <1>t, <4>3, <4>4, <4>5 DEF TypeOK
    <3>7. CASE SendAnswer(c)
      BY <1>t, <3>2, <3>3, <3>7, SendTypes DEF TypeOK, SendAnswer
    <3>8. CASE AddIceCandidate(c)
      BY <1>t, <3>3, <3>8 DEF TypeOK, AddIceCandidate
    <3> QED
      BY <1>5, <2>1, <2>2, <3>4, <3>5, <3>6, <3>7, <3>8 DEF ReaderStep
  <2> QED
    BY <1>5, <2>1, <2>2, <2>3
       DEF ReaderStep, SetRemoteDescription, CreateAnswer, SetLocalAnswer, SendAnswer, AddIceCandidate
<1>6. ASSUME NEW c \in Clients, Lose(c)
      PROVE  TypeOK'
  BY <1>t, <1>6 DEF TypeOK, Lose, Relay!Close
<1> QED
  BY <1>1, <1>2, <1>3, <1>4, <1>5, <1>6 DEF Next
-----------------------------------------------------------------------------
(* What the operations of the browser's object do to the descriptions of   *)
(* the other side.                                                         *)
LEMMA Operations ==
    ASSUME NEW q \in PeerConnections, NEW d \in Description
    PROVE  /\ OfferCreated(q, d).signaling = q.signaling
           /\ OfferCreated(q, d).pendingRemote = q.pendingRemote
           /\ OfferCreated(q, d).currentRemote = q.currentRemote
           /\ OfferCreated(q, d).lastAnswer = q.lastAnswer
           /\ AnswerCreated(q, d).signaling = q.signaling
           /\ AnswerCreated(q, d).pendingRemote = q.pendingRemote
           /\ AnswerCreated(q, d).currentRemote = q.currentRemote
           /\ AnswerCreated(q, d).lastAnswer = d
           /\ d.type = "offer" /\ CanSetLocal(q, d) =>
                  /\ q.signaling # "have-remote-offer"
                  /\ SetLocal(q, d).signaling = "have-local-offer"
                  /\ SetLocal(q, d).pendingRemote = q.pendingRemote
                  /\ SetLocal(q, d).currentRemote = q.currentRemote
                  /\ SetLocal(q, d).lastAnswer = q.lastAnswer
           /\ d.type = "answer" =>
                  /\ SetLocal(q, d).signaling = "stable"
                  /\ SetLocal(q, d).pendingRemote = NoDesc
                  /\ SetLocal(q, d).currentRemote = q.pendingRemote
           /\ d.type = "offer" =>
                  /\ SetRemote(q, d).signaling = "have-remote-offer"
                  /\ SetRemote(q, d).pendingRemote = d
                  /\ SetRemote(q, d).currentRemote = q.currentRemote
           /\ d.type = "answer" =>
                  /\ SetRemote(q, d).signaling = "stable"
                  /\ SetRemote(q, d).pendingRemote = NoDesc
                  /\ SetRemote(q, d).currentRemote = d
BY DEF PeerConnections, OfferCreated, AnswerCreated, SetLocal, SetRemote, Completed, New,
       CanSetLocal, CanCreateOffer

(* A step leaves alone what the invariant says of a connection.            *)
Same(c, p) ==
    /\ pc[c][p] # NoPeer =>
           /\ pc'[c][p] # NoPeer
           /\ pc'[c][p].signaling = "have-remote-offer"
                <=> pc[c][p].signaling = "have-remote-offer"
           /\ pc'[c][p].pendingRemote = pc[c][p].pendingRemote
           /\ pc'[c][p].currentRemote = pc[c][p].currentRemote
           /\ pc'[c][p].lastAnswer = pc[c][p].lastAnswer
    /\ pc[c][p] = NoPeer => pc'[c][p] \in {NoPeer, New}

AllSame == \A c, p \in Clients : Same(c, p)

(* An exchange for a connection that looks the same, leaves all the same.  *)
LEMMA PutSame ==
    ASSUME TypeOK, NEW c \in Clients, NEW p \in Clients, NEW q,
           pc' = [pc EXCEPT ![c][p] = q],
           pc[c][p] = NoPeer => q = New,
           pc[c][p] # NoPeer =>
               /\ q # NoPeer
               /\ q.signaling = "have-remote-offer" <=> pc[c][p].signaling = "have-remote-offer"
               /\ q.pendingRemote = pc[c][p].pendingRemote
               /\ q.currentRemote = pc[c][p].currentRemote
               /\ q.lastAnswer = pc[c][p].lastAnswer
    PROVE  AllSame
<1>1. /\ pc'[c][p] = q
      /\ \A k, l \in Clients : k # c \/ l # p => pc'[k][l] = pc[k][l]
  <2>1. pc \in [Clients -> [Clients -> PeerConnections \cup {NoPeer}]]
    BY DEF TypeOK
  <2> QED
    BY <2>1
<1>2. Same(c, p)
  BY <1>1 DEF Same
<1>3. ASSUME NEW k \in Clients, NEW l \in Clients, k # c \/ l # p
      PROVE  Same(k, l)
  BY <1>1, <1>3 DEF Same
<1> QED
  BY <1>2, <1>3 DEF AllSame

(* Where everything looks the same and the reader loop stays where it is,  *)
(* the invariant of a client holds on.                                     *)
LEMMA SameKeeps ==
    ASSUME Inv, AllSame, NEW c \in Clients, reader'[c] = reader[c]
    PROVE  ReaderOK(c)' /\ \A p \in Clients : ConnectionOK(c, p)'
<1>1. /\ ReaderOK(c) /\ \A p \in Clients : ConnectionOK(c, p) /\ Same(c, p)
  BY DEF Inv, ReaderInv, ConnectionInv, AllSame
<1>2. reader[c].step # "idle" => reader[c].peer \in Clients
  BY DEF Inv, TypeOK, Idle
<1>3. New # NoPeer /\ New.signaling = "stable" /\ New.pendingRemote = NoDesc
  BY DEF New, NoPeer
<1>4. ASSUME NEW p \in Clients
      PROVE  ConnectionOK(c, p)'
  BY <1>1, <1>3 DEF ConnectionOK, Same
<1>5. ReaderOK(c)'
  <2>1. CASE reader[c].step = "idle"
    BY <2>1 DEF ReaderOK
  <2>2. CASE reader[c].step # "idle"
    BY <1>1, <1>2, <2>2 DEF ReaderOK, Same, Remote
  <2> QED
    BY <2>1, <2>2
<1> QED
  BY <1>4, <1>5

(* Such a step undoes nothing.                                             *)
LEMMA SameKept == AllSame => Kept
BY DEF AllSame, Same, Kept, Remote

-----------------------------------------------------------------------------
(* The steps that leave all connections the same.                          *)
LEMMA SameSteps ==
    ASSUME Inv, NEW c \in Clients, NEW n \in Calls, NEW p \in Clients,
           ConnectToPeer(c, n, p) \/ CallStep(c, n)
    PROVE  AllSame /\ UNCHANGED reader
<1>t. TypeOK
  BY DEF Inv
<1>g. /\ Offer(c, n) \in Description /\ Offer(c, n).type = "offer"
  BY MadeTypes DEF Offer
<1>1. CASE ConnectToPeer(c, n, p)
  BY <1>t, <1>1, PutSame, Tags DEF ConnectToPeer, GetOrCreatePeer, New, NoPeer
<1> DEFINE t == call[c][n].to
<1>2. ASSUME CallStep(c, n)
      PROVE  t \in Clients /\ pc[c][t] \in PeerConnections /\ pc[c][t] # NoPeer
  <2>1. call[c][n] \in [step : CallSteps, to : Clients]
    BY <1>t, <1>2 DEF TypeOK, CallStep, CreateOffer, SetLocalOffer, SendOffer, Idle, CallSteps
  <2>2. call[c][n].step \in {"create_offer", "set_local", "send"}
    BY <1>2 DEF CallStep, CreateOffer, SetLocalOffer, SendOffer
  <2>3. t \in Clients /\ pc[c][t] # NoPeer
    BY <2>1, <2>2 DEF Inv, CallInv
  <2> QED
    BY <1>t, <2>3 DEF TypeOK
<1>u. UNCHANGED pc => AllSame
  BY DEF AllSame, Same
<1>3. CASE CreateOffer(c, n)
  <2> DEFINE q == OfferCreated(pc[c][t], Offer(c, n))
  <2>1. UNCHANGED pc \/ pc' = [pc EXCEPT ![c][t] = q]
    BY <1>3 DEF CreateOffer
  <2>2. /\ t \in Clients /\ pc[c][t] \in PeerConnections /\ pc[c][t] # NoPeer
    BY <1>2, <1>3 DEF CallStep
  <2>3. /\ q # NoPeer
        /\ q.signaling = pc[c][t].signaling
        /\ q.pendingRemote = pc[c][t].pendingRemote /\ q.currentRemote = pc[c][t].currentRemote
        /\ q.lastAnswer = pc[c][t].lastAnswer
    <3> DEFINE x == pc[c][t]
               d == Offer(c, n)
    <3>1. x \in PeerConnections /\ d \in Description /\ d.type = "offer"
      BY <1>g, <2>2
    <3>2. OfferCreated(x, d) # NoPeer
      BY <3>1, OperationTypes, Tags
    <3> HIDE DEF x, d
    <3> QED
      BY <3>1, <3>2, Operations DEF x, d
  <2>4. reader' = reader
    BY <1>3 DEF CreateOffer
  <2>5. CASE pc' = [pc EXCEPT ![c][t] = q]
    <3> HIDE DEF q, t
    <3> QED
      BY <1>t, <2>2, <2>3, <2>4, <2>5, PutSame
  <2> QED
    BY <1>u, <2>1, <2>4, <2>5
<1>4. CASE SetLocalOffer(c, n)
  <2> DEFINE q == SetLocal(pc[c][t], Offer(c, n))
  <2>1. UNCHANGED pc \/ (pc' = [pc EXCEPT ![c][t] = q] /\ CanSetLocal(pc[c][t], Offer(c, n)))
    BY <1>4 DEF SetLocalOffer
  <2>2. /\ t \in Clients /\ pc[c][t] \in PeerConnections /\ pc[c][t] # NoPeer
    BY <1>2, <1>4 DEF CallStep
  <2>3. CanSetLocal(pc[c][t], Offer(c, n)) =>
          /\ q # NoPeer
          /\ q.signaling # "have-remote-offer" /\ pc[c][t].signaling # "have-remote-offer"
          /\ q.pendingRemote = pc[c][t].pendingRemote /\ q.currentRemote = pc[c][t].currentRemote
          /\ q.lastAnswer = pc[c][t].lastAnswer
    <3> DEFINE x == pc[c][t]
               d == Offer(c, n)
    <3>1. x \in PeerConnections /\ d \in Description /\ d.type = "offer"
      BY <1>g, <2>2
    <3>2. SetLocal(x, d) # NoPeer
      BY <3>1, OperationTypes, Tags
    <3>3. CanSetLocal(x, d) =>
            /\ SetLocal(x, d).signaling = "have-local-offer" /\ x.signaling # "have-remote-offer"
            /\ SetLocal(x, d).pendingRemote = x.pendingRemote
            /\ SetLocal(x, d).currentRemote = x.currentRemote
            /\ SetLocal(x, d).lastAnswer = x.lastAnswer
      <4> HIDE DEF x, d
      <4> QED
        BY <3>1, Operations
    <3> QED
      BY <3>2, <3>3
  <2>4. reader' = reader
    BY <1>4 DEF SetLocalOffer
  <2>5. CASE pc' = [pc EXCEPT ![c][t] = q] /\ CanSetLocal(pc[c][t], Offer(c, n))
    <3> HIDE DEF q, t
    <3> QED
      BY <1>t, <2>2, <2>3, <2>4, <2>5, PutSame
  <2> QED
    BY <1>u, <2>1, <2>4, <2>5
<1>5. CASE SendOffer(c, n)
  BY <1>5, <1>u DEF SendOffer
<1> QED
  BY <1>1, <1>3, <1>4, <1>5 DEF CallStep

-----------------------------------------------------------------------------
(* What is to be shown of a step of one client's reader loop.              *)
Tended(c) ==
    /\ Kept
    /\ \A k \in Clients \ {c} : pc'[k] = pc[k] /\ reader'[k] = reader[k]
    /\ ReaderOK(c)' /\ \A p \in Clients : ConnectionOK(c, p)'

(* That keeps the invariant of all clients.                                *)
LEMMA TendedKeeps ==
    ASSUME Inv, NEW c \in Clients, Tended(c)
    PROVE  ReaderInv' /\ ConnectionInv'
<1>1. ASSUME NEW k \in Clients \ {c}
      PROVE  ReaderOK(k)' /\ \A p \in Clients : ConnectionOK(k, p)'
  <2>1. ReaderOK(k) /\ \A p \in Clients : ConnectionOK(k, p)
    BY DEF Inv, ReaderInv, ConnectionInv
  <2>2. pc'[k] = pc[k] /\ reader'[k] = reader[k]
    BY DEF Tended
  <2> QED
    BY <2>1, <2>2 DEF ReaderOK, ConnectionOK
<1> QED
  BY <1>1 DEF Tended, ReaderInv, ConnectionInv

(* The reader loop of a client moves on, the others stay where they are.   *)
LEMMA Moves ==
    ASSUME TypeOK, NEW c \in Clients, NEW r, reader' = [reader EXCEPT ![c] = r]
    PROVE  reader'[c] = r /\ \A k \in Clients \ {c} : reader'[k] = reader[k]
<1>1. reader \in [Clients -> {Idle} \cup [step : ReaderSteps, peer : Clients, msg : Message]]
  BY DEF TypeOK
<1> QED
  BY <1>1

(* An idle loop owes nothing, if no offer is pending.                      *)
LEMMA IdleOK ==
    ASSUME NEW c \in Clients, reader'[c] = Idle
    PROVE  ReaderOK(c)'
BY DEF ReaderOK, Idle

(* Connections that look the same, and a loop that answers no offer.       *)
LEMMA SameConnections ==
    ASSUME Inv, AllSame, NEW c \in Clients,
           reader[c].step \notin {"create_answer", "set_local"}
    PROVE  \A p \in Clients : ConnectionOK(c, p)'
<1>1. New # NoPeer /\ New.signaling = "stable" /\ New.pendingRemote = NoDesc
  BY DEF New, NoPeer
<1> SUFFICES ASSUME NEW p \in Clients PROVE ConnectionOK(c, p)'
  OBVIOUS
<1>2. ConnectionOK(c, p) /\ Same(c, p)
  BY DEF Inv, ConnectionInv, AllSame
<1> QED
  BY <1>1, <1>2 DEF ConnectionOK, Same

(* A description is read.                                                  *)
LEMMA ReadDescriptionStep ==
    ASSUME Inv, NEW c \in Clients, NEW d \in mail[c] \cap Description, ReadDescription(c, d)
    PROVE  Tended(c)
<1>t. TypeOK /\ d \in Description /\ d.by \in Clients
  BY DEF Inv, Description
<1> DEFINE p == d.by
           q == GetOrCreatePeer(c, p)
<1>1. reader[c].step = "idle"
  BY DEF ReadDescription, Idle
<1>2. q # NoPeer
  BY Tags DEF GetOrCreatePeer
<1>3. pc' = [pc EXCEPT ![c][p] = q] /\ reader' = [reader EXCEPT ![c] = HandleOffer(q, p, d)]
  BY DEF ReadDescription
<1>4. /\ pc'[c][p] = q /\ \A k \in Clients \ {c}, l \in Clients : pc'[k][l] = pc[k][l]
      /\ \A k \in Clients \ {c} : pc'[k] = pc[k]
  BY <1>t, <1>3 DEF TypeOK
<1>5. reader'[c] = HandleOffer(q, p, d) /\ \A k \in Clients \ {c} : reader'[k] = reader[k]
  BY <1>t, <1>3, Moves
<1>6. AllSame
  BY <1>t, <1>2, <1>3, PutSame DEF GetOrCreatePeer
<1>7. d.by = p /\ (d.type = "offer" => d.of[1] = p)
  BY DEF Inv, OffersInv
<1>8. ReaderOK(c)'
  <2> HIDE DEF q, p
  <2>1. CASE reader'[c] = Idle
    BY <2>1, IdleOK
  <2>2. CASE Remote(q) = NoDesc /\ reader'[c] = [step |-> "set_remote", peer |-> p, msg |-> d]
    BY <1>t, <1>2, <1>4, <1>7, <2>2 DEF ReaderOK
  <2>3. CASE Remote(q) # NoDesc /\ reader'[c] = [step |-> "create_answer", peer |-> p, msg |-> d]
    BY <1>t, <1>2, <1>4, <1>7, <2>3 DEF ReaderOK
  <2> QED
    BY <1>5, <2>1, <2>2, <2>3 DEF HandleOffer, AfterRemote
<1> QED
  BY <1>1, <1>4, <1>5, <1>6, <1>8, SameConnections, SameKept DEF Tended

(* A candidate is read.                                                    *)
LEMMA ReadCandidateStep ==
    ASSUME Inv, NEW c \in Clients, NEW m \in mail[c] \cap Candidate, ReadCandidate(c, m)
    PROVE  Tended(c)
<1>t. TypeOK /\ m.by \in Clients
  BY DEF Inv, Candidate
<1>1. reader[c] = Idle /\ reader[c].step = "idle" /\ UNCHANGED pc
  BY DEF ReadCandidate, Idle
<1>2. AllSame
  BY <1>1 DEF AllSame, Same
<1>3. CASE CanAdd(pc[c][m.by])
          /\ reader' = [reader EXCEPT ![c] = [step |-> "add", peer |-> m.by, msg |-> m]]
  <2>1. /\ reader'[c] = [step |-> "add", peer |-> m.by, msg |-> m]
        /\ \A k \in Clients \ {c} : reader'[k] = reader[k]
    BY <1>t, <1>3, Moves
  <2>2. ReaderOK(c)'
    BY <1>1, <1>3, <2>1 DEF ReaderOK, CanAdd
  <2> QED
    BY <1>1, <1>2, <2>1, <2>2, SameConnections, SameKept DEF Tended
<1>4. CASE UNCHANGED reader
  BY <1>1, <1>2, <1>4, IdleOK, SameConnections, SameKept DEF Tended
<1> QED
  BY <1>3, <1>4 DEF ReadCandidate

(* The remote description is set: it was not there before.                 *)
LEMMA SetRemoteDescriptionStep ==
    ASSUME Inv, NEW c \in Clients, SetRemoteDescription(c)
    PROVE  Tended(c)
<1> DEFINE p == reader[c].peer
           d == reader[c].msg
           q == SetRemote(pc[c][p], d)
<1>1. reader[c].step = "set_remote" /\ ReaderOK(c) /\ \A l \in Clients : ConnectionOK(c, l)
  BY DEF SetRemoteDescription, Inv, ReaderInv, ConnectionInv
<1>t. /\ TypeOK /\ p \in Clients /\ d \in Description
      /\ pc[c][p] \in PeerConnections /\ pc[c][p] # NoPeer
  BY <1>1 DEF Inv, TypeOK, ReaderOK, Idle
<1>2. Remote(pc[c][p]) = NoDesc /\ pc[c][p].pendingRemote = NoDesc /\ pc[c][p].currentRemote = NoDesc
  BY <1>1 DEF ReaderOK, Remote
<1>3. CASE pc' = [pc EXCEPT ![c][p] = q] /\ reader' = [reader EXCEPT ![c] = AfterRemote(p, d)]
  <2>1. pc'[c][p] = q /\ \A k, l \in Clients : k # c \/ l # p => pc'[k][l] = pc[k][l]
    <3> HIDE DEF q, p
    <3> QED
      BY <1>t, <1>3 DEF TypeOK
  <2>2. \A k \in Clients \ {c} : pc'[k] = pc[k]
    BY <1>t, <1>3 DEF TypeOK
  <2>3. reader'[c] = AfterRemote(p, d) /\ \A k \in Clients \ {c} : reader'[k] = reader[k]
    BY <1>t, <1>3, Moves
  <2>4. q \in PeerConnections /\ q # NoPeer
    BY <1>t, OperationTypes, Tags
  <2>5. d # NoDesc /\ (d.type = "offer" \/ d.type = "answer")
    BY <1>t, Tags DEF Description
  <2>6. d.type = "offer" =>
          /\ q.signaling = "have-remote-offer" /\ q.pendingRemote = d /\ q.currentRemote = NoDesc
    BY <1>t, <1>2, Operations
  <2>7. d.type = "answer" =>
          /\ q.signaling = "stable" /\ q.pendingRemote = NoDesc /\ q.currentRemote = d
    BY <1>t, Operations
  <2>8. d.by = p /\ (d.type = "offer" => d.of[1] = p)
    BY <1>1 DEF ReaderOK
  <2> HIDE DEF q, p, d
  <2>9. d.type = "offer" => reader'[c] = [step |-> "create_answer", peer |-> p, msg |-> d]
    BY <2>3 DEF AfterRemote
  <2>10. d.type = "answer" => reader'[c] = Idle
    BY <2>3 DEF AfterRemote
  <2>11. ReaderOK(c)'
    <3>1. CASE d.type = "offer"
      BY <1>t, <2>1, <2>4, <2>5, <2>6, <2>9, <3>1 DEF ReaderOK, Remote
    <3>2. CASE d.type = "answer"
      BY <2>10, <3>2, IdleOK
    <3> QED
      BY <2>5, <3>1, <3>2
  <2>12. ASSUME NEW l \in Clients
         PROVE  ConnectionOK(c, l)'
    <3>1. CASE l = p
      BY <2>1, <2>5, <2>6, <2>7, <2>8, <2>9, <3>1 DEF ConnectionOK
    <3>2. CASE l # p
      BY <1>1, <2>1, <3>2 DEF ConnectionOK
    <3> QED
      BY <3>1, <3>2
  <2>13. Kept
    <3>1. ASSUME NEW k \in Clients, NEW l \in Clients, k # c \/ l # p
          PROVE  pc'[k][l] = pc[k][l]
      BY <2>1, <3>1
    <3> QED
      BY <1>2, <2>1, <2>4, <3>1 DEF Kept
  <2> QED
    BY <2>2, <2>3, <2>11, <2>12, <2>13 DEF Tended
<1>4. CASE ReaderDone(c) /\ UNCHANGED pc
  <2>1. reader'[c] = Idle /\ \A k \in Clients \ {c} : reader'[k] = reader[k]
    BY <1>t, <1>4, Moves DEF ReaderDone
  <2>2. AllSame
    BY <1>4 DEF AllSame, Same
  <2> QED
    BY <1>1, <1>4, <2>1, <2>2, IdleOK, SameConnections, SameKept DEF Tended
<1> QED
  BY <1>3, <1>4 DEF SetRemoteDescription

(* An answer is created, from the offer that is pending.                   *)
LEMMA CreateAnswerStep ==
    ASSUME Inv, NEW c \in Clients, CreateAnswer(c)
    PROVE  Tended(c)
<1> DEFINE p == reader[c].peer
           x == pc[c][p]
           d == AnswerTo(c, Remote(x))
           q == AnswerCreated(x, d)
<1>1. reader[c].step = "create_answer" /\ ReaderOK(c) /\ \A l \in Clients : ConnectionOK(c, l)
  BY DEF CreateAnswer, Inv, ReaderInv, ConnectionInv
<1>t. TypeOK /\ p \in Clients /\ x \in PeerConnections /\ x # NoPeer
  BY <1>1 DEF Inv, TypeOK, ReaderOK, Idle
<1>2. Remote(x) \in Description
  <2>1. Remote(x) # NoDesc
    BY <1>1 DEF ReaderOK
  <2> QED
    BY <1>t, <2>1 DEF PeerConnections, Remote
<1>3. CASE /\ CanCreateAnswer(x)
           /\ pc' = [pc EXCEPT ![c][p] = q]
           /\ reader' = [reader EXCEPT ![c] = [step |-> "set_local", peer |-> p, msg |-> d]]
  <2>1. pc'[c][p] = q /\ \A k, l \in Clients : k # c \/ l # p => pc'[k][l] = pc[k][l]
    <3> HIDE DEF q, p
    <3> QED
      BY <1>t, <1>3 DEF TypeOK
  <2>2. \A k \in Clients \ {c} : pc'[k] = pc[k]
    BY <1>t, <1>3 DEF TypeOK
  <2>3. /\ reader'[c] = [step |-> "set_local", peer |-> p, msg |-> d]
        /\ \A k \in Clients \ {c} : reader'[k] = reader[k]
    BY <1>t, <1>3, Moves
  <2>4. d \in Description
    BY <1>2, MadeTypes
  <2>5. /\ q \in PeerConnections /\ q # NoPeer
        /\ q.signaling = x.signaling /\ q.pendingRemote = x.pendingRemote
        /\ q.currentRemote = x.currentRemote /\ q.lastAnswer = d
    <3> HIDE DEF x, d
    <3> QED
      BY <1>t, <2>4, OperationTypes, Operations, Tags
  <2>6. x.pendingRemote # NoDesc /\ Remote(x) = x.pendingRemote
    BY <1>1, <1>3, <1>t DEF ConnectionOK, CanCreateAnswer, Remote
  <2>7. ReaderOK(c)'
    <3>1. d = AnswerTo(c, x.pendingRemote)
      BY <2>6
    <3> HIDE DEF q, d, x, p
    <3> QED
      BY <2>1, <2>3, <2>5, <2>6, <3>1 DEF ReaderOK, Remote
  <2>8. ASSUME NEW l \in Clients
         PROVE  ConnectionOK(c, l)'
    <3> HIDE DEF d, q
    <3>1. CASE l = p
      <4>1. ConnectionOK(c, p) /\ reader'[c].step = "set_local" /\ reader'[c].peer = p
        BY <1>1, <1>t, <2>3
      <4> QED
        BY <1>t, <2>1, <2>5, <3>1, <4>1 DEF ConnectionOK
    <3>2. CASE l # p
      BY <1>1, <2>1, <2>3, <3>2 DEF ConnectionOK
    <3> QED
      BY <3>1, <3>2
  <2>9. Kept
    <3> HIDE DEF q, d
    <3> QED
      BY <2>1, <2>5 DEF Kept, Remote
  <2> QED
    BY <2>2, <2>3, <2>7, <2>8, <2>9 DEF Tended
<1>4. CASE ~CanCreateAnswer(x) /\ ReaderDone(c) /\ UNCHANGED pc
  <2>1. reader'[c] = Idle /\ \A k \in Clients \ {c} : reader'[k] = reader[k]
    BY <1>t, <1>4, Moves DEF ReaderDone
  <2>2. AllSame
    BY <1>4 DEF AllSame, Same
  <2>3. ASSUME NEW l \in Clients
        PROVE  ConnectionOK(c, l)'
    BY <1>1, <1>4, <2>3 DEF ConnectionOK, CanCreateAnswer
  <2> QED
    BY <1>4, <2>1, <2>2, <2>3, IdleOK, SameKept DEF Tended
<1> QED
  BY <1>3, <1>4 DEF CreateAnswer

(* The answer is set: nothing can have come between.                       *)
LEMMA SetLocalAnswerStep ==
    ASSUME Inv, NEW c \in Clients, SetLocalAnswer(c)
    PROVE  Tended(c)
<1> DEFINE p == reader[c].peer
           d == reader[c].msg
           x == pc[c][p]
           q == SetLocal(x, d)
<1>1. reader[c].step = "set_local" /\ ReaderOK(c) /\ \A l \in Clients : ConnectionOK(c, l)
  BY DEF SetLocalAnswer, Inv, ReaderInv, ConnectionInv
<1>t. TypeOK /\ p \in Clients /\ x \in PeerConnections /\ x # NoPeer
  BY <1>1 DEF Inv, TypeOK, ReaderOK, Idle
<1>2. /\ x.pendingRemote \in Description /\ x.pendingRemote # NoDesc
      /\ d = AnswerTo(c, x.pendingRemote) /\ x.lastAnswer = d
  BY <1>1, <1>t DEF ReaderOK, PeerConnections
<1>3. /\ d \in Description /\ d.type = "answer" /\ d.by = c /\ d.of = x.pendingRemote.of
  BY <1>2, MadeTypes DEF AnswerTo
<1>4. /\ x.signaling = "have-remote-offer" /\ x.currentRemote = NoDesc
      /\ x.pendingRemote.type = "offer"
      /\ x.pendingRemote.by = p /\ x.pendingRemote.of[1] = p
  BY <1>1, <1>2, <1>t DEF ConnectionOK
<1>5. CanSetLocal(x, d)
  BY <1>2, <1>3, <1>4 DEF CanSetLocal, CanCreateAnswer
<1>6. /\ pc' = [pc EXCEPT ![c][p] = q]
      /\ reader' = [reader EXCEPT ![c].step = "send"]
  BY <1>5 DEF SetLocalAnswer
<1>7. pc'[c][p] = q /\ \A k, l \in Clients : k # c \/ l # p => pc'[k][l] = pc[k][l]
  <2> HIDE DEF q, p
  <2> QED
    BY <1>t, <1>6 DEF TypeOK
<1>8. \A k \in Clients \ {c} : pc'[k] = pc[k]
  BY <1>t, <1>6 DEF TypeOK
<1>9. /\ reader'[c].step = "send" /\ reader'[c].peer = p /\ reader'[c].msg = d
      /\ \A k \in Clients \ {c} : reader'[k] = reader[k]
  <2>1. /\ reader \in [Clients -> {Idle} \cup [step : ReaderSteps, peer : Clients, msg : Message]]
        /\ reader[c] # Idle
    BY <1>t, <1>1 DEF TypeOK, Idle
  <2> QED
    BY <1>6, <2>1
<1>10. /\ q \in PeerConnections /\ q # NoPeer
       /\ q.signaling = "stable" /\ q.pendingRemote = NoDesc
       /\ q.currentRemote = x.pendingRemote
  <2> HIDE DEF x, d
  <2>1. q \in PeerConnections
    BY <1>t, <1>3, OperationTypes
  <2>2. /\ q.signaling = "stable" /\ q.pendingRemote = NoDesc
        /\ q.currentRemote = x.pendingRemote
    BY <1>t, <1>3, Operations
  <2> QED
    BY <2>1, <2>2, Tags
<1>11. x.pendingRemote = Offer(d.of[1], d.of[2])
  <2>1. x.pendingRemote = [type |-> "offer", by |-> p, of |-> x.pendingRemote.of]
    BY <1>2, <1>4 DEF Description
  <2>2. x.pendingRemote.of = <<p, x.pendingRemote.of[2]>>
    <3>1. x.pendingRemote.of \in Clients \X Calls
      BY <1>2 DEF Description, OfferId
    <3> HIDE DEF x
    <3> QED
      BY <1>4, <3>1
  <2> QED
    BY <1>3, <1>4, <2>1, <2>2 DEF Offer
<1>12. ReaderOK(c)'
  <2> HIDE DEF q, d, x, p
  <2> QED
    BY <1>3, <1>4, <1>7, <1>9, <1>10, <1>11 DEF ReaderOK
<1>13. ASSUME NEW l \in Clients
       PROVE  ConnectionOK(c, l)'
  <2>1. CASE l = p
    BY <1>7, <1>10, <2>1 DEF ConnectionOK
  <2>2. CASE l # p
    BY <1>1, <1>7, <2>2 DEF ConnectionOK
  <2> QED
    BY <2>1, <2>2
<1>14. Kept
  <2> HIDE DEF q, d
  <2> QED
    BY <1>2, <1>4, <1>7, <1>10 DEF Kept, Remote
<1> QED
  BY <1>8, <1>9, <1>12, <1>13, <1>14 DEF Tended

(* The answer is sent, or a candidate is handed over: the loop is done.    *)
LEMMA LastSteps ==
    ASSUME Inv, NEW c \in Clients, SendAnswer(c) \/ AddIceCandidate(c)
    PROVE  Tended(c)
<1>1. /\ reader[c].step \in {"send", "add"} /\ UNCHANGED pc /\ ReaderDone(c)
  BY DEF SendAnswer, AddIceCandidate
<1>2. reader'[c] = Idle /\ \A k \in Clients \ {c} : reader'[k] = reader[k]
  BY <1>1, Moves DEF Inv, ReaderDone
<1>3. AllSame
  BY <1>1 DEF AllSame, Same
<1> QED
  BY <1>1, <1>2, <1>3, IdleOK, SameConnections, SameKept DEF Tended

-----------------------------------------------------------------------------
(* A step of the reader loop is one of those above.                        *)
LEMMA ReaderStepTended ==
    ASSUME Inv, NEW c \in Clients, ReaderStep(c)
    PROVE  Tended(c)
BY ReadDescriptionStep, ReadCandidateStep, SetRemoteDescriptionStep, CreateAnswerStep,
   SetLocalAnswerStep, LastSteps DEF ReaderStep

(* Where all looks the same and no loop moves, the invariant holds on.     *)
LEMMA StillKeeps ==
    ASSUME Inv, AllSame, UNCHANGED reader
    PROVE  Kept /\ ConnectionInv' /\ ReaderInv'
BY SameKeeps, SameKept DEF ConnectionInv, ReaderInv

(* Every step keeps the connections and the reader loops in order.         *)
LEMMA ControlStep == Inv /\ [Next]_vars => Kept /\ ConnectionInv' /\ ReaderInv'
<1> SUFFICES ASSUME Inv, [Next]_vars PROVE Kept /\ ConnectionInv' /\ ReaderInv'
  OBVIOUS
<1>1. ASSUME UNCHANGED <<pc, reader>>
      PROVE  Kept /\ ConnectionInv' /\ ReaderInv'
  <2>1. AllSame
    BY <1>1 DEF AllSame, Same
  <2> QED
    BY <1>1, <2>1, StillKeeps
<1>2. CASE UNCHANGED vars
  BY <1>1, <1>2 DEF vars
<1>3. ASSUME NEW c \in Clients, NEW n \in Calls, NEW p \in Clients,
             ConnectToPeer(c, n, p) \/ CallStep(c, n)
      PROVE  Kept /\ ConnectionInv' /\ ReaderInv'
  BY <1>3, SameSteps, StillKeeps
<1>4. ASSUME NEW c \in Clients, ReaderStep(c)
      PROVE  Kept /\ ConnectionInv' /\ ReaderInv'
  BY <1>4, ReaderStepTended, TendedKeeps DEF Tended
<1>5. ASSUME NEW c \in Clients, Lose(c) \/ \E p \in Clients : SendCandidate(c, p)
      PROVE  Kept /\ ConnectionInv' /\ ReaderInv'
  BY <1>1, <1>5 DEF Lose, SendCandidate
<1> QED
  BY <1>2, <1>3, <1>4, <1>5 DEF Next

(* A call that goes on keeps its connection.                               *)
LEMMA CallsStep == Inv /\ [Next]_vars => CallInv'
<1> SUFFICES ASSUME Inv, [Next]_vars PROVE CallInv'
  OBVIOUS
<1>t. /\ CallInv /\ Kept
      /\ call \in [Clients -> [Calls -> {Idle} \cup [step : CallSteps, to : Clients]]]
      /\ \A k \in Clients, i \in Calls :
            call[k][i].step \in {"create_offer", "set_local", "send"} => call[k][i].to \in Clients
  BY ControlStep DEF Inv, TypeOK, Idle
<1>1. ASSUME UNCHANGED call
      PROVE  CallInv'
  BY <1>t, <1>1 DEF CallInv, Kept
<1>2. ASSUME NEW c \in Clients, NEW n \in Calls, NEW p \in Clients, ConnectToPeer(c, n, p)
      PROVE  CallInv'
  <2>1. /\ call'[c][n].step = "create_offer" /\ call'[c][n].to = p
        /\ \A k \in Clients, i \in Calls : k # c \/ i # n => call'[k][i] = call[k][i]
    BY <1>t, <1>2 DEF ConnectToPeer
  <2>2. pc'[c][p] # NoPeer
    <3>1. pc'[c][p] = GetOrCreatePeer(c, p)
      BY <1>2 DEF ConnectToPeer, Inv, TypeOK
    <3> QED
      BY <3>1, Tags DEF GetOrCreatePeer
  <2>3. ASSUME NEW k \in Clients, NEW i \in Calls,
               call'[k][i].step \in {"create_offer", "set_local", "send"}
        PROVE  pc'[k][call'[k][i].to] # NoPeer
    <3>1. CASE k = c /\ i = n
      BY <2>1, <2>2, <3>1
    <3>2. CASE k # c \/ i # n
      BY <1>t, <2>1, <2>3, <3>2 DEF CallInv, Kept
    <3> QED
      BY <3>1, <3>2
  <2> QED
    BY <2>3 DEF CallInv
<1>3. ASSUME NEW c \in Clients, NEW n \in Calls, CallStep(c, n)
      PROVE  CallInv'
  <2>1. call[c][n].step \in {"create_offer", "set_local", "send"}
    BY <1>3 DEF CallStep, CreateOffer, SetLocalOffer, SendOffer
  <2>2. \E s \in CallSteps : CallGoes(c, n, s)
    BY <1>3 DEF CallStep, CreateOffer, SetLocalOffer, SendOffer, CallSteps
  <2>3. /\ call'[c][n].to = call[c][n].to
        /\ \A k \in Clients, i \in Calls : k # c \/ i # n => call'[k][i] = call[k][i]
    BY <1>t, <2>2 DEF CallGoes
  <2>4. ASSUME NEW k \in Clients, NEW i \in Calls,
               call'[k][i].step \in {"create_offer", "set_local", "send"}
        PROVE  pc'[k][call'[k][i].to] # NoPeer
    <3>1. CASE k = c /\ i = n
      BY <1>t, <2>1, <2>3, <3>1 DEF CallInv, Kept
    <3>2. CASE k # c \/ i # n
      BY <1>t, <2>3, <2>4, <3>2 DEF CallInv, Kept
    <3> QED
      BY <3>1, <3>2
  <2> QED
    BY <2>4 DEF CallInv
<1>4. ASSUME NEW c \in Clients, ReaderStep(c) \/ Lose(c) \/ \E p \in Clients : SendCandidate(c, p)
      PROVE  CallInv'
  BY <1>1, <1>4 DEF ReaderStep, ReadDescription, ReadCandidate, SetRemoteDescription, CreateAnswer,
     SetLocalAnswer, SendAnswer, AddIceCandidate, Lose, SendCandidate
<1> QED
  BY <1>1, <1>2, <1>3, <1>4 DEF Next, vars

-----------------------------------------------------------------------------
(* What is right to send to a client.                                      *)
Right(c, d) ==
    /\ d.type = "offer" => d.of[1] = d.by
    /\ d.type = "answer" =>
           /\ d.of[1] = c
           /\ pc[d.by][c] # NoPeer
           /\ pc[d.by][c].currentRemote = Offer(d.of[1], d.of[2])

(* A step that sends at most what is right keeps the mail in order.        *)
LEMMA MailKeeps ==
    ASSUME Inv, Kept,
           \A c \in Clients : \A d \in (mail'[c] \cup got'[c]) \cap Description :
               d \in mail[c] \cup got[c] \/ Right(c, d)'
    PROVE  OffersInv' /\ AnswersFit'
<1>1. ASSUME NEW c \in Clients, NEW d \in (mail'[c] \cup got'[c]) \cap Description
      PROVE  Right(c, d)'
  <2>1. CASE d \in mail[c] \cup got[c]
    <3>1. Right(c, d)
      BY <2>1, <1>1 DEF Inv, OffersInv, AnswersFit, Right
    <3>2. d.by \in Clients /\ Offer(d.of[1], d.of[2]) # NoDesc
      BY <1>1 DEF Description, Offer, NoDesc
    <3> QED
      BY <3>1, <3>2 DEF Right, Kept
  <2> QED
    BY <1>1, <2>1
<1> QED
  BY <1>1 DEF OffersInv, AnswersFit, Right

(* Reading and closing add no message, sending adds one.                   *)
LEMMA MailMoves ==
    ASSUME TypeOK, NEW c \in Clients, NEW m
    PROVE  /\ Relay!Deliver(c, m) \/ Relay!Close(c) =>
                  \A k \in Clients : mail'[k] \cup got'[k] \subseteq mail[k] \cup got[k]
           /\ \A p \in Clients : SendPeerRequest(c, p, m) =>
                  \A k \in Clients : \A d \in mail'[k] \cup got'[k] :
                      d \in mail[k] \cup got[k] \/ (k = p /\ d = m)
<1>1. mail \in [Clients -> SUBSET Message] /\ got \in [Clients -> SUBSET Message]
  BY DEF TypeOK
<1>2. ASSUME Relay!Deliver(c, m) \/ Relay!Close(c), NEW k \in Clients
      PROVE  mail'[k] \cup got'[k] \subseteq mail[k] \cup got[k]
  BY <1>1, <1>2 DEF Relay!Deliver, Relay!Close
<1>3. ASSUME NEW p \in Clients, SendPeerRequest(c, p, m), NEW k \in Clients,
             NEW d \in mail'[k] \cup got'[k]
      PROVE  d \in mail[k] \cup got[k] \/ (k = p /\ d = m)
  BY <1>1, <1>3 DEF SendPeerRequest, Relay!Post
<1> QED
  BY <1>2, <1>3

(* A right message may be sent, and so may a candidate.                    *)
LEMMA SendKeeps ==
    ASSUME Inv, Kept, NEW c \in Clients, NEW p \in Clients, NEW m,
           SendPeerRequest(c, p, m), m \in Description => Right(p, m)'
    PROVE  OffersInv' /\ AnswersFit'
<1>1. \A k \in Clients : \A d \in mail'[k] \cup got'[k] :
          d \in mail[k] \cup got[k] \/ (k = p /\ d = m)
  BY MailMoves DEF Inv
<1> QED
  BY <1>1, MailKeeps

(* Every step keeps the mail in order.                                     *)
LEMMA MailStep == Inv /\ [Next]_vars => OffersInv' /\ AnswersFit'
<1> SUFFICES ASSUME Inv, [Next]_vars PROVE OffersInv' /\ AnswersFit'
  OBVIOUS
<1>t. TypeOK /\ Kept
  BY ControlStep DEF Inv
<1>1. ASSUME \A k \in Clients : mail'[k] \cup got'[k] \subseteq mail[k] \cup got[k]
      PROVE  OffersInv' /\ AnswersFit'
  BY <1>t, <1>1, MailKeeps
<1>2. ASSUME UNCHANGED <<mail, got>>
      PROVE  OffersInv' /\ AnswersFit'
  BY <1>1, <1>2
<1>3. ASSUME NEW c \in Clients, NEW n \in Calls, SendOffer(c, n)
      PROVE  OffersInv' /\ AnswersFit'
  <2>1. PICK p \in Clients : p = call[c][n].to
    BY <1>t, <1>3 DEF TypeOK, SendOffer, Idle
  <2>2. Right(p, Offer(c, n))'
    BY DEF Right, Offer
  <2>3. SendPeerRequest(c, p, Offer(c, n))
    BY <1>3, <2>1 DEF SendOffer
  <2> QED
    BY <1>t, <2>2, <2>3, SendKeeps
<1>4. ASSUME NEW c \in Clients, SendAnswer(c)
      PROVE  OffersInv' /\ AnswersFit'
  <2>1. /\ ReaderOK(c) /\ reader[c].step = "send" /\ UNCHANGED pc
        /\ SendPeerRequest(c, reader[c].peer, reader[c].msg)
    BY <1>4 DEF SendAnswer, Inv, ReaderInv
  <2>2. PICK p \in Clients : p = reader[c].peer
    BY <1>t, <2>1 DEF TypeOK, Idle
  <2>3. PICK m : m = reader[c].msg
    OBVIOUS
  <2>4. Right(p, m)'
    BY <2>1, <2>2, <2>3 DEF Right, ReaderOK
  <2>5. SendPeerRequest(c, p, m)
    BY <2>1, <2>2, <2>3
  <2> QED
    BY <1>t, <2>4, <2>5, SendKeeps
<1>5. ASSUME NEW c \in Clients, NEW p \in Clients, SendCandidate(c, p)
      PROVE  OffersInv' /\ AnswersFit'
  <2>1. PICK m : m = [type |-> "candidate", by |-> c, num |-> gathered'[c][p]]
    OBVIOUS
  <2>2. m \notin Description
    BY <2>1 DEF Description
  <2>3. SendPeerRequest(c, p, m)
    BY <1>5, <2>1 DEF SendCandidate
  <2> QED
    BY <1>t, <2>2, <2>3, SendKeeps
<1>6. ASSUME NEW c \in Clients, ReaderStep(c)
      PROVE  OffersInv' /\ AnswersFit'
  <2>1. ASSUME NEW m, Relay!Deliver(c, m)
        PROVE  OffersInv' /\ AnswersFit'
    BY <1>1, <1>t, <2>1, MailMoves
  <2> QED
    BY <1>2, <1>4, <1>6, <2>1 DEF ReaderStep, ReadDescription, ReadCandidate, SetRemoteDescription,
       CreateAnswer, SetLocalAnswer, AddIceCandidate
<1>7. ASSUME NEW c \in Clients, Lose(c)
      PROVE  OffersInv' /\ AnswersFit'
  BY <1>1, <1>t, <1>7, MailMoves DEF Lose
<1>8. ASSUME NEW c \in Clients, NEW n \in Calls, NEW p \in Clients,
             ConnectToPeer(c, n, p) \/ CreateOffer(c, n) \/ SetLocalOffer(c, n)
      PROVE  OffersInv' /\ AnswersFit'
  BY <1>2, <1>8 DEF ConnectToPeer, CreateOffer, SetLocalOffer
<1>9. CASE UNCHANGED vars
  BY <1>2, <1>9 DEF vars
<1> QED
  BY <1>3, <1>5, <1>6, <1>7, <1>8, <1>9 DEF Next, CallStep

(* The browser is never given a candidate too early.                       *)
LEMMA CandidateStep == Inv /\ [Next]_vars => CandidatesAreTaken'
<1> SUFFICES ASSUME Inv, [Next]_vars PROVE CandidatesAreTaken'
  OBVIOUS
<1>1. ~rejected
  BY DEF Inv, CandidatesAreTaken
<1>2. ASSUME NEW c \in Clients, AddIceCandidate(c)
      PROVE  ~rejected'
  BY <1>1, <1>2 DEF AddIceCandidate, Inv, ReaderInv, ReaderOK
<1>3. CASE UNCHANGED vars
  BY <1>1, <1>3 DEF vars, CandidatesAreTaken
<1>4. ASSUME NEW c \in Clients, ReaderStep(c)
      PROVE  CandidatesAreTaken'
  BY <1>1, <1>2, <1>4 DEF CandidatesAreTaken, ReaderStep, ReadDescription, ReadCandidate,
     SetRemoteDescription, CreateAnswer, SetLocalAnswer, SendAnswer
<1>5. ASSUME NEW c \in Clients, NEW n \in Calls, NEW p \in Clients,
             ConnectToPeer(c, n, p) \/ CallStep(c, n)
      PROVE  CandidatesAreTaken'
  BY <1>1, <1>5 DEF CandidatesAreTaken, ConnectToPeer, CallStep, CreateOffer, SetLocalOffer, SendOffer
<1>6. ASSUME NEW c \in Clients, Lose(c) \/ \E p \in Clients : SendCandidate(c, p)
      PROVE  CandidatesAreTaken'
  BY <1>1, <1>6 DEF CandidatesAreTaken, Lose, SendCandidate
<1> QED
  BY <1>3, <1>4, <1>5, <1>6 DEF Next

-----------------------------------------------------------------------------
(* The invariant holds at the start and in every step.                     *)
LEMMA InitInv == Init => Inv
<1> SUFFICES ASSUME Init PROVE Inv
  OBVIOUS
<1>1. TypeOK
  <2>1. 0 \in 0..MaxCandidates
    OBVIOUS
  <2>2. /\ online \in [Clients -> BOOLEAN]
        /\ mail \in [Clients -> SUBSET Message] /\ got \in [Clients -> SUBSET Message]
    BY DEF Init, Relay!Init
  <2> QED
    BY <2>1, <2>2 DEF Init, TypeOK
<1>2. ConnectionInv /\ ReaderInv /\ CallInv /\ CandidatesAreTaken
  BY DEF Init, ConnectionInv, ConnectionOK, ReaderInv, ReaderOK, CallInv, Idle, CandidatesAreTaken
<1>3. OffersInv /\ AnswersFit
  BY DEF Init, Relay!Init, OffersInv, AnswersFit
<1> QED
  BY <1>1, <1>2, <1>3 DEF Inv

LEMMA InvStep == Inv /\ [Next]_vars => Inv'
BY TypeStep, ControlStep, CallsStep, MailStep, CandidateStep DEF Inv

LEMMA InvHolds == Spec => []Inv
BY InitInv, InvStep, PTL DEF Spec

(* The state of the clients keeps its types.                               *)
THEOREM NegotiationTypeCorrect == Spec => []TypeOK
BY InvHolds, PTL DEF Inv

(* However the tasks of a page interleave, handle_offer is busy answering  *)
(* as long as a remote offer is pending.                                   *)
THEOREM OffersAreTended == Spec => []NoOrphanOffer
<1>1. Inv => NoOrphanOffer
  <2> SUFFICES ASSUME Inv, NEW c \in Clients, NEW p \in Clients,
                      pc[c][p].signaling = "have-remote-offer"
               PROVE  /\ reader[c] # Idle /\ reader[c].peer = p
                      /\ reader[c].step \in {"create_answer", "set_local"}
    BY DEF NoOrphanOffer
  <2>1. pc[c][p] # NoPeer
    BY DEF NoPeer
  <2> QED
    BY <2>1 DEF Inv, ConnectionInv, ConnectionOK, Idle
<1> QED
  BY <1>1, InvHolds, PTL

(* handle_offer looks for a remote description, awaits, and sets one; no   *)
(* connection swaps its remote description for another all the same.       *)
THEOREM RemoteStays == Spec => RemoteIsFinal
<1>1. Inv /\ [Next]_vars =>
        [\A c, p \in Clients :
            pc[c][p] # NoPeer /\ Remote(pc[c][p]) # NoDesc =>
                pc'[c][p] # NoPeer /\ Remote(pc'[c][p]) = Remote(pc[c][p])]_vars
  BY ControlStep DEF Kept
<1> QED
  BY <1>1, InvHolds, PTL DEF Spec, RemoteIsFinal

(* handle_candidate looks for a remote description and adds the candidate  *)
(* after an await: it is never rejected for want of one.                   *)
THEOREM CandidatesTaken == Spec => []CandidatesAreTaken
BY InvHolds, PTL DEF Inv

(* Every answer sent answers the offer its sender holds of its receiver.   *)
THEOREM AnswersFitOffers == Spec => []AnswersFit
BY InvHolds, PTL DEF Inv

-----------------------------------------------------------------------------
(* Candidates that come too early. A client has an offer out to another    *)
(* one, or has the other's description.                                    *)
Out(c, p) ==
    /\ pc[c][p] # NoPeer
    /\ Remote(pc[c][p]) # NoDesc \/ pc[c][p].signaling = "have-local-offer"

(* An offer of c to p, or an answer to it, is somewhere on its way.        *)
OfferSeen(c, p) ==
    \/ \E n \in Calls : call[c][n].step = "send" /\ call[c][n].to = p
    \/ \E d \in mail[p] \cap Description : d.by = c /\ d.type = "offer"
    \/ reader[p].step = "set_remote" /\ reader[p].peer = c /\ reader[p].msg.type = "offer"
    \/ pc[p][c] # NoPeer /\ Remote(pc[p][c]) # NoDesc /\ Remote(pc[p][c]).type = "offer"
    \/ reader[c].step = "set_remote" /\ reader[c].peer = p /\ reader[c].msg.type = "answer"

(* A client that made an offer is still able to take the answer.           *)
OutInv == \A c, p \in Clients : OfferSeen(c, p) => Out(c, p)

(* A description of p is with c, or on its way to it.                      *)
Described(c, p) ==
    \/ pc[c][p] # NoPeer /\ Remote(pc[c][p]) # NoDesc
    \/ \E d \in mail[c] \cap Description : d.by = p
    \/ \E n \in Calls : call[p][n].step = "send" /\ call[p][n].to = c
    \/ reader[p].step = "send" /\ reader[p].peer = c
    \/ reader[c].step = "set_remote" /\ reader[c].peer = p

(* Candidates of p have been sent to c, or may be.                         *)
Due(c, p) ==
    /\ online[c] /\ online[p]
    /\ \/ pc[p][c] # NoPeer /\ Local(pc[p][c]) # NoDesc
       \/ \E m \in mail[c] \cap Candidate : m.by = p

DescribedInv == \A c, p \in Clients : Due(c, p) => Described(c, p)

(* An offer that can be set is out.                                        *)
LEMMA OfferSet ==
    ASSUME NEW q \in PeerConnections, NEW d \in Description, d.type = "offer", CanSetLocal(q, d)
    PROVE  SetLocal(q, d) # NoPeer /\ SetLocal(q, d).signaling = "have-local-offer"
<1>1. SetLocal(q, d) # NoPeer
  BY OperationTypes, Tags
<1>2. SetLocal(q, d).signaling = "have-local-offer"
  BY DEF SetLocal, PeerConnections
<1> QED
  BY <1>1, <1>2

(* What a step does to a call: it comes to send with its offer out, and    *)
(* leaves by sending it.                                                   *)
CallMove(c, n) ==
    /\ call'[c][n].step = "send" =>
        \/ call'[c][n] = call[c][n]
        \/ /\ pc'[c][call'[c][n].to] # NoPeer
           /\ pc'[c][call'[c][n].to].signaling = "have-local-offer"
    /\ call[c][n].step = "send" =>
        \/ call'[c][n] = call[c][n]
        \/ SendPeerRequest(c, call[c][n].to, Offer(c, n))

LEMMA CallMoves == Inv /\ [Next]_vars => \A c \in Clients, n \in Calls : CallMove(c, n)
<1> SUFFICES ASSUME Inv, [Next]_vars PROVE \A c \in Clients, n \in Calls : CallMove(c, n)
  OBVIOUS
<1>t. call \in [Clients -> [Calls -> {Idle} \cup [step : CallSteps, to : Clients]]]
  BY DEF Inv, TypeOK
<1>1. ASSUME UNCHANGED call
      PROVE  \A c \in Clients, n \in Calls : CallMove(c, n)
  BY <1>1 DEF CallMove
<1>2. ASSUME NEW c \in Clients, NEW n \in Calls, NEW p \in Clients, ConnectToPeer(c, n, p)
      PROVE  \A k \in Clients, i \in Calls : CallMove(k, i)
  <2>1. /\ call[c][n].step = "idle" /\ call'[c][n].step = "create_offer"
        /\ \A k \in Clients, i \in Calls : k # c \/ i # n => call'[k][i] = call[k][i]
    BY <1>t, <1>2 DEF ConnectToPeer, Idle
  <2> QED
    BY <2>1 DEF CallMove
<1>3. ASSUME NEW c \in Clients, NEW n \in Calls, CallStep(c, n)
      PROVE  \A k \in Clients, i \in Calls : CallMove(k, i)
  <2>1. call[c][n].step \in {"create_offer", "set_local", "send"} /\ call[c][n].to \in Clients
    BY <1>t, <1>3 DEF CallStep, CreateOffer, SetLocalOffer, SendOffer, Idle
  <2> DEFINE p == call[c][n].to
  <2>2. ASSUME NEW s \in CallSteps, CallGoes(c, n, s)
        PROVE  /\ call'[c][n].step = s /\ call'[c][n].to = p
               /\ \A k \in Clients, i \in Calls : k # c \/ i # n => call'[k][i] = call[k][i]
    BY <1>t, <2>1, <2>2 DEF CallGoes, Idle
  <2>3. CASE CreateOffer(c, n)
    <3>1. PICK s \in {"set_local", "failed"} : CallGoes(c, n, s)
      BY <2>3 DEF CreateOffer
    <3>2. call[c][n].step = "create_offer"
      BY <2>3 DEF CreateOffer
    <3> QED
      BY <2>2, <3>1, <3>2 DEF CallMove, CallSteps
  <2>4. CASE SetLocalOffer(c, n)
    <3>1. call[c][n].step = "set_local"
      BY <2>4 DEF SetLocalOffer
    <3>2. CASE CallGoes(c, n, "failed")
      BY <2>2, <3>1, <3>2 DEF CallMove, CallSteps
    <3>3. CASE /\ CanSetLocal(pc[c][p], Offer(c, n))
               /\ pc' = [pc EXCEPT ![c][p] = SetLocal(pc[c][p], Offer(c, n))]
               /\ CallGoes(c, n, "send")
      <4>1. pc[c][p] \in PeerConnections
        BY <2>1 DEF Inv, TypeOK, CallInv
      <4>2. /\ SetLocal(pc[c][p], Offer(c, n)) # NoPeer
            /\ SetLocal(pc[c][p], Offer(c, n)).signaling = "have-local-offer"
        <5>1. Offer(c, n) \in Description /\ Offer(c, n).type = "offer"
          BY MadeTypes DEF Offer
        <5> QED
          BY <3>3, <4>1, <5>1, OfferSet
      <4>3. pc'[c][p] = SetLocal(pc[c][p], Offer(c, n))
        BY <2>1, <3>3 DEF Inv, TypeOK
      <4>4. /\ call'[c][n].step = "send" /\ call'[c][n].to = p
            /\ \A k \in Clients, i \in Calls : k # c \/ i # n => call'[k][i] = call[k][i]
        BY <2>2, <3>3 DEF CallSteps
      <4>5. CallMove(c, n)
        BY <3>1, <4>2, <4>3, <4>4 DEF CallMove
      <4>6. ASSUME NEW k \in Clients, NEW i \in Calls, k # c \/ i # n
            PROVE  CallMove(k, i)
        BY <4>4, <4>6 DEF CallMove
      <4> QED
        BY <4>5, <4>6
    <3> QED
      BY <2>4, <3>2, <3>3 DEF SetLocalOffer
  <2>5. CASE SendOffer(c, n)
    BY <2>2, <2>5 DEF SendOffer, CallMove, CallSteps
  <2> QED
    BY <1>3, <2>3, <2>4, <2>5 DEF CallStep
<1>4. ASSUME NEW c \in Clients, ReaderStep(c) \/ Lose(c) \/ \E p \in Clients : SendCandidate(c, p)
      PROVE  UNCHANGED call
  BY <1>4 DEF ReaderStep, ReadDescription, ReadCandidate, SetRemoteDescription, CreateAnswer,
     SetLocalAnswer, SendAnswer, AddIceCandidate, Lose, SendCandidate
<1> QED
  BY <1>1, <1>2, <1>3, <1>4 DEF Next, vars

(* What a step does to a reader loop: a description it sets was read, an   *)
(* answer it has set is sent, and what it read it sets.                    *)
ReaderMove(c) ==
    /\ reader'[c].step = "set_remote" =>
        \/ reader'[c] = reader[c]
        \/ /\ reader'[c].msg \in mail[c] \cap Description
           /\ reader'[c].peer = reader'[c].msg.by
    /\ reader[c].step = "send" =>
        \/ reader'[c] = reader[c]
        \/ SendPeerRequest(c, reader[c].peer, reader[c].msg)
    /\ reader[c].step = "set_remote" =>
        \/ reader'[c] = reader[c]
        \/ SetRemoteDescription(c)

LEMMA ReaderMoves == Inv /\ [Next]_vars => \A c \in Clients : ReaderMove(c)
<1> SUFFICES ASSUME Inv, [Next]_vars PROVE \A c \in Clients : ReaderMove(c)
  OBVIOUS
<1>t. TypeOK
  BY DEF Inv
<1>1. ASSUME UNCHANGED reader
      PROVE  \A c \in Clients : ReaderMove(c)
  BY <1>1 DEF ReaderMove
<1>2. ASSUME NEW c \in Clients, NEW r, reader' = [reader EXCEPT ![c] = r],
             r.step \notin {"set_remote", "send"}, reader[c].step \notin {"set_remote", "send"}
      PROVE  \A k \in Clients : ReaderMove(k)
  BY <1>t, <1>2, Moves DEF ReaderMove
<1>3. ASSUME NEW c \in Clients, ReaderStep(c)
      PROVE  \A k \in Clients : ReaderMove(k)
  <2>1. ASSUME NEW d \in mail[c] \cap Description, ReadDescription(c, d)
        PROVE  \A k \in Clients : ReaderMove(k)
    <3> DEFINE r == HandleOffer(GetOrCreatePeer(c, d.by), d.by, d)
    <3>1. reader' = [reader EXCEPT ![c] = r] /\ reader[c].step = "idle"
      BY <2>1 DEF ReadDescription, Idle
    <3>2. r.step = "set_remote" => r.msg = d /\ r.peer = d.by
      BY DEF HandleOffer, AfterRemote, Idle
    <3> HIDE DEF r
    <3> QED
      BY <1>t, <3>1, <3>2, Moves DEF ReaderMove
  <2>2. ASSUME NEW m \in mail[c] \cap Candidate, ReadCandidate(c, m)
        PROVE  \A k \in Clients : ReaderMove(k)
    BY <1>1, <1>2, <2>2 DEF ReadCandidate, Idle
  <2>3. CASE SetRemoteDescription(c)
    <3>1. reader[c].step = "set_remote"
      BY <2>3 DEF SetRemoteDescription
    <3> DEFINE r == AfterRemote(reader[c].peer, reader[c].msg)
    <3>2. r.step # "set_remote" /\ Idle.step # "set_remote"
      BY DEF AfterRemote, Idle
    <3>3. reader' = [reader EXCEPT ![c] = r] \/ reader' = [reader EXCEPT ![c] = Idle]
      BY <2>3 DEF SetRemoteDescription, ReaderDone
    <3> HIDE DEF r
    <3> QED
      BY <1>t, <2>3, <3>1, <3>2, <3>3, Moves DEF ReaderMove
  <2>4. CASE CreateAnswer(c)
    <3>1. reader[c].step = "create_answer"
      BY <2>4 DEF CreateAnswer
    <3> DEFINE d == AnswerTo(c, Remote(pc[c][reader[c].peer]))
               r == [step |-> "set_local", peer |-> reader[c].peer, msg |-> d]
    <3>2. reader' = [reader EXCEPT ![c] = r] \/ reader' = [reader EXCEPT ![c] = Idle]
      BY <2>4 DEF CreateAnswer, ReaderDone
    <3>3. r.step = "set_local" /\ Idle.step = "idle"
      BY DEF Idle
    <3> HIDE DEF r
    <3> QED
      BY <1>2, <3>1, <3>2, <3>3
  <2>5. CASE SetLocalAnswer(c)
    <3>1. reader[c].step = "set_local"
      BY <2>5 DEF SetLocalAnswer
    <3>2. reader'[c].step # "set_remote" /\ \A k \in Clients \ {c} : reader'[k] = reader[k]
      BY <1>t, <2>5, <3>1 DEF SetLocalAnswer, ReaderDone, TypeOK, Idle
    <3> QED
      BY <3>1, <3>2 DEF ReaderMove
  <2>6. CASE SendAnswer(c)
    <3>1. /\ reader[c].step = "send" /\ reader' = [reader EXCEPT ![c] = Idle]
          /\ SendPeerRequest(c, reader[c].peer, reader[c].msg)
      BY <2>6 DEF SendAnswer, ReaderDone
    <3> QED
      BY <1>t, <3>1, Moves DEF ReaderMove, Idle
  <2>7. CASE AddIceCandidate(c)
    BY <1>2, <2>7 DEF AddIceCandidate, ReaderDone, Idle
  <2> QED
    BY <1>3, <2>1, <2>2, <2>3, <2>4, <2>5, <2>6, <2>7 DEF ReaderStep
<1>4. ASSUME NEW c \in Clients, NEW n \in Calls, NEW p \in Clients,
             \/ ConnectToPeer(c, n, p) \/ CallStep(c, n)
             \/ Lose(c) \/ SendCandidate(c, p)
      PROVE  UNCHANGED reader
  BY <1>4 DEF ConnectToPeer, CallStep, CreateOffer, SetLocalOffer, SendOffer, Lose, SendCandidate
<1>5. ASSUME NEW c \in Clients, Lose(c) \/ \E p \in Clients : SendCandidate(c, p)
      PROVE  UNCHANGED reader
  BY <1>5 DEF Lose, SendCandidate
<1> QED
  BY <1>1, <1>3, <1>4, <1>5 DEF Next, vars

(* What a step does to the mail of a client: an offer and a candidate are  *)
(* sent by who made them, and go by being read or with the WebSocket.      *)
MailMove(c) ==
    /\ \A d \in mail'[c] \cap Description :
           d.type = "offer" =>
               \/ d \in mail[c]
               \/ \E n \in Calls : call[d.by][n].step = "send" /\ call[d.by][n].to = c
    /\ \A m \in mail'[c] \cap Candidate :
           \/ m \in mail[c]
           \/ pc[m.by][c] # NoPeer /\ Local(pc[m.by][c]) # NoDesc
    /\ \A d \in mail[c] \cap Description :
           d \in mail'[c] \/ ~online'[c] \/ ReadDescription(c, d)
    /\ \A m \in mail[c] \cap Candidate :
           m \in mail'[c] \/ ~online'[c] \/ ReadCandidate(c, m)
    /\ online'[c] => online[c]

(* One that is sent comes on top, if both clients are online.              *)
LEMMA SendAdds ==
    ASSUME TypeOK, NEW c \in Clients, NEW p \in Clients, NEW m, SendPeerRequest(c, p, m)
    PROVE  /\ UNCHANGED online
           /\ \A k \in Clients : mail[k] \subseteq mail'[k] /\ mail'[k] \subseteq mail[k] \cup {m}
           /\ \A k \in Clients \ {p} : mail'[k] = mail[k]
           /\ online[c] /\ online[p] => m \in mail'[p]
<1>1. mail \in [Clients -> SUBSET Message]
  BY DEF TypeOK
<1>2. CASE online[c] /\ online[p]
  <2>1. mail' = [mail EXCEPT ![p] = mail[p] \cup {m}] /\ UNCHANGED online
    BY <1>2 DEF SendPeerRequest, Relay!Post
  <2>2. mail'[p] = mail[p] \cup {m} /\ \A k \in Clients \ {p} : mail'[k] = mail[k]
    BY <1>1, <2>1
  <2> QED
    BY <2>1, <2>2
<1>3. CASE ~(online[c] /\ online[p])
  BY <1>3 DEF SendPeerRequest
<1> QED
  BY <1>2, <1>3

LEMMA DeliverTakes ==
    ASSUME TypeOK, NEW c \in Clients, NEW m, Relay!Deliver(c, m)
    PROVE  /\ UNCHANGED online
           /\ mail'[c] = mail[c] \ {m} /\ \A k \in Clients \ {c} : mail'[k] = mail[k]
BY DEF TypeOK, Relay!Deliver

LEMMA CloseClears ==
    ASSUME TypeOK, NEW c \in Clients, Relay!Close(c)
    PROVE  /\ ~online'[c] /\ mail'[c] = {}
           /\ \A k \in Clients \ {c} : online'[k] = online[k] /\ mail'[k] = mail[k]
BY DEF TypeOK, Relay!Close

LEMMA MailMovesOn == Inv /\ [Next]_vars => \A c \in Clients : MailMove(c)
<1> SUFFICES ASSUME Inv, [Next]_vars PROVE \A c \in Clients : MailMove(c)
  OBVIOUS
<1>t. TypeOK /\ \A d \in Description : d \notin Candidate
  BY Tags DEF Inv
<1>1. ASSUME UNCHANGED <<online, mail>>
      PROVE  \A c \in Clients : MailMove(c)
  BY <1>1 DEF MailMove
<1>2. ASSUME NEW c \in Clients, NEW n \in Calls, SendOffer(c, n)
      PROVE  \A k \in Clients : MailMove(k)
  <2>1. PICK p \in Clients : p = call[c][n].to
    BY <1>t, <1>2 DEF TypeOK, SendOffer, Idle
  <2>2. SendPeerRequest(c, p, Offer(c, n)) /\ call[c][n].step = "send"
    BY <1>2, <2>1 DEF SendOffer
  <2>3. Offer(c, n) \in Description /\ Offer(c, n).by = c
    BY MadeTypes DEF Offer
  <2> QED
    BY <1>t, <2>1, <2>2, <2>3, SendAdds DEF MailMove
<1>3. ASSUME NEW c \in Clients, SendAnswer(c)
      PROVE  \A k \in Clients : MailMove(k)
  <2>1. /\ ReaderOK(c) /\ reader[c].step = "send"
        /\ SendPeerRequest(c, reader[c].peer, reader[c].msg)
    BY <1>3 DEF SendAnswer, Inv, ReaderInv
  <2>2. PICK p \in Clients : p = reader[c].peer
    BY <1>t, <2>1 DEF TypeOK, Idle
  <2>3. reader[c].msg \in Description /\ reader[c].msg.type = "answer"
    BY <2>1 DEF ReaderOK
  <2> QED
    BY <1>t, <2>1, <2>2, <2>3, SendAdds DEF MailMove
<1>4. ASSUME NEW c \in Clients, NEW p \in Clients, SendCandidate(c, p)
      PROVE  \A k \in Clients : MailMove(k)
  <2>1. PICK m : m = [type |-> "candidate", by |-> c, num |-> gathered'[c][p]]
    OBVIOUS
  <2>2. m \notin Description /\ m.by = c
    BY <2>1 DEF Description
  <2>3. SendPeerRequest(c, p, m) /\ pc[c][p] # NoPeer /\ Local(pc[c][p]) # NoDesc
    BY <1>4, <2>1 DEF SendCandidate
  <2> QED
    BY <1>t, <2>2, <2>3, SendAdds DEF MailMove
<1>5. ASSUME NEW c \in Clients, ReaderStep(c)
      PROVE  \A k \in Clients : MailMove(k)
  <2>1. ASSUME NEW d \in mail[c] \cap Description, ReadDescription(c, d)
        PROVE  \A k \in Clients : MailMove(k)
    <3>1. Relay!Deliver(c, d)
      BY <2>1 DEF ReadDescription
    <3> QED
      BY <1>t, <2>1, <3>1, DeliverTakes DEF MailMove
  <2>2. ASSUME NEW m \in mail[c] \cap Candidate, ReadCandidate(c, m)
        PROVE  \A k \in Clients : MailMove(k)
    <3>1. Relay!Deliver(c, m)
      BY <2>2 DEF ReadCandidate
    <3> QED
      BY <1>t, <2>2, <3>1, DeliverTakes DEF MailMove
  <2> QED
    BY <1>1, <1>3, <1>5, <2>1, <2>2 DEF ReaderStep, SetRemoteDescription, CreateAnswer,
       SetLocalAnswer, AddIceCandidate
<1>6. ASSUME NEW c \in Clients, Lose(c)
      PROVE  \A k \in Clients : MailMove(k)
  <2>1. Relay!Close(c)
    BY <1>6 DEF Lose
  <2> QED
    BY <1>t, <2>1, CloseClears DEF MailMove
<1>7. ASSUME NEW c \in Clients, NEW n \in Calls, NEW p \in Clients,
             ConnectToPeer(c, n, p) \/ CreateOffer(c, n) \/ SetLocalOffer(c, n)
      PROVE  \A k \in Clients : MailMove(k)
  BY <1>1, <1>7 DEF ConnectToPeer, CreateOffer, SetLocalOffer
<1>8. CASE UNCHANGED vars
  BY <1>1, <1>8 DEF vars
<1> QED
  BY <1>2, <1>4, <1>5, <1>6, <1>7, <1>8 DEF Next, CallStep

(* What a step does to a connection: an own offer stays out until there is *)
(* a description of the other side, which comes from the reader loop, and  *)
(* a description of one's own is then on its way to be sent.               *)
PcMove(c, p) ==
    /\ pc[c][p] # NoPeer /\ pc[c][p].signaling = "have-local-offer" =>
        \/ pc'[c][p].signaling = "have-local-offer"
        \/ Remote(pc'[c][p]) # NoDesc
    /\ pc'[c][p] # NoPeer /\ Remote(pc'[c][p]) # NoDesc =>
        \/ pc[c][p] # NoPeer /\ Remote(pc'[c][p]) = Remote(pc[c][p])
        \/ /\ reader[c].step = "set_remote" /\ reader[c].peer = p
           /\ Remote(pc'[c][p]) = reader[c].msg
    /\ pc'[c][p] # NoPeer /\ Local(pc'[c][p]) # NoDesc =>
        \/ pc[c][p] # NoPeer /\ Local(pc[c][p]) # NoDesc
        \/ \E n \in Calls : call'[c][n].step = "send" /\ call'[c][n].to = p
        \/ reader'[c].step = "send" /\ reader'[c].peer = p

(* What the operations do to the description in force of either side.      *)
LEMMA InForce ==
    ASSUME NEW q \in PeerConnections, NEW d \in Description
    PROVE  /\ Remote(OfferCreated(q, d)) = Remote(q) /\ Local(OfferCreated(q, d)) = Local(q)
           /\ Remote(AnswerCreated(q, d)) = Remote(q) /\ Local(AnswerCreated(q, d)) = Local(q)
           /\ d.type = "offer" /\ CanSetLocal(q, d) => Remote(SetLocal(q, d)) = Remote(q)
           /\ d.type # "offer" => Remote(SetLocal(q, d)) = q.pendingRemote
           /\ Remote(SetRemote(q, d)) = d
           /\ Local(SetRemote(q, d)) # NoDesc => Local(q) # NoDesc
           /\ Remote(New) = NoDesc /\ Local(New) = NoDesc
<1>1. d # NoDesc
  BY Tags
<1>2. /\ Remote(OfferCreated(q, d)) = Remote(q) /\ Local(OfferCreated(q, d)) = Local(q)
      /\ Remote(AnswerCreated(q, d)) = Remote(q) /\ Local(AnswerCreated(q, d)) = Local(q)
  BY DEF PeerConnections, OfferCreated, AnswerCreated, Remote, Local
<1>3. /\ d.type = "offer" => Remote(SetLocal(q, d)) = Remote(q)
      /\ d.type # "offer" => Remote(SetLocal(q, d)) = q.pendingRemote
  BY DEF PeerConnections, SetLocal, Completed, New, Remote
<1>4. Remote(SetRemote(q, d)) = d
  BY <1>1 DEF PeerConnections, SetRemote, Completed, New, Remote
<1>5. Local(SetRemote(q, d)) # NoDesc => Local(q) # NoDesc
  BY DEF PeerConnections, SetRemote, Completed, New, Local
<1>6. Remote(New) = NoDesc /\ Local(New) = NoDesc
  BY DEF New, Remote, Local
<1> QED
  BY <1>2, <1>3, <1>4, <1>5, <1>6

(* One connection is exchanged, all others are as they were.               *)
LEMMA PutOne ==
    ASSUME TypeOK, NEW c \in Clients, NEW p \in Clients, NEW q,
           pc' = [pc EXCEPT ![c][p] = q], PcMove(c, p)
    PROVE  \A k, l \in Clients : PcMove(k, l)
<1>1. /\ pc'[c][p] = q
      /\ \A k, l \in Clients : k # c \/ l # p => pc'[k][l] = pc[k][l]
  <2>1. pc \in [Clients -> [Clients -> PeerConnections \cup {NoPeer}]]
    BY DEF TypeOK
  <2> QED
    BY <2>1
<1>2. ASSUME NEW k \in Clients, NEW l \in Clients, k # c \/ l # p
      PROVE  PcMove(k, l)
  BY <1>1, <1>2 DEF PcMove
<1> QED
  BY <1>1, <1>2

LEMMA PcMoves == Inv /\ [Next]_vars => \A c, p \in Clients : PcMove(c, p)
<1> SUFFICES ASSUME Inv, [Next]_vars PROVE \A c, p \in Clients : PcMove(c, p)
  OBVIOUS
<1>t. TypeOK
  BY DEF Inv
<1>1. ASSUME UNCHANGED pc
      PROVE  \A c, p \in Clients : PcMove(c, p)
  BY <1>1 DEF PcMove
<1>put. ASSUME NEW c \in Clients, NEW p \in Clients, NEW q, pc' = [pc EXCEPT ![c][p] = q]
        PROVE  pc'[c][p] = q
  BY <1>t, <1>put DEF TypeOK
<1>2. ASSUME NEW c \in Clients, NEW p \in Clients,
             pc' = [pc EXCEPT ![c][p] = GetOrCreatePeer(c, p)]
      PROVE  \A k, l \in Clients : PcMove(k, l)
  <2>1. pc'[c][p] = GetOrCreatePeer(c, p)
    BY <1>2, <1>put
  <2>2. PcMove(c, p)
    <3>1. Remote(New) = NoDesc /\ Local(New) = NoDesc
      BY DEF New, Remote, Local
    <3> QED
      BY <2>1, <3>1 DEF PcMove, GetOrCreatePeer
  <2> HIDE DEF PcMove
  <2> QED
    BY <1>t, <1>2, <2>2, PutOne
<1>3. ASSUME NEW c \in Clients, NEW n \in Calls, CreateOffer(c, n) \/ SetLocalOffer(c, n)
      PROVE  \A k, l \in Clients : PcMove(k, l)
  <2>1. PICK p \in Clients : p = call[c][n].to
    BY <1>t, <1>3 DEF TypeOK, CreateOffer, SetLocalOffer, Idle
  <2>2. pc[c][p] \in PeerConnections /\ pc[c][p] # NoPeer
    BY <1>t, <1>3, <2>1 DEF Inv, CallInv, TypeOK, CreateOffer, SetLocalOffer
  <2>3. PICK x \in PeerConnections : x = pc[c][p] /\ x # NoPeer
    BY <2>2
  <2>4. PICK d \in Description : d = Offer(c, n) /\ d.type = "offer"
    BY MadeTypes DEF Offer
  <2>5. CASE pc' = [pc EXCEPT ![c][p] = OfferCreated(x, d)]
    <3>1. pc'[c][p] = OfferCreated(x, d)
      BY <2>5, <1>put
    <3>2. PcMove(c, p)
      BY <2>3, <3>1, InForce, Operations DEF PcMove
    <3> QED
      BY <1>t, <2>5, <3>2, PutOne
  <2>6. CASE /\ pc' = [pc EXCEPT ![c][p] = SetLocal(x, d)] /\ CanSetLocal(x, d)
             /\ CallGoes(c, n, "send")
    <3>1. pc'[c][p] = SetLocal(x, d)
      BY <2>6, <1>put
    <3>2. call[c][n] # Idle
      BY <1>3 DEF CreateOffer, SetLocalOffer, Idle
    <3>3. call'[c][n].step = "send" /\ call'[c][n].to = p
      BY <1>t, <2>1, <2>6, <3>2 DEF CallGoes, TypeOK
    <3>4. /\ Remote(SetLocal(x, d)) = Remote(x)
          /\ SetLocal(x, d).signaling = "have-local-offer"
      BY <2>4, <2>6, InForce, OfferSet
    <3>5. PcMove(c, p)
      BY <2>3, <3>1, <3>3, <3>4 DEF PcMove
    <3> QED
      BY <1>t, <2>6, <3>5, PutOne
  <2> QED
    BY <1>1, <1>3, <2>1, <2>3, <2>4, <2>5, <2>6 DEF CreateOffer, SetLocalOffer
<1>4. ASSUME NEW c \in Clients, SetRemoteDescription(c) \/ CreateAnswer(c) \/ SetLocalAnswer(c)
      PROVE  \A k, l \in Clients : PcMove(k, l)
  <2>r. ReaderOK(c) /\ \A l \in Clients : ConnectionOK(c, l)
    BY DEF Inv, ReaderInv, ConnectionInv
  <2>1. PICK p \in Clients : p = reader[c].peer
    BY <1>t, <1>4 DEF TypeOK, SetRemoteDescription, CreateAnswer, SetLocalAnswer, Idle
  <2>2. pc[c][p] \in PeerConnections /\ pc[c][p] # NoPeer
    BY <1>t, <1>4, <2>r, <2>1 DEF ReaderOK, TypeOK, SetRemoteDescription, CreateAnswer, SetLocalAnswer
  <2>3. PICK x \in PeerConnections : x = pc[c][p] /\ x # NoPeer
    BY <2>2
  <2>4. CASE SetRemoteDescription(c)
    <3>1. /\ reader[c].step = "set_remote"
          /\ UNCHANGED pc \/ pc' = [pc EXCEPT ![c][p] = SetRemote(x, reader[c].msg)]
      BY <2>1, <2>3, <2>4 DEF SetRemoteDescription
    <3>2. PICK d \in Description : d = reader[c].msg /\ d # NoDesc
      BY <2>r, <3>1, Tags DEF ReaderOK
    <3>3. CASE pc' = [pc EXCEPT ![c][p] = SetRemote(x, d)]
      <4>1. pc'[c][p] = SetRemote(x, d)
        BY <3>3, <1>put
      <4>2. PcMove(c, p)
        BY <2>1, <2>3, <3>1, <3>2, <4>1, InForce DEF PcMove
      <4> QED
        BY <1>t, <3>3, <4>2, PutOne
    <3> QED
      BY <1>1, <3>1, <3>2, <3>3
  <2>5. CASE CreateAnswer(c)
    <3>1. Remote(x) \in Description
      BY <2>r, <2>1, <2>3, <2>5 DEF ReaderOK, CreateAnswer, PeerConnections, Remote
    <3>2. PICK d \in Description : d = AnswerTo(c, Remote(x))
      BY <3>1, MadeTypes
    <3>3. UNCHANGED pc \/ pc' = [pc EXCEPT ![c][p] = AnswerCreated(x, d)]
      BY <2>1, <2>3, <2>5, <3>2 DEF CreateAnswer
    <3>4. CASE pc' = [pc EXCEPT ![c][p] = AnswerCreated(x, d)]
      <4>1. pc'[c][p] = AnswerCreated(x, d)
        BY <3>4, <1>put
      <4>2. PcMove(c, p)
        BY <2>3, <4>1, InForce, Operations DEF PcMove
      <4> QED
        BY <1>t, <3>4, <4>2, PutOne
    <3> QED
      BY <1>1, <3>3, <3>4
  <2>6. CASE SetLocalAnswer(c)
    <3>1. /\ reader[c].step = "set_local" /\ x.pendingRemote # NoDesc
          /\ reader[c].msg = AnswerTo(c, x.pendingRemote)
      BY <2>r, <2>1, <2>3, <2>6 DEF ReaderOK, SetLocalAnswer
    <3>2. x.pendingRemote \in Description
      BY <2>3, <3>1 DEF PeerConnections
    <3>3. PICK d \in Description : d = reader[c].msg /\ d.type # "offer"
      BY <3>1, <3>2, MadeTypes DEF AnswerTo
    <3>4. CASE /\ pc' = [pc EXCEPT ![c][p] = SetLocal(x, d)]
               /\ reader' = [reader EXCEPT ![c].step = "send"]
      <4>1. pc'[c][p] = SetLocal(x, d)
        BY <3>4, <1>put
      <4>2. Remote(SetLocal(x, d)) = x.pendingRemote /\ Remote(x) = x.pendingRemote
        BY <3>1, <3>3, InForce DEF Remote
      <4>3. reader'[c].step = "send" /\ reader'[c].peer = p
        BY <1>t, <2>1, <3>1, <3>4 DEF TypeOK, Idle
      <4>4. PcMove(c, p)
        BY <2>3, <3>1, <4>1, <4>2, <4>3 DEF PcMove
      <4> QED
        BY <1>t, <3>4, <4>4, PutOne
    <3> QED
      BY <1>1, <2>1, <2>3, <2>6, <3>3, <3>4 DEF SetLocalAnswer
  <2> QED
    BY <1>4, <2>4, <2>5, <2>6
<1>5. ASSUME NEW c \in Clients, ReaderStep(c)
      PROVE  \A k, l \in Clients : PcMove(k, l)
  <2>1. ASSUME NEW d \in mail[c] \cap Description, ReadDescription(c, d)
        PROVE  \A k, l \in Clients : PcMove(k, l)
    <3>1. d.by \in Clients /\ pc' = [pc EXCEPT ![c][d.by] = GetOrCreatePeer(c, d.by)]
      BY <2>1 DEF ReadDescription, Description
    <3> QED
      BY <1>2, <3>1
  <2> QED
    BY <1>1, <1>4, <1>5, <2>1 DEF ReaderStep, ReadCandidate, SendAnswer, AddIceCandidate
<1>6. ASSUME NEW c \in Clients, NEW n \in Calls, NEW p \in Clients,
             ConnectToPeer(c, n, p) \/ SendOffer(c, n)
      PROVE  \A k, l \in Clients : PcMove(k, l)
  BY <1>1, <1>2, <1>6 DEF ConnectToPeer, SendOffer
<1>7. ASSUME NEW c \in Clients, Lose(c) \/ \E p \in Clients : SendCandidate(c, p)
      PROVE  \A k, l \in Clients : PcMove(k, l)
  BY <1>1, <1>7 DEF Lose, SendCandidate
<1> QED
  BY <1>1, <1>3, <1>5, <1>6, <1>7 DEF Next, CallStep, vars

-----------------------------------------------------------------------------
(* What a step may do to a connection, a call, a loop and the mail.        *)
LEMMA AllMove ==
    ASSUME Inv, [Next]_vars
    PROVE  /\ TypeOK /\ Kept
           /\ \A c, p \in Clients : PcMove(c, p)
           /\ \A c \in Clients, n \in Calls : CallMove(c, n)
           /\ \A c \in Clients : ReaderMove(c) /\ MailMove(c)
BY ControlStep, PcMoves, CallMoves, ReaderMoves, MailMovesOn DEF Inv

(* An answer that is read answers an offer its receiver made.              *)
LEMMA AnswerSeen ==
    ASSUME Inv, NEW c \in Clients, NEW d \in mail[c] \cap Description, d.type # "offer"
    PROVE  OfferSeen(c, d.by)
<1> DEFINE p == d.by
           o == Offer(d.of[1], d.of[2])
<1>1. p \in Clients /\ d.type = "answer"
  BY DEF Description
<1>2. pc[p][c] # NoPeer /\ pc[p][c].currentRemote = o /\ d.of[1] = c
  BY <1>1 DEF Inv, AnswersFit
<1>3. o # NoDesc /\ o.type = "offer"
  BY DEF Offer, NoDesc
<1>4. pc[p][c].pendingRemote = NoDesc
  BY <1>1, <1>2, <1>3 DEF Inv, ConnectionInv, ConnectionOK
<1>5. Remote(pc[p][c]) = o
  BY <1>2, <1>4 DEF Remote
<1> HIDE DEF o, p
<1> QED
  BY <1>2, <1>3, <1>5 DEF OfferSeen, p

(* Who made an offer stays able to take the answer; who makes one, is.     *)
LEMMA OutStep == Inv /\ OutInv /\ [Next]_vars => OutInv'
<1> SUFFICES ASSUME Inv, OutInv, [Next]_vars, NEW c \in Clients, NEW p \in Clients,
                    OfferSeen(c, p)'
             PROVE  Out(c, p)'
  BY DEF OutInv
<1>m. /\ TypeOK /\ Kept /\ PcMove(c, p) /\ PcMove(p, c)
      /\ \A n \in Calls : CallMove(c, n)
      /\ ReaderMove(c) /\ ReaderMove(p) /\ MailMove(p)
  BY AllMove
<1>1. Out(c, p) => Out(c, p)'
  BY <1>m DEF Out, Kept, PcMove
<1>2. OfferSeen(c, p) => Out(c, p)'
  BY <1>1 DEF OutInv
<1>3. ASSUME NEW n \in Calls, call'[c][n].step = "send", call'[c][n].to = p
      PROVE  Out(c, p)'
  BY <1>m, <1>2, <1>3 DEF CallMove, OfferSeen, Out
<1>4. ASSUME NEW d \in mail'[p] \cap Description, d.by = c, d.type = "offer"
      PROVE  Out(c, p)'
  BY <1>m, <1>2, <1>4 DEF MailMove, OfferSeen
<1>5. ASSUME reader'[p].step = "set_remote", reader'[p].peer = c, reader'[p].msg.type = "offer"
      PROVE  Out(c, p)'
  BY <1>m, <1>2, <1>5 DEF ReaderMove, OfferSeen
<1>6. ASSUME pc'[p][c] # NoPeer, Remote(pc'[p][c]) # NoDesc, Remote(pc'[p][c]).type = "offer"
      PROVE  Out(c, p)'
  <2>1. CASE pc[p][c] # NoPeer /\ Remote(pc'[p][c]) = Remote(pc[p][c])
    BY <1>2, <1>6, <2>1 DEF OfferSeen
  <2>2. CASE /\ reader[p].step = "set_remote" /\ reader[p].peer = c
             /\ Remote(pc'[p][c]) = reader[p].msg
    BY <1>2, <1>6, <2>2 DEF OfferSeen
  <2> QED
    BY <1>m, <1>6, <2>1, <2>2 DEF PcMove
<1>7. ASSUME reader'[c].step = "set_remote", reader'[c].peer = p, reader'[c].msg.type = "answer"
      PROVE  Out(c, p)'
  <2>1. CASE reader'[c] = reader[c]
    BY <1>2, <1>7, <2>1 DEF OfferSeen
  <2>2. CASE reader'[c].msg \in mail[c] \cap Description /\ reader'[c].peer = reader'[c].msg.by
    BY <1>2, <1>7, <2>2, AnswerSeen
  <2> QED
    BY <1>m, <1>7, <2>1, <2>2 DEF ReaderMove
<1> QED
  BY <1>3, <1>4, <1>5, <1>6, <1>7 DEF OfferSeen

(* A description that is due arrives: nothing that is read is left untaken.*)
LEMMA DescribedStep == Inv /\ OutInv /\ DescribedInv /\ [Next]_vars => DescribedInv'
<1> SUFFICES ASSUME Inv, OutInv, DescribedInv, [Next]_vars, NEW c \in Clients, NEW p \in Clients,
                    Due(c, p)'
             PROVE  Described(c, p)'
  BY DEF DescribedInv
<1>m. /\ TypeOK /\ Kept /\ PcMove(p, c)
      /\ \A n \in Calls : CallMove(p, n)
      /\ ReaderMove(c) /\ ReaderMove(p) /\ MailMove(c) /\ MailMove(p)
  BY AllMove
<1>o. online'[c] /\ online'[p] /\ online[c] /\ online[p]
  BY <1>m DEF Due, MailMove
<1>1. Described(c, p) => Described(c, p)'
  <2>1. ASSUME pc[c][p] # NoPeer, Remote(pc[c][p]) # NoDesc
        PROVE  Described(c, p)'
    BY <1>m, <2>1 DEF Described, Kept
  <2>2. ASSUME NEW d \in mail[c] \cap Description, d.by = p
        PROVE  Described(c, p)'
    <3>1. CASE ReadDescription(c, d)
      <4> DEFINE q == GetOrCreatePeer(c, p)
      <4>1. /\ pc' = [pc EXCEPT ![c][p] = q]
            /\ reader' = [reader EXCEPT ![c] = HandleOffer(q, p, d)]
        BY <2>2, <3>1 DEF ReadDescription
      <4>2. q # NoPeer
        BY Tags DEF GetOrCreatePeer
      <4>3. pc'[c][p] = q /\ reader'[c] = HandleOffer(q, p, d)
        BY <1>m, <4>1, Moves DEF TypeOK
      <4> HIDE DEF q
      <4> QED
        BY <4>2, <4>3 DEF Described, HandleOffer
    <3>2. CASE d \in mail'[c]
      BY <2>2, <3>2 DEF Described
    <3> QED
      BY <1>m, <1>o, <3>1, <3>2 DEF MailMove
  <2>3. ASSUME NEW n \in Calls, call[p][n].step = "send", call[p][n].to = c
        PROVE  Described(c, p)'
    <3>1. CASE call'[p][n] = call[p][n]
      BY <2>3, <3>1 DEF Described
    <3>2. CASE SendPeerRequest(p, c, Offer(p, n))
      <4>1. Offer(p, n) \in mail'[c]
        BY <1>m, <1>o, <3>2, SendAdds
      <4>2. Offer(p, n) \in Description /\ Offer(p, n).by = p
        BY MadeTypes DEF Offer
      <4> QED
        BY <4>1, <4>2 DEF Described
    <3> QED
      BY <1>m, <2>3, <3>1, <3>2 DEF CallMove
  <2>4. ASSUME reader[p].step = "send", reader[p].peer = c
        PROVE  Described(c, p)'
    <3>1. CASE reader'[p] = reader[p]
      BY <2>4, <3>1 DEF Described
    <3>2. CASE SendPeerRequest(p, c, reader[p].msg)
      <4>1. reader[p].msg \in mail'[c]
        BY <1>m, <1>o, <3>2, SendAdds
      <4>2. reader[p].msg \in Description /\ reader[p].msg.by = p
        BY <2>4 DEF Inv, ReaderInv, ReaderOK
      <4> QED
        BY <4>1, <4>2 DEF Described
    <3> QED
      BY <1>m, <2>4, <3>1, <3>2 DEF ReaderMove
  <2>5. ASSUME reader[c].step = "set_remote", reader[c].peer = p
        PROVE  Described(c, p)'
    <3>1. CASE reader'[c] = reader[c]
      BY <2>5, <3>1 DEF Described
    <3>2. CASE SetRemoteDescription(c)
      <4>1. pc[c][p] \in PeerConnections /\ Remote(pc[c][p]) = NoDesc
        BY <1>m, <2>5 DEF Inv, ReaderInv, ReaderOK, TypeOK
      <4>2. PICK d \in Description : d = reader[c].msg /\ d # NoDesc
        BY <2>5, Tags DEF Inv, ReaderInv, ReaderOK
      <4>3. CanSetRemote(pc[c][p], d)
        <5>1. CASE d.type = "offer"
          BY <5>1 DEF CanSetRemote
        <5>2. CASE d.type = "answer"
          <6>1. Out(c, p)
            BY <2>5, <4>2, <5>2 DEF OutInv, OfferSeen
          <6> QED
            BY <4>1, <6>1 DEF Out, CanSetRemote
        <5> QED
          BY <5>1, <5>2 DEF Description
      <4>4. pc' = [pc EXCEPT ![c][p] = SetRemote(pc[c][p], d)]
        BY <2>5, <3>2, <4>2, <4>3 DEF SetRemoteDescription
      <4> DEFINE q == SetRemote(pc[c][p], d)
      <4>5. Remote(q) = d /\ q # NoPeer
        BY <4>1, InForce, OperationTypes, Tags
      <4> HIDE DEF q
      <4>6. pc'[c][p] = q
        BY <1>m, <4>4 DEF TypeOK, q
      <4> QED
        BY <4>2, <4>5, <4>6 DEF Described
    <3> QED
      BY <1>m, <2>5, <3>1, <3>2 DEF ReaderMove
  <2> QED
    BY <2>1, <2>2, <2>3, <2>4, <2>5 DEF Described
<1>2. Due(c, p) => Described(c, p)'
  BY <1>1 DEF DescribedInv
<1>3. ASSUME pc'[p][c] # NoPeer, Local(pc'[p][c]) # NoDesc
      PROVE  Described(c, p)'
  BY <1>m, <1>o, <1>2, <1>3 DEF PcMove, Due, Described
<1>4. ASSUME NEW m \in mail'[c] \cap Candidate, m.by = p
      PROVE  Described(c, p)'
  BY <1>m, <1>o, <1>2, <1>4 DEF MailMove, Due
<1> QED
  BY <1>3, <1>4 DEF Due

LEMMA LossInvHolds == Spec => [](OutInv /\ DescribedInv)
<1>1. Init => OutInv /\ DescribedInv
  <2> SUFFICES ASSUME Init PROVE OutInv /\ DescribedInv
    OBVIOUS
  <2>1. \A c, p \in Clients : ~OfferSeen(c, p) /\ ~Due(c, p)
    BY DEF Init, Relay!Init, OfferSeen, Due, Idle
  <2> QED
    BY <2>1 DEF OutInv, DescribedInv
<1> QED
  BY <1>1, OutStep, DescribedStep, InvHolds, PTL DEF Spec

(* A candidate is dropped only when it comes before a description of its   *)
(* sender that is still to come.                                           *)
THEOREM CandidatesAreLostByOvertaking == Spec => LossNeedsOvertaking
<1> DEFINE Lossy(c, m) ==
        m \notin mail'[c] /\ online'[c] /\ online[m.by] /\ reader'[c].step # "add" =>
            \/ \E d \in mail[c] \cap Description : d.by = m.by
            \/ \E n \in Calls : call[m.by][n].step = "send" /\ call[m.by][n].to = c
            \/ reader[m.by].step = "send" /\ reader[m.by].peer = c
<1>1. Inv /\ DescribedInv /\ [Next]_vars =>
          \A c \in Clients : \A m \in mail[c] \cap Candidate : Lossy(c, m)
  <2> SUFFICES ASSUME Inv, DescribedInv, [Next]_vars, NEW c \in Clients,
                      NEW m \in mail[c] \cap Candidate,
                      m \notin mail'[c], online'[c], online[m.by], reader'[c].step # "add"
               PROVE  \/ \E d \in mail[c] \cap Description : d.by = m.by
                      \/ \E n \in Calls : call[m.by][n].step = "send" /\ call[m.by][n].to = c
                      \/ reader[m.by].step = "send" /\ reader[m.by].peer = c
    OBVIOUS
  <2>1. TypeOK /\ MailMove(c) /\ m.by \in Clients
    BY AllMove DEF Candidate
  <2>2. Described(c, m.by)
    BY <2>1 DEF DescribedInv, Due, MailMove
  <2>3. ReadCandidate(c, m)
    BY <2>1 DEF MailMove
  <2>4. reader[c].step = "idle"
    BY <2>3 DEF ReadCandidate, Idle
  <2>5. ~CanAdd(pc[c][m.by])
    <3> SUFFICES ASSUME CanAdd(pc[c][m.by]) PROVE FALSE
      OBVIOUS
    <3>1. reader' = [reader EXCEPT ![c] = [step |-> "add", peer |-> m.by, msg |-> m]]
      BY <2>3 DEF ReadCandidate
    <3>2. reader'[c] = [step |-> "add", peer |-> m.by, msg |-> m]
      BY <2>1, <3>1, Moves
    <3> QED
      BY <3>2
  <2> QED
    BY <2>2, <2>4, <2>5 DEF Described, CanAdd
<1>2. Inv /\ DescribedInv /\ [Next]_vars =>
          [\A c \in Clients : \A m \in mail[c] \cap Candidate : Lossy(c, m)]_vars
  BY <1>1
<1> QED
  BY <1>2, InvHolds, LossInvHolds, PTL DEF Spec, LossNeedsOvertaking
=============================================================================
