------------------------- MODULE ClientSocketProofs -------------------------
(***************************************************************************)
(* Proofs about ClientSocket, for every number of tasks, requests and      *)
(* messages and every size of the channel's buffer.                        *)
(***************************************************************************)
EXTENDS ClientSocket, SequenceTheorems, TLAPS

USE SocketAssumption

-----------------------------------------------------------------------------
(* The inductive invariant. Before connect there is nothing; afterwards the*)
(* requests that were sent are, one by one, the written ones, the one in   *)
(* the writer's hands, and the queue. When the writer has ended only the   *)
(* first part is left.                                                     *)
Hands == IF writer.step = "write" THEN 1 ELSE 0

Before ==
    ws = "none" =>
        /\ writer = Ended /\ reader = "ended"
        /\ queue = <<>> /\ parked = <<>> /\ sent = <<>> /\ written = <<>>

WrittenPart ==
    /\ Len(written) <= Len(sent)
    /\ \A i \in 1..Len(written) : written[i] = sent[i]

WaitingPart ==
    writer # Ended =>
        /\ Len(sent) = Len(written) + Hands + Len(queue)
        /\ writer.step = "write" => sent[Len(written) + 1] = writer.msg
        /\ \A i \in 1..Len(queue) : queue[i] = sent[Len(written) + Hands + i]

(* The types the invariant needs.                                          *)
Types ==
    /\ queue \in Seq(Request) /\ parked \in Seq(Senders)
    /\ sends \in [Senders -> 0..MaxSends]
    /\ writer \in {Idle, Ended} \cup [step : {"write"}, msg : Request]
    /\ peers \subseteq Peers /\ known \in Seq(Peers) /\ inbox \in Seq(Incoming)
    /\ sent \in Seq(Request) /\ written \in Seq(Request)

Inv == Types /\ Before /\ WrittenPart /\ WaitingPart

-----------------------------------------------------------------------------
(* The writer's states are told apart by their step.                       *)
LEMMA WriterSteps ==
    /\ Idle # Ended /\ Idle.step # "write" /\ Ended.step # "write"
    /\ \A m : [step |-> "write", msg |-> m].step = "write"
              /\ [step |-> "write", msg |-> m] # Ended
              /\ [step |-> "write", msg |-> m].msg = m
    /\ \A w \in [step : {"write"}, msg : Request] :
           w.step = "write" /\ w # Ended /\ w # Idle /\ w.msg \in Request
BY DEF Idle, Ended

(* What a send does to the channel, whoever sends: nothing once the writer *)
(* has ended, else one more request at the end of the queue.               *)
LEMMA SendEffect ==
    ASSUME Types, NEW s \in Senders, Send(s)
    PROVE  /\ sends' \in [Senders -> 0..MaxSends]
           /\ \/ writer = Ended /\ UNCHANGED <<queue, parked, sent>>
              \/ /\ writer # Ended
                 /\ \E m \in Request : queue' = Append(queue, m) /\ sent' = Append(sent, m)
                 /\ parked' = Parked(s, queue')
<1>1. sends[s] + 1 \in 1..MaxSends
  BY DEF Send, Types
<1>2. sends' \in [Senders -> 0..MaxSends] /\ sends'[s] = sends[s] + 1
  BY <1>1 DEF Send, Types
<1>3. <<s, sends'[s]>> \in Request
  BY <1>1, <1>2 DEF Request
<1> QED BY <1>2, <1>3 DEF Send

LEMMA SendKeeps ==
    ASSUME Inv, NEW s \in Senders, Send(s), UNCHANGED <<ws, writer, written>>
    PROVE  /\ queue' \in Seq(Request) /\ parked' \in Seq(Senders)
           /\ sends' \in [Senders -> 0..MaxSends] /\ sent' \in Seq(Request)
           /\ Before' /\ WrittenPart' /\ WaitingPart'
<1>1. CASE writer = Ended
  BY <1>1, SendEffect DEF Inv, Types, Before, WrittenPart, WaitingPart, Hands, Send
<1>2. CASE writer # Ended
  <2>1. PICK m \in Request : queue' = Append(queue, m) /\ sent' = Append(sent, m)
    BY <1>2, SendEffect DEF Inv
  <2>2. parked' = Parked(s, queue') /\ sends' \in [Senders -> 0..MaxSends]
    BY <1>2, SendEffect DEF Inv
  <2>3. /\ queue \in Seq(Request) /\ parked \in Seq(Senders) /\ sent \in Seq(Request)
        /\ written \in Seq(Request)
    BY DEF Inv, Types
  <2>4. queue' \in Seq(Request) /\ sent' \in Seq(Request) /\ parked' \in Seq(Senders)
    BY <2>1, <2>2, <2>3 DEF Parked
  <2>5. /\ Len(sent') = Len(sent) + 1 /\ sent'[Len(sent) + 1] = m
        /\ \A i \in 1..Len(sent) : sent'[i] = sent[i]
    BY <2>1, <2>3, AppendProperties
  <2>6. /\ Len(queue') = Len(queue) + 1 /\ queue'[Len(queue) + 1] = m
        /\ \A i \in 1..Len(queue) : queue'[i] = queue[i]
    BY <2>1, <2>3, AppendProperties
  <2>7. Len(sent) \in Nat /\ Len(written) \in Nat /\ Len(queue) \in Nat
    BY <2>3, LenProperties
  <2>8. WrittenPart'
    BY <2>5, <2>7 DEF Inv, WrittenPart
  <2>9. WaitingPart'
    <3> DEFINE n == Len(written) + Hands
    <3>1. n \in Nat /\ n' = n /\ Hands' = Hands /\ UNCHANGED <<writer, written>>
      BY <2>7 DEF Hands
    <3>2. /\ Len(sent) = n + Len(queue)
          /\ \A i \in 1..Len(queue) : queue[i] = sent[n + i]
          /\ writer.step = "write" => sent[Len(written) + 1] = writer.msg
      BY <1>2 DEF Inv, WaitingPart
    <3>3. \A i \in 1..Len(queue') : queue'[i] = sent'[n + i]
      <4> SUFFICES ASSUME NEW i \in 1..Len(queue') PROVE queue'[i] = sent'[n + i]
        OBVIOUS
      <4> HIDE DEF n
      <4>1. CASE i \in 1..Len(queue)
        <5>1. queue'[i] = sent[n + i]
          BY <2>6, <3>2, <4>1
        <5>2. n + i \in 1..Len(sent)
          BY <2>7, <3>1, <3>2, <4>1
        <5> QED BY <2>5, <5>1, <5>2
      <4>2. CASE i = Len(queue) + 1
        <5>1. n + i = Len(sent) + 1
          BY <2>7, <3>1, <3>2, <4>2
        <5> QED BY <2>5, <2>6, <4>2, <5>1
      <4> QED BY <2>6, <2>7, <4>1, <4>2
    <3>4. Len(sent') = n + Len(queue')
      BY <2>5, <2>6, <2>7, <3>1, <3>2
    <3>5. writer'.step = "write" => sent'[Len(written') + 1] = writer'.msg
      <4>1. writer.step = "write" => Len(written) + 1 \in 1..Len(sent)
        BY <2>7, <3>2 DEF Hands
      <4> QED BY <2>5, <3>1, <3>2, <4>1
    <3> QED BY <3>1, <3>3, <3>4, <3>5 DEF WaitingPart
  <2>10. Before'
    BY DEF Send, Before
  <2> QED BY <2>2, <2>4, <2>8, <2>9, <2>10
<1> QED BY <1>1, <1>2

(* The PeerManager keeps its type, and ListedOnce.                         *)
LEMMA KnownListed ==
    ASSUME known \in Seq(Peers), NEW p \in Peers
    PROVE  /\ Known(p) \in Seq(Peers)
           /\ \E i \in DOMAIN Known(p) : Known(p)[i] = p
           /\ \A q : (\E i \in DOMAIN known : known[i] = q)
                     => \E i \in DOMAIN Known(p) : Known(p)[i] = q
           /\ (\A i, j \in DOMAIN known : known[i] = known[j] => i = j)
              => \A i, j \in DOMAIN Known(p) : Known(p)[i] = Known(p)[j] => i = j
<1>1. CASE \E i \in DOMAIN known : known[i] = p
  BY <1>1 DEF Known
<1>2. CASE ~\E i \in DOMAIN known : known[i] = p
  <2>1. Known(p) = Append(known, p)
    BY <1>2 DEF Known
  <2>2. /\ Known(p) \in Seq(Peers) /\ Len(Known(p)) = Len(known) + 1
        /\ \A i \in 1..Len(known) : Known(p)[i] = known[i]
        /\ Known(p)[Len(known) + 1] = p
    BY <2>1, AppendProperties
  <2>3. /\ DOMAIN known = 1..Len(known) /\ DOMAIN Known(p) = 1..(Len(known) + 1)
        /\ Len(known) \in Nat
    BY <2>2, LenProperties
  <2> QED BY <1>2, <2>2, <2>3
<1> QED BY <1>1, <1>2

LEMMA ManagerTypes ==
    ASSUME Types, NEW p \in Peers, GetOrCreatePeer(p)
    PROVE  peers' \subseteq Peers /\ known' \in Seq(Peers)
<1>1. known \in Seq(Peers) /\ peers \subseteq Peers
  BY DEF Types
<1>2. Known(p) \in Seq(Peers)
  BY <1>1, KnownListed
<1> QED BY <1>1, <1>2 DEF GetOrCreatePeer, manager

-----------------------------------------------------------------------------
LEMMA InvInit == Init => Inv
<1> SUFFICES ASSUME Init PROVE Inv
  OBVIOUS
<1>1. Types
  BY DEF Init, Types, Senders
<1>2. Before /\ WrittenPart /\ WaitingPart
  BY DEF Init, Before, WrittenPart, WaitingPart
<1> QED BY <1>1, <1>2 DEF Inv

(* The writer takes the head of the queue into its hands.                  *)
LEMMA TakesKeeps == ASSUME Inv, WriterTakes PROVE Inv'
<1>1. /\ queue \in Seq(Request) /\ sent \in Seq(Request) /\ written \in Seq(Request)
      /\ parked \in Seq(Senders) /\ queue # <<>> /\ writer = Idle
  BY DEF Inv, Types, WriterTakes
<1>2. /\ Head(queue) \in Request /\ queue' \in Seq(Request)
      /\ Len(queue') = Len(queue) - 1 /\ Len(queue) \in Nat \ {0}
      /\ \A i \in 1..Len(queue') : queue'[i] = queue[i + 1]
      /\ Head(queue) = queue[1]
  BY <1>1, HeadTailProperties, EmptySeq DEF WriterTakes
<1>3. parked' \in Seq(Senders)
  BY <1>1, HeadTailProperties DEF WriterTakes
<1>4. writer' = [step |-> "write", msg |-> Head(queue)] /\ writer' # Ended
  BY WriterSteps DEF WriterTakes
<1>5. writer' \in [step : {"write"}, msg : Request]
  BY <1>2, <1>4
<1>6. Types'
  BY <1>2, <1>3, <1>5 DEF Inv, Types, WriterTakes, manager
<1>7. ws # "none" /\ ws' = ws
  BY <1>1, WriterSteps DEF Inv, Before, WriterTakes
<1>8. Hands = 0 /\ Hands' = 1 /\ writer # Ended
  BY <1>1, <1>4, WriterSteps DEF Hands
<1>9. UNCHANGED <<sent, written>> /\ Len(sent) \in Nat /\ Len(written) \in Nat
  BY <1>1, LenProperties DEF WriterTakes
<1>10. writer'.msg = queue[1]
  BY <1>2, <1>4
<1>11. WaitingPart'
  <2>1. /\ Len(sent) = Len(written) + Len(queue)
        /\ \A i \in 1..Len(queue) : queue[i] = sent[Len(written) + i]
    BY <1>2, <1>8, <1>9 DEF Inv, WaitingPart
  <2>2. sent[Len(written) + 1] = queue[1]
    BY <1>2, <2>1
  <2>3. \A i \in 1..Len(queue') : queue'[i] = sent[Len(written) + 1 + i]
    <3> SUFFICES ASSUME NEW i \in 1..Len(queue') PROVE queue'[i] = sent[Len(written) + 1 + i]
      OBVIOUS
    <3>1. queue'[i] = queue[i + 1] /\ i + 1 \in 1..Len(queue)
      BY <1>2
    <3>2. Len(written) + (i + 1) = Len(written) + 1 + i
      BY <1>9, <1>2
    <3> QED BY <2>1, <3>1, <3>2
  <2>4. Len(sent) = Len(written) + 1 + Len(queue')
    BY <1>2, <1>9, <2>1
  <2> QED BY <1>8, <1>9, <1>10, <2>2, <2>3, <2>4 DEF WaitingPart
<1>12. WrittenPart' /\ Before'
  BY <1>7, <1>9 DEF Inv, WrittenPart, Before
<1> QED BY <1>6, <1>11, <1>12 DEF Inv

(* The request in the writer's hands is written.                           *)
LEMMA WritesKeeps == ASSUME Inv, WriterWrites PROVE Inv'
<1>1. /\ queue \in Seq(Request) /\ sent \in Seq(Request) /\ written \in Seq(Request)
      /\ writer.step = "write" /\ written' = Append(written, writer.msg)
      /\ writer' = Idle /\ UNCHANGED <<queue, sent, parked, sends, ws>>
  BY DEF Inv, Types, WriterWrites, channel
<1>2. writer # Ended /\ writer.msg \in Request /\ Hands = 1
  BY <1>1, WriterSteps DEF Inv, Types, Hands
<1>3. /\ written' \in Seq(Request) /\ Len(written') = Len(written) + 1
      /\ \A i \in 1..Len(written) : written'[i] = written[i]
      /\ written'[Len(written) + 1] = writer.msg
  BY <1>1, <1>2, AppendProperties
<1>4. Len(sent) \in Nat /\ Len(written) \in Nat /\ Len(queue) \in Nat
  BY <1>1, LenProperties
<1>5. /\ Len(sent) = Len(written) + 1 + Len(queue)
      /\ sent[Len(written) + 1] = writer.msg
      /\ \A i \in 1..Len(queue) : queue[i] = sent[Len(written) + 1 + i]
  BY <1>1, <1>2 DEF Inv, WaitingPart
<1>6. WrittenPart'
  <2>1. \A i \in 1..Len(written) : written[i] = sent[i]
    BY DEF Inv, WrittenPart
  <2> QED BY <1>1, <1>3, <1>4, <1>5, <2>1 DEF WrittenPart
<1>7. Hands' = 0 /\ writer' # Ended /\ writer'.step # "write"
  BY <1>1, WriterSteps DEF Hands
<1>8. WaitingPart'
  BY <1>1, <1>3, <1>4, <1>5, <1>7 DEF WaitingPart
<1>9. Before'
  BY <1>1, WriterSteps DEF WriterWrites, Before
<1>10. Types'
  BY <1>1, <1>3 DEF Inv, Types, WriterWrites, manager
<1> QED BY <1>6, <1>8, <1>9, <1>10 DEF Inv

(* The error that ends the writer takes what was not yet written.          *)
LEMMA EndsKeeps == ASSUME Inv, WriterEnds PROVE Inv'
<1>1. Types'
  BY DEF Inv, Types, WriterEnds, manager
<1>2. Before' /\ WrittenPart' /\ WaitingPart'
  BY DEF Inv, Before, WrittenPart, WaitingPart, WriterEnds
<1> QED BY <1>1, <1>2 DEF Inv

LEMMA ConnectKeeps == ASSUME Inv, Connect PROVE Inv'
<1>1. queue = <<>> /\ sent = <<>> /\ written = <<>> /\ UNCHANGED <<queue, sent, written>>
  BY DEF Inv, Before, Connect, channel
<1>2. writer' = Idle /\ ws' = "connecting"
  BY DEF Connect, SpawnLoops
<1>3. Hands' = 0 /\ writer'.step # "write"
  BY <1>2, WriterSteps DEF Hands
<1>4. Types'
  BY <1>2 DEF Inv, Types, Connect, channel, manager
<1>5. Before' /\ WrittenPart' /\ WaitingPart'
  BY <1>1, <1>2, <1>3 DEF Before, WrittenPart, WaitingPart
<1> QED BY <1>4, <1>5 DEF Inv

(* A step that leaves the channel and the writer alone.                    *)
LEMMA ChannelAlone ==
    ASSUME Inv, UNCHANGED <<channel, writer, written>>, ws' = ws \/ ws' # "none",
           peers' \subseteq Peers, known' \in Seq(Peers), inbox' \in Seq(Incoming),
           ws' = ws => reader' = reader \/ ws # "none"
    PROVE  Inv'
<1>1. Types'
  BY DEF Inv, Types, channel
<1>2. Before'
  BY DEF Inv, Before, channel
<1>3. WrittenPart' /\ WaitingPart'
  BY DEF Inv, WrittenPart, WaitingPart, Hands, channel
<1> QED BY <1>1, <1>2, <1>3 DEF Inv

LEMMA CallerKeeps ==
    ASSUME Inv, NEW s \in Callers, NEW p \in Peers, CallerSends(s, p)
    PROVE  Inv'
<1>1. s \in Senders /\ Send(s) /\ UNCHANGED <<ws, writer, written, inbox>>
  BY DEF CallerSends, Senders
<1>2. peers' \subseteq Peers /\ known' \in Seq(Peers)
  BY ManagerTypes DEF CallerSends, Inv
<1>3. /\ queue' \in Seq(Request) /\ parked' \in Seq(Senders)
      /\ sends' \in [Senders -> 0..MaxSends] /\ sent' \in Seq(Request)
      /\ Before' /\ WrittenPart' /\ WaitingPart'
  BY <1>1, SendKeeps
<1> QED BY <1>1, <1>2, <1>3 DEF Inv, Types

LEMMA ReaderKeeps == ASSUME Inv, Reader PROVE Inv'
<1>1. CASE ReaderTakes
  <2>1. inbox \in Seq(Incoming) /\ inbox # <<>> /\ UNCHANGED <<ws, channel, writer, written>>
    BY <1>1 DEF Inv, Types, ReaderTakes
  <2>2. Head(inbox) \in Incoming /\ inbox' \in Seq(Incoming)
    BY <1>1, <2>1, HeadTailProperties DEF ReaderTakes
  <2>3. peers' \subseteq Peers /\ known' \in Seq(Peers)
    <3>1. CASE Head(inbox).type \notin {"WebRtcOffer", "NewPeer"}
      BY <1>1, <3>1 DEF ReaderTakes, manager, Inv, Types
    <3>2. CASE Head(inbox).type = "WebRtcOffer"
      <4>1. Head(inbox).peer \in Peers
        BY <2>2, <3>2 DEF Incoming
      <4>2. GetOrCreatePeer(Head(inbox).peer)
        BY <1>1, <3>2 DEF ReaderTakes
      <4> QED BY <4>1, <4>2, ManagerTypes DEF Inv
    <3>3. CASE Head(inbox).type = "NewPeer"
      <4>1. Head(inbox).peer \in Peers
        BY <2>2, <3>3 DEF Incoming
      <4>2. known' = Known(Head(inbox).peer) /\ peers' = peers
        BY <1>1, <3>3 DEF ReaderTakes
      <4> QED BY <4>1, <4>2, KnownListed DEF Inv, Types
    <3> QED BY <3>1, <3>2, <3>3
  <2>4. ws # "none"
    BY <1>1 DEF ReaderTakes, Inv, Before
  <2> QED BY <2>1, <2>2, <2>3, <2>4, ChannelAlone
<1>2. CASE ReaderAnswers
  <2>1. /\ UNCHANGED <<ws, writer, inbox, manager, written>> /\ ws # "none"
        /\ peers' \subseteq Peers /\ known' \in Seq(Peers) /\ inbox' \in Seq(Incoming)
    BY <1>2 DEF ReaderAnswers, Inv, Types, Before, manager
  <2>2. CASE UNCHANGED channel
    BY <2>1, <2>2, ChannelAlone
  <2>3. CASE Send("reader")
    <3>1. /\ queue' \in Seq(Request) /\ parked' \in Seq(Senders)
          /\ sends' \in [Senders -> 0..MaxSends] /\ sent' \in Seq(Request)
          /\ Before' /\ WrittenPart' /\ WaitingPart'
      BY <2>1, <2>3, SendKeeps DEF Senders
    <3> QED BY <2>1, <3>1 DEF Inv, Types
  <2> QED BY <1>2, <2>2, <2>3 DEF ReaderAnswers
<1>3. CASE ReaderEnds
  <2>1. ws # "none" /\ UNCHANGED <<ws, channel, writer, inbox, manager, written>>
    BY <1>3 DEF ReaderEnds
  <2> QED BY <2>1, ChannelAlone DEF Inv, Types, manager
<1> QED BY <1>1, <1>2, <1>3 DEF Reader

LEMMA InvNext == Inv /\ [Next]_vars => Inv'
<1> SUFFICES ASSUME Inv, [Next]_vars PROVE Inv'
  OBVIOUS
<1>1. CASE Connect
  BY <1>1, ConnectKeeps
<1>2. CASE Opens \/ Fails
  BY <1>2, ChannelAlone DEF Opens, Fails, Inv, Types, manager
<1>3. ASSUME NEW s \in Callers, NEW p \in Peers, CallerSends(s, p) PROVE Inv'
  BY <1>3, CallerKeeps
<1>4. CASE Writer
  BY <1>4, TakesKeeps, WritesKeeps, EndsKeeps DEF Writer
<1>5. CASE Reader
  BY <1>5, ReaderKeeps
<1>6. ASSUME NEW m \in Incoming, ServerSends(m) PROVE Inv'
  <2>1. UNCHANGED <<ws, channel, writer, reader, manager, written>> /\ inbox' = Append(inbox, m)
    BY <1>6 DEF ServerSends
  <2>2. inbox' \in Seq(Incoming)
    BY <2>1, AppendProperties DEF Inv, Types
  <2> QED BY <2>1, <2>2, ChannelAlone DEF Inv, Types, manager
<1>7. CASE UNCHANGED vars
  <2>1. UNCHANGED <<ws, channel, writer, reader, inbox, manager, written>>
    BY <1>7 DEF vars
  <2> QED BY <2>1, ChannelAlone DEF Inv, Types, manager
<1> QED BY <1>1, <1>2, <1>3, <1>4, <1>5, <1>6, <1>7 DEF Next

LEMMA InvAlways == Spec => []Inv
BY InvInit, InvNext, PTL DEF Spec

-----------------------------------------------------------------------------
(* The rest of the types: the count of handled messages stays within its   *)
(* bound because it counts those that have been received.                  *)
Counted ==
    /\ ws \in {"none", "connecting", "open", "failed"}
    /\ reader \in {"idle", "answer", "ended"}
    /\ handled \in Nat /\ Received <= MaxRead

LEMMA CountedNext == Inv /\ Counted /\ [Next]_vars => Counted'
<1> SUFFICES ASSUME Inv, Counted, [Next]_vars PROVE Counted'
  OBVIOUS
<1>1. inbox \in Seq(Incoming) /\ Len(inbox) \in Nat /\ handled \in Nat /\ MaxRead \in Nat
  BY LenProperties DEF Inv, Types, Counted
<1>2. CASE Connect
  BY <1>1, <1>2 DEF Connect, SpawnLoops, Inv, Before, Counted, Received
<1>3. CASE Opens \/ Fails \/ Writer \/ UNCHANGED vars
  BY <1>1, <1>3 DEF Opens, Fails, Writer, WriterTakes, WriterWrites, WriterEnds, vars,
                    Counted, Received
<1>4. ASSUME NEW s \in Callers, NEW p \in Peers, CallerSends(s, p) PROVE Counted'
  BY <1>1, <1>4 DEF CallerSends, Counted, Received
<1>5. CASE ReaderTakes
  <2>1. Len(inbox') = Len(inbox) - 1 /\ reader = "idle" /\ Len(inbox) \in Nat \ {0}
    BY <1>1, <1>5, HeadTailProperties, EmptySeq DEF ReaderTakes
  <2>2. \/ reader' = "answer" /\ handled' = handled
        \/ reader' = "idle" /\ handled' = handled + 1
    BY <1>5 DEF ReaderTakes
  <2> QED BY <1>1, <1>5, <2>1, <2>2 DEF ReaderTakes, Counted, Received
<1>6. CASE ReaderAnswers \/ ReaderEnds
  BY <1>1, <1>6 DEF ReaderAnswers, ReaderEnds, Counted, Received
<1>7. ASSUME NEW m \in Incoming, ServerSends(m) PROVE Counted'
  <2>1. Len(inbox') = Len(inbox) + 1
    BY <1>1, <1>7, AppendProperties DEF ServerSends
  <2> QED BY <1>1, <1>7, <2>1 DEF ServerSends, Counted, Received
<1> QED BY <1>2, <1>3, <1>4, <1>5, <1>6, <1>7 DEF Next, Reader

(* Types, with the bounds on the requests and on the messages handled.     *)
THEOREM SocketTypeCorrect == Spec => []TypeOK
<1>1. Init => Counted
  BY DEF Init, Counted, Received
<1>2. Inv /\ Counted => TypeOK
  <2> SUFFICES ASSUME Inv, Counted PROVE TypeOK
    OBVIOUS
  <2>1. Len(inbox) \in Nat
    BY LenProperties DEF Inv, Types
  <2>2. handled \in 0..MaxRead
    BY <2>1 DEF Counted, Received
  <2> QED BY <2>2 DEF Inv, Types, Counted, TypeOK
<1> QED BY <1>1, <1>2, InvAlways, CountedNext, PTL DEF Spec

-----------------------------------------------------------------------------
(* The three parts, request by request, are what WrittenInOrder says of the*)
(* sequences.                                                              *)
LEMMA InvIsOrder == Inv => WrittenInOrder
<1> SUFFICES ASSUME Inv PROVE WrittenInOrder
  OBVIOUS
<1>1. /\ queue \in Seq(Request) /\ sent \in Seq(Request) /\ written \in Seq(Request)
      /\ Len(sent) \in Nat /\ Len(written) \in Nat /\ Len(queue) \in Nat
  BY LenProperties DEF Inv, Types
<1>2. Len(written) <= Len(sent) /\ \A i \in 1..Len(written) : written[i] = sent[i]
  BY DEF Inv, WrittenPart
<1>3. written = SubSeq(sent, 1, Len(written))
  <2> DEFINE t == SubSeq(sent, 1, Len(written))
  <2>1. \A i \in 1..Len(written) : sent[i] \in Request
    BY <1>1, <1>2, ElementOfSeq
  <2>2. /\ t \in Seq(Request) /\ Len(t) = Len(written)
        /\ \A i \in 1..Len(written) : t[i] = sent[i]
    BY <1>1, <2>1, SubSeqProperties
  <2> QED BY <1>1, <1>2, <2>2, SeqEqual
<1>4. ASSUME writer # Ended PROVE sent = written \o InHand \o queue
  <2>1. /\ InHand \in Seq(Request) /\ Len(InHand) = Hands /\ Hands \in Nat
        /\ \A i \in 1..Hands : InHand[i] = sent[Len(written) + i]
    <3>1. CASE writer.step = "write"
      <4>1. writer.msg \in Request
        BY <3>1, WriterSteps DEF Inv, Types
      <4>2. sent[Len(written) + 1] = writer.msg
        BY <1>4, <3>1 DEF Inv, WaitingPart
      <4> QED BY <3>1, <4>1, <4>2 DEF InHand, Hands
    <3>2. CASE writer.step # "write"
      BY <3>2 DEF InHand, Hands
    <3> QED BY <3>1, <3>2
  <2> DEFINE u == written \o InHand
  <2>2. /\ u \in Seq(Request) /\ Len(u) = Len(written) + Hands
        /\ \A i \in 1..(Len(written) + Hands) :
               u[i] = IF i <= Len(written) THEN written[i] ELSE InHand[i - Len(written)]
    BY <1>1, <2>1, ConcatProperties
  <2>3. \A i \in 1..Len(u) : u[i] = sent[i]
    BY <1>1, <1>2, <2>1, <2>2
  <2> HIDE DEF u
  <2>4. /\ u \o queue \in Seq(Request) /\ Len(u \o queue) = Len(u) + Len(queue)
        /\ \A i \in 1..(Len(u) + Len(queue)) :
               (u \o queue)[i] = IF i <= Len(u) THEN u[i] ELSE queue[i - Len(u)]
    BY <1>1, <2>2, ConcatProperties
  <2>5. /\ Len(sent) = Len(u) + Len(queue)
        /\ \A i \in 1..Len(queue) : queue[i] = sent[Len(u) + i]
    BY <1>4, <2>2 DEF Inv, WaitingPart
  <2>6. \A i \in 1..Len(sent) : (u \o queue)[i] = sent[i]
    <3> SUFFICES ASSUME NEW i \in 1..Len(sent) PROVE (u \o queue)[i] = sent[i]
      OBVIOUS
    <3>1. Len(u) \in Nat /\ i \in Nat /\ i \in 1..(Len(u) + Len(queue))
      BY <1>1, <2>1, <2>2, <2>5
    <3>2. CASE i <= Len(u)
      <4>1. i \in 1..Len(u)
        BY <3>1, <3>2
      <4> QED BY <2>3, <2>4, <3>1, <3>2, <4>1
    <3>3. CASE ~(i <= Len(u))
      <4>1. i - Len(u) \in 1..Len(queue) /\ Len(u) + (i - Len(u)) = i
        BY <1>1, <3>1, <3>3
      <4>2. (u \o queue)[i] = queue[i - Len(u)]
        BY <2>4, <3>1, <3>3
      <4> QED BY <2>5, <4>1, <4>2
    <3> QED BY <3>2, <3>3
  <2>7. sent = u \o queue
    BY <1>1, <2>4, <2>5, <2>6, SeqEqual
  <2> QED BY <2>7 DEF u
<1> QED BY <1>2, <1>3, <1>4 DEF WrittenInOrder

(* Requests reach the server in the order in which connect_to_peer, the    *)
(* gathered candidates and the reader sent them, whoever had to wait for   *)
(* the channel and whenever the WebSocket opened or failed.                *)
THEOREM OrderOfRequests == Spec => []WrittenInOrder
BY InvAlways, InvIsOrder, PTL

-----------------------------------------------------------------------------
(* A send leaves the queue within the buffer, or one more task waits; the  *)
(* writer takes one request and lets one task go.                          *)
LEMMA BoundedInit == Init => QueueBounded
BY DEF Init, QueueBounded

LEMMA BoundedSend ==
    ASSUME Inv, QueueBounded, NEW s \in Senders, Send(s)
    PROVE  QueueBounded'
<1>1. /\ queue \in Seq(Request) /\ parked \in Seq(Senders) /\ Len(queue) \in Nat
      /\ Len(parked) \in Nat /\ Buffer \in Nat
  BY LenProperties DEF Inv, Types
<1>2. CASE UNCHANGED <<queue, parked, sent>>
  BY <1>2 DEF QueueBounded
<1>3. ASSUME NEW m \in Request, queue' = Append(queue, m), parked' = Parked(s, queue')
      PROVE  QueueBounded'
  <2>1. Len(queue') = Len(queue) + 1
    BY <1>1, <1>3, AppendProperties
  <2>2. CASE Len(queue') > Buffer
    <3>1. Len(parked') = Len(parked) + 1
      BY <1>1, <1>3, <2>2, AppendProperties DEF Parked
    <3> QED BY <1>1, <2>1, <3>1 DEF QueueBounded
  <2>3. CASE ~(Len(queue') > Buffer)
    BY <1>1, <1>3, <2>1, <2>3 DEF Parked, QueueBounded
  <2> QED BY <2>2, <2>3
<1> QED BY <1>2, <1>3, SendEffect DEF Inv

LEMMA BoundedWriter == ASSUME Inv, QueueBounded, Writer PROVE QueueBounded'
<1>1. /\ queue \in Seq(Request) /\ parked \in Seq(Senders) /\ Len(queue) \in Nat
      /\ Len(parked) \in Nat /\ Buffer \in Nat
  BY LenProperties DEF Inv, Types
<1>2. CASE WriterTakes
  <2>1. Len(queue') = Len(queue) - 1
    BY <1>1, <1>2, HeadTailProperties DEF WriterTakes
  <2>2. CASE parked = <<>>
    BY <1>1, <1>2, <2>1, <2>2 DEF WriterTakes, QueueBounded
  <2>3. CASE parked # <<>>
    <3>1. Len(parked') = Len(parked) - 1
      BY <1>1, <1>2, <2>3, HeadTailProperties DEF WriterTakes
    <3> QED BY <1>1, <2>1, <3>1 DEF QueueBounded
  <2> QED BY <2>2, <2>3
<1>3. CASE WriterWrites
  BY <1>3 DEF WriterWrites, channel, QueueBounded
<1>4. CASE WriterEnds
  <2>1. queue' = <<>> /\ parked' = <<>>
    BY <1>4 DEF WriterEnds
  <2> QED BY <1>1, <2>1 DEF QueueBounded
<1> QED BY <1>2, <1>3, <1>4 DEF Writer

LEMMA BoundedNext == Inv /\ QueueBounded /\ [Next]_vars => QueueBounded'
<1> SUFFICES ASSUME Inv, QueueBounded, [Next]_vars PROVE QueueBounded'
  OBVIOUS
<1>1. CASE UNCHANGED channel
  BY <1>1 DEF channel, QueueBounded
<1>2. CASE Connect \/ Opens \/ Fails \/ (\E m \in Incoming : ServerSends(m)) \/ UNCHANGED vars
  <2>1. UNCHANGED channel
    BY <1>2 DEF Connect, Opens, Fails, ServerSends, vars
  <2> QED BY <1>1, <2>1
<1>3. ASSUME NEW s \in Callers, NEW p \in Peers, CallerSends(s, p) PROVE QueueBounded'
  BY <1>3, BoundedSend DEF CallerSends, Senders
<1>4. CASE Writer
  BY <1>4, BoundedWriter
<1>5. CASE Reader
  <2>1. "reader" \in Senders
    BY DEF Senders
  <2>2. UNCHANGED channel \/ Send("reader")
    BY <1>5 DEF Reader, ReaderTakes, ReaderAnswers, ReaderEnds
  <2> QED BY <1>1, <2>1, <2>2, BoundedSend
<1> QED BY <1>2, <1>3, <1>4, <1>5 DEF Next

(* The channel never holds more than its buffer and one request for every  *)
(* task that waits, though every send uses a new clone of the Sender.      *)
THEOREM QueueStaysBounded == Spec => []QueueBounded
BY InvAlways, BoundedInit, BoundedNext, PTL DEF Spec

-----------------------------------------------------------------------------
LEMMA ListedByKnown ==
    ASSUME Inv, ListedOnce, NEW p \in Peers, known' = Known(p), peers' \subseteq peers \cup {p}
    PROVE  ListedOnce'
<1>1. known \in Seq(Peers)
  BY DEF Inv, Types
<1>2. \A q \in peers' : \E i \in DOMAIN Known(p) : Known(p)[i] = q
  <2>1. \E i \in DOMAIN Known(p) : Known(p)[i] = p
    BY <1>1, KnownListed
  <2>2. ASSUME NEW q \in peers PROVE \E i \in DOMAIN Known(p) : Known(p)[i] = q
    <3>1. \E i \in DOMAIN known : known[i] = q
      BY DEF ListedOnce, ListPeers
    <3> QED BY <1>1, <3>1, KnownListed
  <2> QED BY <2>1, <2>2
<1>3. \A i, j \in DOMAIN Known(p) : Known(p)[i] = Known(p)[j] => i = j
  <2>1. \A i, j \in DOMAIN known : known[i] = known[j] => i = j
    BY DEF ListedOnce, ListPeers
  <2> QED BY <1>1, <2>1, KnownListed
<1> QED BY <1>2, <1>3 DEF ListedOnce, ListPeers

LEMMA ListedByPeer ==
    ASSUME Inv, ListedOnce, NEW p \in Peers, GetOrCreatePeer(p)
    PROVE  ListedOnce'
<1>1. CASE p \in peers
  BY <1>1 DEF GetOrCreatePeer, manager, ListedOnce, ListPeers
<1>2. CASE p \notin peers
  <2>1. peers' = peers \cup {p} /\ known' = Known(p)
    BY <1>2 DEF GetOrCreatePeer
  <2> QED BY <2>1, ListedByKnown
<1> QED BY <1>1, <1>2

LEMMA ListedNext == Inv /\ ListedOnce /\ [Next]_vars => ListedOnce'
<1> SUFFICES ASSUME Inv, ListedOnce, [Next]_vars PROVE ListedOnce'
  OBVIOUS
<1>1. CASE UNCHANGED manager
  BY <1>1 DEF manager, ListedOnce, ListPeers
<1>2. ASSUME NEW s \in Callers, NEW p \in Peers, CallerSends(s, p) PROVE ListedOnce'
  BY <1>2, ListedByPeer DEF CallerSends
<1>3. CASE ReaderTakes
  <2>1. Head(inbox) \in Incoming
    BY <1>3, HeadTailProperties DEF Inv, Types, ReaderTakes
  <2>2. CASE Head(inbox).type = "WebRtcOffer"
    <3>1. Head(inbox).peer \in Peers /\ GetOrCreatePeer(Head(inbox).peer)
      BY <1>3, <2>1, <2>2 DEF Incoming, ReaderTakes
    <3> QED BY <3>1, ListedByPeer
  <2>3. CASE Head(inbox).type = "NewPeer"
    <3>1. Head(inbox).peer \in Peers /\ known' = Known(Head(inbox).peer) /\ peers' = peers
      BY <1>3, <2>1, <2>3 DEF Incoming, ReaderTakes
    <3>2. peers' \subseteq peers \cup {Head(inbox).peer}
      BY <3>1
    <3> QED BY <3>1, <3>2, ListedByKnown
  <2>4. CASE Head(inbox).type \notin {"WebRtcOffer", "NewPeer"}
    BY <1>1, <1>3, <2>4 DEF ReaderTakes
  <2> QED BY <2>2, <2>3, <2>4
<1>4. CASE Writer
  BY <1>1, <1>4 DEF Writer, WriterTakes, WriterWrites, WriterEnds
<1>5. CASE ReaderAnswers \/ ReaderEnds
  BY <1>1, <1>5 DEF ReaderAnswers, ReaderEnds
<1>6. CASE Connect \/ Opens \/ Fails \/ (\E m \in Incoming : ServerSends(m)) \/ UNCHANGED vars
  BY <1>1, <1>6 DEF Connect, Opens, Fails, ServerSends, vars
<1> QED BY <1>2, <1>3, <1>4, <1>5, <1>6 DEF Next, Reader

(* Every peer with a connection is on the page's list, and none is twice,  *)
(* in whatever order calls, offers and announcements come.                 *)
THEOREM PeersListedOnce == Spec => []ListedOnce
<1>1. Init => ListedOnce
  BY DEF Init, ListedOnce, ListPeers
<1> QED BY <1>1, InvAlways, ListedNext, PTL DEF Spec
=============================================================================
