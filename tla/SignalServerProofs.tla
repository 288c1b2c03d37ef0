------------------------- MODULE SignalServerProofs -------------------------
(***************************************************************************)
(* Proofs about SignalServer, for every set of connections, every set of   *)
(* identifiers and every assignment of the one to the other.               *)
(***************************************************************************)
EXTENDS SignalServer, FiniteSetTheorems, TLAPS

USE ConnsAssumption, NoneAssumption, CapAssumption, BoundsAssumption

(* The initial state has the types.                                        *)
LEMMA InitType == Init => TypeOK
BY DEF Init, TypeOK, Label, Message

(* A request handed to send_to_peer is one task more for somebody, or none. *)
LEMMA SendToPeerType ==
    ASSUME TypeOK, NEW p \in Peers, NEW m \in Message, SendToPeer(p, m)
    PROVE  tasks' \in [Conns -> SUBSET Message]
BY DEF TypeOK, SendToPeer

(* The request a broadcast sends is a message.                           *)
LEMMA BroadcastMsgType ==
    ASSUME TypeOK, NEW c \in Conns, NEW p \in Peers
    PROVE  BroadcastMsg(c, p) \in Message
BY DEF TypeOK, BroadcastMsg, Message

(* Reading a frame stays within the bound on frames.                     *)
LEMMA FrameType ==
    ASSUME TypeOK, NEW c \in Conns, Frame(c)
    PROVE  received' \in [Conns -> 0..MaxFrames]
<1>1. received[c] \in 0..MaxFrames /\ received[c] < MaxFrames
  BY DEF TypeOK, Frame
<1>2. received[c] + 1 \in 0..MaxFrames
  BY <1>1
<1> QED
  BY <1>2 DEF TypeOK, Frame

(* Every step keeps the types and the bound on the channel.                *)
LEMMA TypeStep == TypeOK /\ [Next]_vars => TypeOK'
<1> SUFFICES ASSUME TypeOK, [Next]_vars PROVE TypeOK'
  OBVIOUS
<1> USE DEF vars, reg, cast, mail, Goto, Label
<1>1. CASE UNCHANGED vars
  BY <1>1 DEF TypeOK
<1>2. ASSUME NEW c \in Conns, Join(c) PROVE TypeOK'
  <2>1. CASE Insert(c)
    BY <2>1 DEF TypeOK, Insert
  <2>2. CASE Announce(c)
    BY <2>2 DEF TypeOK, Announce, StartBroadcast
  <2>3. CASE AnnounceFails(c)
    BY <2>3 DEF TypeOK, AnnounceFails
  <2> QED
    BY <1>2, <2>1, <2>2, <2>3 DEF Join
<1>3. ASSUME NEW c \in Conns, Scan(c) PROVE TypeOK'
  BY <1>3 DEF TypeOK, Scan
<1>4. ASSUME NEW c \in Conns, SendForward(c) PROVE TypeOK'
  <2>1. PICK p \in ids[c] : /\ SendToPeer(p, BroadcastMsg(c, p))
                            /\ ids' = [ids EXCEPT ![c] = @ \ {p}]
    BY <1>4 DEF SendForward
  <2>2. p \in Peers
    BY <2>1 DEF TypeOK
  <2>3. tasks' \in [Conns -> SUBSET Message]
    BY <2>1, <2>2, BroadcastMsgType, SendToPeerType
  <2> QED
    BY <1>4, <2>1, <2>3 DEF TypeOK, SendForward
<1>5. ASSUME NEW c \in Conns, EndBroadcast(c) PROVE TypeOK'
  BY <1>5 DEF TypeOK, EndBroadcast
<1>6. ASSUME NEW c \in Conns, Write(c) PROVE TypeOK'
  <2>1. CASE Recv(c)
    <3>1. queue[c] \in Seq(Message) /\ queue[c] # <<>> /\ Len(queue[c]) <= Cap
      BY <2>1 DEF Recv, TypeOK
    <3>2. /\ Head(queue[c]) \in Message
          /\ Tail(queue[c]) \in Seq(Message)
          /\ Len(Tail(queue[c])) <= Cap
      BY <3>1
    <3> QED
      BY <2>1, <3>2 DEF TypeOK, Recv
  <2>2. CASE WriteOk(c)
    BY <2>2 DEF TypeOK, WriteOk
  <2>3. CASE WriteFails(c)
    BY <2>3 DEF TypeOK, WriteFails
  <2> QED
    BY <1>6, <2>1, <2>2, <2>3 DEF Write
<1>7. ASSUME NEW c \in Conns, Leave(c) PROVE TypeOK'
  <2>1. CASE Remove(c)
    BY <2>1 DEF TypeOK, Remove
  <2>2. CASE Uncount(c)
    BY <2>2 DEF TypeOK, Uncount
  <2>3. CASE DropReceiver(c)
    BY <2>3 DEF TypeOK, DropReceiver
  <2> QED
    BY <1>7, <2>1, <2>2, <2>3 DEF Leave
<1>8. ASSUME NEW c \in Conns, SendTask(c) PROVE TypeOK'
  <2>1. PICK m \in tasks[c] : Enqueue(c, m) \/ SendFails(c, m)
    BY <1>8 DEF SendTask
  <2>2. CASE Enqueue(c, m)
    <3>1. queue[c] \in Seq(Message) /\ m \in Message /\ Len(queue[c]) < Cap
      BY <2>1, <2>2 DEF Enqueue, TypeOK
    <3>2. Append(queue[c], m) \in Seq(Message) /\ Len(Append(queue[c], m)) <= Cap
      BY <3>1
    <3> QED
      BY <2>2, <3>2 DEF TypeOK, Enqueue
  <2>3. CASE SendFails(c, m)
    BY <2>3 DEF TypeOK, SendFails
  <2> QED
    BY <2>1, <2>2, <2>3
<1>9. ASSUME NEW c \in Conns, ReadForwardSingle(c) PROVE TypeOK'
  <2>1. PICK from \in Peers, to \in Peers :
          SendToPeer(to, [by |-> c, seq |-> received[c] + 1, from |-> from, to |-> to])
    BY <1>9 DEF ReadForwardSingle
  <2>2. [by |-> c, seq |-> received[c] + 1, from |-> from, to |-> to] \in Message
    BY <1>9 DEF ReadForwardSingle, Frame, TypeOK, Message
  <2>3. tasks' \in [Conns -> SUBSET Message]
    BY <2>1, <2>2, SendToPeerType
  <2>4. received' \in [Conns -> 0..MaxFrames]
    BY <1>9, FrameType DEF ReadForwardSingle
  <2> QED
    BY <1>9, <2>3, <2>4 DEF TypeOK, ReadForwardSingle
<1>10. ASSUME NEW c \in Conns, Reject(c) \/ Accept(c) \/ Stall(c) \/ Vanish(c) PROVE TypeOK'
  BY <1>10 DEF TypeOK, Reject, Accept, Stall, Vanish
<1>11. ASSUME NEW c \in Conns, ReadOther(c) \/ ReadClose(c) \/ ReadError(c) PROVE TypeOK'
  <2>1. CASE ReadOther(c) \/ ReadClose(c)
    <3>1. received' \in [Conns -> 0..MaxFrames]
      BY <2>1, FrameType DEF ReadOther, ReadClose
    <3> QED
      BY <2>1, <3>1 DEF TypeOK, ReadOther, ReadClose
  <2>2. CASE ReadError(c)
    BY <2>2 DEF TypeOK, ReadError
  <2> QED
    BY <1>11, <2>1, <2>2
<1>12. ASSUME NEW c \in Conns, ReadForwardAll(c) PROVE TypeOK'
  <2>1. received' \in [Conns -> 0..MaxFrames]
    BY <1>12, FrameType DEF ReadForwardAll
  <2> QED
    BY <1>12, <2>1 DEF TypeOK, ReadForwardAll, StartBroadcast
<1> QED
  BY <1>1, <1>2, <1>3, <1>4, <1>5, <1>6, <1>7, <1>8, <1>9, <1>10, <1>11, <1>12
     DEF Next, Run, Cast, Client, Read

(* The channel of a connection never holds more than its capacity, and     *)
(* every variable keeps to its type, in every behaviour of the server.     *)
THEOREM TypeCorrect == Spec => []TypeOK
BY InitType, TypeStep, PTL DEF Spec

-----------------------------------------------------------------------------
(* A step that is none of Insert, Remove leaves the registry alone and     *)
(* moves no connection into or out of the part of its life in which it can *)
(* be registered.                                                          *)
LEMMA RegistryFrame ==
    ASSUME TypeOK, [Next]_vars, \A c \in Conns : ~Insert(c) /\ ~Remove(c)
    PROVE  /\ UNCHANGED <<peers, overwrote>>
           /\ \A d \in Conns : pc'[d] \in Enlisted <=> pc[d] \in Enlisted
<1> USE DEF vars, reg, cast, mail, Goto, Enlisted, Serving, TypeOK
<1>1. CASE UNCHANGED vars
  BY <1>1
<1>2. ASSUME NEW c \in Conns, Announce(c) \/ AnnounceFails(c)
      PROVE  /\ UNCHANGED <<peers, overwrote>>
             /\ \A d \in Conns : pc'[d] \in Enlisted <=> pc[d] \in Enlisted
  BY <1>2 DEF Announce, AnnounceFails
<1>3. ASSUME NEW c \in Conns, Cast(c) \/ Write(c) \/ SendTask(c)
      PROVE  /\ UNCHANGED <<peers, overwrote>>
             /\ \A d \in Conns : pc'[d] \in Enlisted <=> pc[d] \in Enlisted
  BY <1>3 DEF Cast, Scan, SendForward, EndBroadcast, Write, Recv, WriteOk, WriteFails,
              SendTask, Enqueue, SendFails
<1>4. ASSUME NEW c \in Conns, Uncount(c) \/ DropReceiver(c)
      PROVE  /\ UNCHANGED <<peers, overwrote>>
             /\ \A d \in Conns : pc'[d] \in Enlisted <=> pc[d] \in Enlisted
  BY <1>4 DEF Uncount, DropReceiver
<1>5. ASSUME NEW c \in Conns, Client(c)
      PROVE  /\ UNCHANGED <<peers, overwrote>>
             /\ \A d \in Conns : pc'[d] \in Enlisted <=> pc[d] \in Enlisted
  BY <1>5 DEF Client, Reject, Accept, Read, ReadOther, ReadForwardSingle, ReadForwardAll,
              ReadClose, ReadError, Stall, Vanish, Frame
<1> QED
  BY <1>1, <1>2, <1>3, <1>4, <1>5 DEF Next, Run, Join, Leave

(* The registry invariant is inductive as it stands.                       *)
RegistryInv == NoStaleHandler /\ ServedIsFound

(* The registry starts empty.                                            *)
LEMMA RegistryInit == Init => RegistryInv
BY DEF Init, RegistryInv, NoStaleHandler, ServedIsFound, Enlisted, Serving

(* Every step keeps the registry invariant.                              *)
LEMMA RegistryStep == TypeOK /\ RegistryInv /\ [Next]_vars => RegistryInv'
<1> SUFFICES ASSUME TypeOK, RegistryInv, [Next]_vars PROVE RegistryInv'
  OBVIOUS
<1> USE DEF RegistryInv, NoStaleHandler, ServedIsFound, Registered
<1>1. ASSUME NEW c \in Conns, Insert(c) PROVE RegistryInv'
  <2>1. /\ peers' = [peers EXCEPT ![IdOf[c]] = c]
        /\ pc' = [pc EXCEPT ![c] = "count"]
        /\ IdOf[c] \in Peers /\ c # None
    BY <1>1 DEF Insert, Goto
  <2>2. NoStaleHandler'
    BY <2>1 DEF TypeOK, Enlisted, Serving
  <2>3. CASE peers[IdOf[c]] = None
    <3>1. overwrote' = overwrote
      BY <1>1, <2>3 DEF Insert
    <3> QED
      BY <2>1, <2>2, <2>3, <3>1 DEF TypeOK
  <2>4. CASE peers[IdOf[c]] # None
    <3>1. overwrote' = overwrote \cup {c}
      BY <1>1, <2>4 DEF Insert
    <3> QED
      BY <2>1, <2>2, <3>1 DEF TypeOK
  <2> QED
    BY <2>3, <2>4
<1>2. ASSUME NEW c \in Conns, Remove(c) PROVE RegistryInv'
  <2>1. /\ peers' = [peers EXCEPT ![IdOf[c]] = None]
        /\ pc[c] = "remove" /\ pc'[c] \in {"drop", "uncount"}
        /\ \A d \in Conns : d # c => pc'[d] = pc[d]
        /\ overwrote' = overwrote
        /\ IdOf[c] \in Peers /\ pc[c] \in Enlisted /\ pc'[c] \notin Enlisted
    BY <1>2 DEF Remove, Goto, TypeOK, Enlisted, Serving
  <2>2. NoStaleHandler'
    <3> SUFFICES ASSUME NEW p \in Peers, peers'[p] # None
                 PROVE  IdOf[peers'[p]] = p /\ pc'[peers'[p]] \in Enlisted
      OBVIOUS
    <3>1. p # IdOf[c] /\ peers'[p] = peers[p]
      BY <2>1 DEF TypeOK
    <3>2. peers[p] \in Conns /\ peers[p] # c
      BY <3>1 DEF TypeOK
    <3> QED
      BY <2>1, <3>1, <3>2
  <2>3. ServedIsFound'
    <3> SUFFICES ASSUME NEW d \in Conns, pc'[d] \in Enlisted,
                        \A e \in overwrote' : IdOf[e] # IdOf[d]
                 PROVE  peers'[IdOf[d]] = d
      OBVIOUS
    <3>1. d # c /\ peers[IdOf[d]] = d
      BY <2>1
    <3>2. CASE IdOf[d] = IdOf[c]
      BY <2>1, <3>1, <3>2
    <3>3. CASE IdOf[d] # IdOf[c]
      BY <2>1, <3>1, <3>3 DEF TypeOK
    <3> QED
      BY <3>2, <3>3
  <2> QED
    BY <2>2, <2>3
<1>3. CASE \A c \in Conns : ~Insert(c) /\ ~Remove(c)
  BY <1>3, RegistryFrame DEF TypeOK
<1> QED
  BY <1>1, <1>2, <1>3

(* A lookup never finds a connection that has left, or one of another      *)
(* identifier (add_peer, remove_peer), however connections of the same     *)
(* identifier interleave.                                                  *)
THEOREM HandlersAreLive == Spec => []NoStaleHandler
<1>1. Spec => [](TypeOK /\ RegistryInv)
  BY InitType, TypeStep, RegistryInit, RegistryStep, PTL DEF Spec
<1>2. RegistryInv => NoStaleHandler
  BY DEF RegistryInv
<1> QED
  BY <1>1, <1>2, PTL

(* A served connection can be found, unless an insert for its identifier   *)
(* lost the race between contains_key and insert (add_peer).               *)
THEOREM ServedConnectionsAreFound == Spec => []ServedIsFound
<1>1. Spec => [](TypeOK /\ RegistryInv)
  BY InitType, TypeStep, RegistryInit, RegistryStep, PTL DEF Spec
<1>2. RegistryInv => ServedIsFound
  BY DEF RegistryInv
<1> QED
  BY <1>1, <1>2, PTL

-----------------------------------------------------------------------------
(* The elements of a channel after the operations on it.                   *)
LEMMA ElemsAppend ==
    ASSUME NEW S, NEW s \in Seq(S), NEW m \in S
    PROVE  Elems(Append(s, m)) = Elems(s) \cup {m}
<1> DEFINE t == Append(s, m)
<1>1. /\ DOMAIN s = 1..Len(s) /\ DOMAIN t = 1..(Len(s) + 1)
      /\ \A i \in 1..Len(s) : t[i] = s[i]
      /\ t[Len(s) + 1] = m
  OBVIOUS
<1>2. ASSUME NEW x \in Elems(t) PROVE x \in Elems(s) \cup {m}
  BY <1>1, <1>2 DEF Elems
<1>3. ASSUME NEW x \in Elems(s) \cup {m} PROVE x \in Elems(t)
  BY <1>1, <1>3 DEF Elems
<1> QED
  BY <1>2, <1>3

(* Taking the head off a channel leaves the other elements.              *)
LEMMA ElemsTail ==
    ASSUME NEW S, NEW s \in Seq(S), s # <<>>
    PROVE  Elems(s) = Elems(Tail(s)) \cup {Head(s)}
<1>1. /\ DOMAIN s = 1..Len(s) /\ DOMAIN Tail(s) = 1..(Len(s) - 1)
      /\ Len(s) \in Nat \ {0} /\ Head(s) = s[1]
      /\ \A i \in 1..(Len(s) - 1) : Tail(s)[i] = s[i + 1]
  OBVIOUS
<1>2. ASSUME NEW x \in Elems(s) PROVE x \in Elems(Tail(s)) \cup {Head(s)}
  <2>1. PICK i \in 1..Len(s) : x = s[i]
    BY <1>1, <1>2 DEF Elems
  <2>2. CASE i = 1
    BY <1>1, <2>1, <2>2
  <2>3. CASE i # 1
    <3>1. i - 1 \in 1..(Len(s) - 1) /\ Tail(s)[i - 1] = s[i]
      BY <1>1, <2>3
    <3> QED
      BY <1>1, <2>1, <3>1 DEF Elems
  <2> QED
    BY <2>2, <2>3
<1>3. ASSUME NEW x \in Elems(Tail(s)) \cup {Head(s)} PROVE x \in Elems(s)
  <2>1. CASE x = Head(s)
    BY <1>1, <2>1 DEF Elems
  <2>2. CASE x \in Elems(Tail(s))
    <3>1. PICK i \in 1..(Len(s) - 1) : x = Tail(s)[i]
      BY <1>1, <2>2 DEF Elems
    <3>2. i + 1 \in 1..Len(s) /\ x = s[i + 1]
      BY <1>1, <3>1
    <3> QED
      BY <1>1, <3>2 DEF Elems
  <2> QED
    BY <1>3, <2>1, <2>2
<1> QED
  BY <1>2, <1>3

(* Only a connection that is writing has a request in hand.                *)
HandInv == \A c \in Conns : hand[c] # {} => pc[c] = "write"

(* Nothing is in hand at first.                                          *)
LEMMA HandInit == Init => HandInv
BY DEF Init, HandInv

(* A request is taken in hand on the way to the write and given up after it. *)
LEMMA HandStep == TypeOK /\ HandInv /\ [Next]_vars => HandInv'
<1> SUFFICES ASSUME TypeOK, HandInv, [Next]_vars PROVE HandInv'
  OBVIOUS
<1> USE DEF HandInv, vars, reg, cast, mail, Goto, TypeOK
<1>1. CASE UNCHANGED vars
  BY <1>1
<1>2. ASSUME NEW c \in Conns, Join(c) \/ Cast(c) \/ SendTask(c) PROVE HandInv'
  BY <1>2 DEF Join, Insert, Announce, AnnounceFails, Cast, Scan, SendForward, EndBroadcast,
              SendTask, Enqueue, SendFails
<1>3. ASSUME NEW c \in Conns, Write(c) PROVE HandInv'
  <2>1. CASE Recv(c)
    BY <2>1 DEF Recv
  <2>2. CASE WriteOk(c)
    BY <2>2 DEF WriteOk
  <2>3. CASE WriteFails(c)
    BY <2>3 DEF WriteFails
  <2> QED BY <1>3, <2>1, <2>2, <2>3 DEF Write
<1>4. ASSUME NEW c \in Conns, Leave(c) PROVE HandInv'
  BY <1>4 DEF Leave, Remove, Uncount, DropReceiver
<1>5. ASSUME NEW c \in Conns, Client(c) PROVE HandInv'
  BY <1>5 DEF Client, Reject, Accept, Read, ReadOther, ReadForwardSingle, ReadForwardAll,
              ReadClose, ReadError, Stall, Vanish, Frame
<1> QED
  BY <1>1, <1>2, <1>3, <1>4, <1>5 DEF Next, Run

(* How the mail of a connection d changes with the steps that touch it.    *)
LEMMA SendToPeerMail ==
    ASSUME TypeOK, NEW p \in Peers, NEW m, SendToPeer(p, m),
           UNCHANGED <<queue, hand, delivered>>, NEW d \in Conns
    PROVE  /\ delivered'[d] = delivered[d]
           /\ Pending(d)' = IF peers[p] = d THEN Pending(d) \cup {m} ELSE Pending(d)
BY DEF TypeOK, SendToPeer, Pending

(* A request that is queued stays pending (PeerHandler::send).           *)
LEMMA EnqueueMail ==
    ASSUME TypeOK, NEW c \in Conns, NEW m \in tasks[c], Enqueue(c, m), NEW d \in Conns
    PROVE  delivered'[d] = delivered[d] /\ Pending(d)' = Pending(d)
<1>1. /\ tasks' = [tasks EXCEPT ![c] = @ \ {m}]
      /\ queue' = [queue EXCEPT ![c] = Append(@, m)]
      /\ UNCHANGED <<hand, delivered>>
  BY DEF Enqueue
<1>2. m \in Message /\ queue[c] \in Seq(Message)
  BY DEF TypeOK
<1>3. Elems(Append(queue[c], m)) = Elems(queue[c]) \cup {m}
  BY <1>2, ElemsAppend
<1>4. CASE d = c
  <2>1. tasks'[d] = tasks[d] \ {m} /\ queue'[d] = Append(queue[d], m)
    BY <1>1, <1>4 DEF TypeOK
  <2> QED
    BY <1>1, <1>3, <1>4, <2>1 DEF Pending
<1>5. CASE d # c
  BY <1>1, <1>5 DEF TypeOK, Pending
<1> QED
  BY <1>4, <1>5

(* A request that is received stays pending, in hand (process_ws).       *)
LEMMA RecvMail ==
    ASSUME TypeOK, HandInv, NEW c \in Conns, Recv(c), NEW d \in Conns
    PROVE  delivered'[d] = delivered[d] /\ Pending(d)' = Pending(d)
<1>1. /\ queue' = [queue EXCEPT ![c] = Tail(@)]
      /\ hand' = [hand EXCEPT ![c] = {Head(queue[c])}]
      /\ UNCHANGED <<tasks, delivered>>
      /\ hand[c] = {}
  BY DEF Recv, HandInv
<1>2. queue[c] \in Seq(Message) /\ queue[c] # <<>>
  BY DEF Recv, TypeOK
<1>3. Elems(queue[c]) = Elems(Tail(queue[c])) \cup {Head(queue[c])}
  BY <1>2, ElemsTail
<1>4. CASE d = c
  <2>1. queue'[d] = Tail(queue[d]) /\ hand'[d] = {Head(queue[d])}
    BY <1>1, <1>4 DEF TypeOK
  <2> QED
    BY <1>1, <1>3, <1>4, <2>1 DEF Pending
<1>5. CASE d # c
  BY <1>1, <1>5 DEF TypeOK, Pending
<1> QED
  BY <1>4, <1>5

(* A write moves the request in hand to the delivered ones.              *)
LEMMA WriteOkMail ==
    ASSUME TypeOK, NEW c \in Conns, WriteOk(c), NEW d \in Conns
    PROVE  /\ d # c => delivered'[d] = delivered[d] /\ Pending(d)' = Pending(d)
           /\ d = c => /\ delivered'[d] = delivered[d] \cup hand[d]
                       /\ Pending(d)' = tasks[d] \cup Elems(queue[d])
<1>1. /\ delivered' = [delivered EXCEPT ![c] = @ \cup hand[c]]
      /\ hand' = [hand EXCEPT ![c] = {}]
      /\ UNCHANGED <<tasks, queue>>
  BY DEF WriteOk
<1>2. CASE d = c
  BY <1>1, <1>2 DEF TypeOK, Pending
<1>3. CASE d # c
  BY <1>1, <1>3 DEF TypeOK, Pending
<1> QED
  BY <1>2, <1>3

(* A step that is none of these leaves a served connection's mail alone,   *)
(* and nobody's mail grows.                                                *)
MailStep(c) ==
    \/ SendForward(c) \/ ReadForwardSingle(c) \/ Recv(c) \/ WriteOk(c)
    \/ \E m \in tasks[c] : Enqueue(c, m)

(* No other step touches the mail of a connection that is being served.  *)
LEMMA OtherMail ==
    ASSUME TypeOK, [Next]_vars, \A c \in Conns : ~MailStep(c), NEW d \in Conns
    PROVE  /\ delivered'[d] = delivered[d] /\ Pending(d)' \subseteq Pending(d)
           /\ pc'[d] \in Serving => Pending(d)' = Pending(d)
<1> USE DEF vars, reg, cast, mail, Goto, TypeOK, Serving, MailStep
<1> DEFINE P == /\ delivered'[d] = delivered[d] /\ Pending(d)' \subseteq Pending(d)
                /\ pc'[d] \in Serving => Pending(d)' = Pending(d)
<1>1. CASE UNCHANGED mail
  BY <1>1 DEF Pending
<1>2. ASSUME NEW c \in Conns, Join(c) \/ Scan(c) \/ EndBroadcast(c) \/ Remove(c) \/ Uncount(c)
      PROVE  UNCHANGED mail
  BY <1>2 DEF Join, Insert, Announce, AnnounceFails, Scan, EndBroadcast, Remove, Uncount
<1>3. ASSUME NEW c \in Conns, Client(c) PROVE UNCHANGED mail
  BY <1>3 DEF Client, Reject, Accept, Read, ReadOther, ReadForwardAll, ReadClose, ReadError,
              Stall, Vanish
<1>4. ASSUME NEW c \in Conns, WriteFails(c) PROVE P
  BY <1>4 DEF WriteFails, Pending
<1>5. ASSUME NEW c \in Conns, DropReceiver(c) PROVE P
  BY <1>5 DEF DropReceiver, Pending, Elems
<1>6. ASSUME NEW c \in Conns, NEW m \in tasks[c], SendFails(c, m) PROVE P
  BY <1>6 DEF SendFails, Pending
<1> QED
  BY <1>1, <1>2, <1>3, <1>4, <1>5, <1>6 DEF Next, Run, Cast, Write, Leave, SendTask

(* Nothing is lost: what a connection has been sent stays with it as long  *)
(* as it is served.                                                        *)
LEMMA NothingLost ==
    ASSUME TypeOK, HandInv, [Next]_vars, NEW d \in Conns, pc'[d] \in Serving,
           NEW m, Has(d, m)
    PROVE  Has(d, m)'
<1> USE DEF Has
<1>1. ASSUME NEW c \in Conns, SendForward(c) PROVE Has(d, m)'
  <2>1. PICK p \in Peers : SendToPeer(p, BroadcastMsg(c, p))
    BY <1>1 DEF SendForward, TypeOK
  <2>2. UNCHANGED <<queue, hand, delivered>>
    BY <1>1 DEF SendForward
  <2> QED
    BY <2>1, <2>2, SendToPeerMail
<1>2. ASSUME NEW c \in Conns, ReadForwardSingle(c) PROVE Has(d, m)'
  <2>0. PICK p \in Peers : \E n : SendToPeer(p, n)
    BY <1>2 DEF ReadForwardSingle
  <2>1. PICK n : SendToPeer(p, n)
    BY <2>0
  <2>2. UNCHANGED <<queue, hand, delivered>>
    BY <1>2 DEF ReadForwardSingle
  <2> QED
    BY <2>1, <2>2, SendToPeerMail
<1>3. ASSUME NEW c \in Conns, Recv(c) PROVE Has(d, m)'
  BY <1>3, RecvMail
<1>4. ASSUME NEW c \in Conns, WriteOk(c) PROVE Has(d, m)'
  BY <1>4, WriteOkMail DEF Pending
<1>5. ASSUME NEW c \in Conns, NEW n \in tasks[c], Enqueue(c, n) PROVE Has(d, m)'
  BY <1>5, EnqueueMail
<1>6. CASE \A c \in Conns : ~MailStep(c)
  BY <1>6, OtherMail
<1> QED
  BY <1>1, <1>2, <1>3, <1>4, <1>5, <1>6 DEF MailStep

(* What a connection gets anew was looked up under the identifier it is    *)
(* addressed to.                                                           *)
LEMMA NewMail ==
    ASSUME TypeOK, HandInv, [Next]_vars, NEW d \in Conns, NEW m, Has(d, m)', ~Has(d, m)
    PROVE  m.to \in Peers /\ peers[m.to] = d
<1> USE DEF Has
<1>1. ASSUME NEW c \in Conns, SendForward(c) PROVE m.to \in Peers /\ peers[m.to] = d
  <2>1. PICK p \in Peers : SendToPeer(p, BroadcastMsg(c, p))
    BY <1>1 DEF SendForward, TypeOK
  <2>2. UNCHANGED <<queue, hand, delivered>>
    BY <1>1 DEF SendForward
  <2>3. peers[p] = d /\ m = BroadcastMsg(c, p)
    BY <2>1, <2>2, SendToPeerMail
  <2> QED
    BY <2>3 DEF BroadcastMsg
<1>2. ASSUME NEW c \in Conns, ReadForwardSingle(c) PROVE m.to \in Peers /\ peers[m.to] = d
  <2>1. PICK from \in Peers, to \in Peers :
          SendToPeer(to, [by |-> c, seq |-> received[c] + 1, from |-> from, to |-> to])
    BY <1>2 DEF ReadForwardSingle
  <2>2. UNCHANGED <<queue, hand, delivered>>
    BY <1>2 DEF ReadForwardSingle
  <2>3. /\ peers[to] = d
        /\ m = [by |-> c, seq |-> received[c] + 1, from |-> from, to |-> to]
    BY <2>1, <2>2, SendToPeerMail
  <2> QED
    BY <2>3
<1>3. ASSUME NEW c \in Conns, Recv(c) PROVE FALSE
  BY <1>3, RecvMail
<1>4. ASSUME NEW c \in Conns, WriteOk(c) PROVE FALSE
  BY <1>4, WriteOkMail DEF Pending
<1>5. ASSUME NEW c \in Conns, NEW n \in tasks[c], Enqueue(c, n) PROVE FALSE
  BY <1>5, EnqueueMail
<1>6. CASE \A c \in Conns : ~MailStep(c)
  BY <1>6, OtherMail
<1> QED
  BY <1>1, <1>2, <1>3, <1>4, <1>5, <1>6 DEF MailStep

(* Nothing has been sent at first.                                       *)
LEMMA RoutedInit == Init => Routed
BY DEF Init, Routed, Pending, Elems

(* Every step keeps requests at connections of their identifier.         *)
LEMMA RoutedStep == TypeOK /\ HandInv /\ NoStaleHandler /\ Routed /\ [Next]_vars => Routed'
<1> SUFFICES ASSUME TypeOK, HandInv, NoStaleHandler, Routed, [Next]_vars,
                    NEW d \in Conns, NEW m, Has(d, m)'
             PROVE  m.to = IdOf[d]
  BY DEF Routed, Has
<1>1. CASE Has(d, m)
  BY <1>1 DEF Routed, Has
<1>2. CASE ~Has(d, m)
  BY <1>2, NewMail DEF NoStaleHandler
<1> QED
  BY <1>1, <1>2

(* A request addressed to an identifier only reaches connections that      *)
(* presented it (send_to_peer).                                            *)
THEOREM RequestsAreRouted == Spec => []Routed
<1>1. TypeOK /\ HandInv /\ RegistryInv /\ Routed /\ [Next]_vars
        => (TypeOK /\ HandInv /\ RegistryInv /\ Routed)'
  BY TypeStep, HandStep, RegistryStep, RoutedStep DEF RegistryInv
<1> QED
  BY <1>1, InitType, HandInit, RegistryInit, RoutedInit, PTL DEF Spec

-----------------------------------------------------------------------------
(* The gauge. Each of the sets it is reconciled with gains or loses one    *)
(* element when a connection joins or leaves.                              *)
At(l)  == {c \in Conns : pc[c] = l}
Filed  == {p \in Peers : peers[p] # None}

OverwroteInv == \A d \in overwrote : pc[d] \notin {"new", "insert"}
GaugeInv     == GaugeAccount /\ OverwroteInv

(* The account balances at first.                                        *)
LEMMA GaugeInit == Init => GaugeInv
<1> SUFFICES ASSUME Init PROVE GaugeInv
  OBVIOUS
<1>1. At("count") = {} /\ At("uncount") = {} /\ Filed = {} /\ overwrote = {} /\ peer_count = 0
  BY DEF Init, At, Filed
<1>2. GaugeAccount <=>
        peer_count + Cardinality(At("count")) =
          Cardinality(Filed) + Cardinality(At("uncount")) + Cardinality(overwrote)
  BY Zenon DEF GaugeAccount, At, Filed
<1>3. Cardinality({}) = 0
  BY FS_EmptySet
<1>4. GaugeAccount
  BY <1>1, <1>2, <1>3
<1> QED
  BY <1>1, <1>4 DEF GaugeInv, OverwroteInv

(* The sets the account counts are finite.                               *)
LEMMA GaugeFinite ==
    ASSUME TypeOK
    PROVE  /\ \A l \in Label : IsFiniteSet(At(l)) /\ Cardinality(At(l)) \in Nat
           /\ IsFiniteSet(Filed) /\ Cardinality(Filed) \in Nat
           /\ IsFiniteSet(overwrote) /\ Cardinality(overwrote) \in Nat
<1>1. ASSUME NEW l \in Label PROVE IsFiniteSet(At(l)) /\ Cardinality(At(l)) \in Nat
  <2>1. At(l) \in SUBSET Conns
    BY DEF At
  <2> QED
    BY <2>1, FS_Subset, FS_CardinalityType
<1>2. IsFiniteSet(Filed) /\ Cardinality(Filed) \in Nat
  <2>1. Filed \in SUBSET Peers
    BY DEF Filed
  <2> QED
    BY <2>1, PeersAssumption, FS_Subset, FS_CardinalityType
<1>3. IsFiniteSet(overwrote) /\ Cardinality(overwrote) \in Nat
  <2>1. overwrote \in SUBSET Conns
    BY DEF TypeOK
  <2> QED
    BY <2>1, FS_Subset, FS_CardinalityType
<1> QED
  BY <1>1, <1>2, <1>3

(* The members of At(l) when one connection moves.                         *)
LEMMA AtGoto ==
    ASSUME TypeOK, NEW c \in Conns, NEW k \in Label, Goto(c, k), NEW l \in Label
    PROVE  /\ k = l /\ pc[c] # l => At(l)' = At(l) \cup {c} /\ c \notin At(l)
           /\ k # l /\ pc[c] = l => At(l)' = At(l) \ {c} /\ c \in At(l)
           /\ (k = l) = (pc[c] = l) => At(l)' = At(l)
BY DEF TypeOK, Goto, At

(* A connection joins once.                                                *)
LEMMA JoinsOnce ==
    ASSUME TypeOK, [Next]_vars, NEW d \in Conns, pc[d] \notin {"new", "insert"}
    PROVE  pc'[d] \notin {"new", "insert"}
<1> USE DEF vars, reg, cast, mail, Goto, TypeOK
<1>1. CASE UNCHANGED vars
  BY <1>1
<1>2. ASSUME NEW c \in Conns, Join(c) \/ Leave(c) PROVE pc'[d] \notin {"new", "insert"}
  BY <1>2 DEF Join, Insert, Announce, AnnounceFails, Leave, Remove, Uncount, DropReceiver
<1>3. ASSUME NEW c \in Conns, Cast(c) \/ Write(c) \/ SendTask(c)
      PROVE  pc'[d] \notin {"new", "insert"}
  BY <1>3 DEF Cast, Scan, SendForward, EndBroadcast, Write, Recv, WriteOk, WriteFails,
              SendTask, Enqueue, SendFails
<1>4. ASSUME NEW c \in Conns, Client(c) PROVE pc'[d] \notin {"new", "insert"}
  BY <1>4 DEF Client, Reject, Accept, Read, ReadOther, ReadForwardSingle, ReadForwardAll,
              ReadClose, ReadError, Stall, Vanish, Frame
<1> QED
  BY <1>1, <1>2, <1>3, <1>4 DEF Next, Run

(* The steps that touch the gauge's account.                               *)
GaugeMove(c) == Insert(c) \/ Announce(c) \/ AnnounceFails(c) \/ Remove(c) \/ Uncount(c)

(* No other step touches an entry of the account.                        *)
LEMMA GaugeFrame ==
    ASSUME TypeOK, [Next]_vars, \A c \in Conns : ~GaugeMove(c)
    PROVE  /\ UNCHANGED <<peers, peer_count, overwrote>>
           /\ At("count")' = At("count") /\ At("uncount")' = At("uncount")
<1> SUFFICES /\ UNCHANGED <<peers, peer_count, overwrote>>
             /\ \A d \in Conns : /\ pc'[d] = "count" <=> pc[d] = "count"
                                 /\ pc'[d] = "uncount" <=> pc[d] = "uncount"
  BY DEF At
<1> USE DEF vars, reg, cast, mail, Goto, TypeOK, GaugeMove
<1> DEFINE P == /\ UNCHANGED <<peers, peer_count, overwrote>>
                /\ \A d \in Conns : /\ pc'[d] = "count" <=> pc[d] = "count"
                                    /\ pc'[d] = "uncount" <=> pc[d] = "uncount"
<1>1. CASE UNCHANGED vars
  BY <1>1
<1>2. ASSUME NEW c \in Conns, Cast(c) PROVE P
  BY <1>2 DEF Cast, Scan, SendForward, EndBroadcast
<1>3. ASSUME NEW c \in Conns, Write(c) \/ SendTask(c) PROVE P
  BY <1>3 DEF Write, Recv, WriteOk, WriteFails, SendTask, Enqueue, SendFails
<1>4. ASSUME NEW c \in Conns, DropReceiver(c) PROVE P
  BY <1>4 DEF DropReceiver
<1>5. ASSUME NEW c \in Conns, Client(c) PROVE P
  BY <1>5 DEF Client, Reject, Accept, Read, ReadOther, ReadForwardSingle, ReadForwardAll,
              ReadClose, ReadError, Stall, Vanish, Frame
<1> QED
  BY <1>1, <1>2, <1>3, <1>4, <1>5 DEF Next, Run, Join, Leave

(* A connection replaces an entry only by its own insert.                *)
LEMMA OverwroteStep == TypeOK /\ OverwroteInv /\ [Next]_vars => OverwroteInv'
<1> SUFFICES ASSUME TypeOK, OverwroteInv, [Next]_vars, NEW d \in overwrote'
             PROVE  pc'[d] \notin {"new", "insert"}
  BY DEF OverwroteInv
<1>1. CASE d \in overwrote
  <2>1. d \in Conns /\ pc[d] \notin {"new", "insert"}
    BY <1>1 DEF OverwroteInv, TypeOK
  <2> QED
    BY <2>1, JoinsOnce
<1>2. CASE d \notin overwrote
  <2>1. PICK c \in Conns : Insert(c)
    BY <1>2, RegistryFrame, Zenon DEF Remove
  <2>2. d = c /\ pc'[c] = "count"
    BY <1>2, <2>1 DEF Insert, Goto, TypeOK
  <2> QED
    BY <2>2
<1> QED
  BY <1>1, <1>2

(* Every step keeps the account balanced.                                *)
LEMMA GaugeStep == TypeOK /\ GaugeInv /\ [Next]_vars => GaugeInv'
<1> SUFFICES ASSUME TypeOK, GaugeInv, [Next]_vars PROVE GaugeAccount'
  BY OverwroteStep DEF GaugeInv
<1>a. peer_count + Cardinality(At("count")) =
        Cardinality(Filed) + Cardinality(At("uncount")) + Cardinality(overwrote)
  BY DEF GaugeInv, GaugeAccount, At, Filed
<1>b. /\ peer_count \in Int
      /\ IsFiniteSet(At("count")) /\ Cardinality(At("count")) \in Nat
      /\ IsFiniteSet(At("uncount")) /\ Cardinality(At("uncount")) \in Nat
      /\ IsFiniteSet(Filed) /\ Cardinality(Filed) \in Nat
      /\ IsFiniteSet(overwrote) /\ Cardinality(overwrote) \in Nat
  BY GaugeFinite DEF Label, TypeOK
<1> SUFFICES peer_count' + Cardinality(At("count")') =
               Cardinality(Filed') + Cardinality(At("uncount")') + Cardinality(overwrote')
  BY DEF GaugeAccount, At, Filed
<1>l. {"count", "uncount", "broadcast", "loop", "drop"} \subseteq Label
  BY DEF Label
<1>1. ASSUME NEW c \in Conns, Insert(c)
      PROVE  peer_count' + Cardinality(At("count")') =
               Cardinality(Filed') + Cardinality(At("uncount")') + Cardinality(overwrote')
  <2>1. /\ Goto(c, "count") /\ pc[c] = "insert" /\ peer_count' = peer_count
        /\ peers' = [peers EXCEPT ![IdOf[c]] = c]
        /\ IdOf[c] \in Peers /\ c # None
    BY <1>1 DEF Insert
  <2>2. /\ At("count")' = At("count") \cup {c} /\ c \notin At("count")
        /\ At("uncount")' = At("uncount")
    BY <2>1, <1>l, AtGoto
  <2>3. Cardinality(At("count")') = Cardinality(At("count")) + 1
    BY <1>b, <2>2, FS_AddElement
  <2>4. CASE peers[IdOf[c]] = None
    <3>1. /\ Filed' = Filed \cup {IdOf[c]} /\ IdOf[c] \notin Filed
          /\ overwrote' = overwrote
      BY <1>1, <2>1, <2>4 DEF Insert, Filed, TypeOK
    <3>2. Cardinality(Filed') = Cardinality(Filed) + 1
      BY <1>b, <3>1, FS_AddElement
    <3> QED
      BY <1>a, <1>b, <2>1, <2>2, <2>3, <3>1, <3>2
  <2>5. CASE peers[IdOf[c]] # None
    <3>1. /\ Filed' = Filed
          /\ overwrote' = overwrote \cup {c} /\ c \notin overwrote
      BY <1>1, <2>1, <2>5 DEF Insert, Filed, TypeOK, GaugeInv, OverwroteInv
    <3>2. Cardinality(overwrote') = Cardinality(overwrote) + 1
      BY <1>b, <3>1, FS_AddElement
    <3> QED
      BY <1>a, <1>b, <2>1, <2>2, <2>3, <3>1, <3>2
  <2> QED
    BY <2>4, <2>5
<1>2. ASSUME NEW c \in Conns, Announce(c) \/ AnnounceFails(c)
      PROVE  peer_count' + Cardinality(At("count")') =
               Cardinality(Filed') + Cardinality(At("uncount")') + Cardinality(overwrote')
  <2>1. /\ Goto(c, "broadcast") \/ Goto(c, "loop")
        /\ pc[c] = "count" /\ peer_count' = peer_count + 1
        /\ Filed' = Filed /\ overwrote' = overwrote
    BY <1>2 DEF Announce, AnnounceFails, Filed
  <2>2. /\ At("count")' = At("count") \ {c} /\ c \in At("count")
        /\ At("uncount")' = At("uncount")
    BY <2>1, <1>l, AtGoto
  <2>3. Cardinality(At("count")') = Cardinality(At("count")) - 1
    BY <1>b, <2>2, FS_RemoveElement
  <2> QED
    BY <1>a, <1>b, <2>1, <2>2, <2>3
<1>3. ASSUME NEW c \in Conns, Remove(c)
      PROVE  peer_count' + Cardinality(At("count")') =
               Cardinality(Filed') + Cardinality(At("uncount")') + Cardinality(overwrote')
  <2>1. /\ pc[c] = "remove" /\ peer_count' = peer_count /\ overwrote' = overwrote
        /\ peers' = [peers EXCEPT ![IdOf[c]] = None]
        /\ IdOf[c] \in Peers
    BY <1>3 DEF Remove
  <2>2. CASE peers[IdOf[c]] = None
    <3>1. Goto(c, "drop") /\ Filed' = Filed
      BY <1>3, <2>1, <2>2 DEF Remove, Filed, TypeOK
    <3>2. At("count")' = At("count") /\ At("uncount")' = At("uncount")
      BY <2>1, <3>1, <1>l, AtGoto
    <3> QED
      BY <1>a, <2>1, <3>1, <3>2
  <2>3. CASE peers[IdOf[c]] # None
    <3>1. /\ Goto(c, "uncount")
          /\ Filed' = Filed \ {IdOf[c]} /\ IdOf[c] \in Filed
      <4>1. Goto(c, "uncount")
        BY <1>3, <2>3 DEF Remove
      <4>2. Filed' = Filed \ {IdOf[c]} /\ IdOf[c] \in Filed
        BY <2>1, <2>3 DEF Filed, TypeOK
      <4> QED
        BY <4>1, <4>2
    <3>2. /\ At("count")' = At("count")
          /\ At("uncount")' = At("uncount") \cup {c} /\ c \notin At("uncount")
      BY <2>1, <3>1, <1>l, AtGoto
    <3>3. /\ Cardinality(Filed') = Cardinality(Filed) - 1
          /\ Cardinality(At("uncount")') = Cardinality(At("uncount")) + 1
      <4>1. Cardinality(Filed') = Cardinality(Filed) - 1
        BY <1>b, <3>1, FS_RemoveElement
      <4>2. Cardinality(At("uncount")') = Cardinality(At("uncount")) + 1
        BY <1>b, <3>2, FS_AddElement
      <4> QED
        BY <4>1, <4>2
    <3> QED
      BY <1>a, <1>b, <2>1, <3>2, <3>3
  <2> QED
    BY <2>2, <2>3
<1>4. ASSUME NEW c \in Conns, Uncount(c)
      PROVE  peer_count' + Cardinality(At("count")') =
               Cardinality(Filed') + Cardinality(At("uncount")') + Cardinality(overwrote')
  <2>1. /\ Goto(c, "drop") /\ pc[c] = "uncount" /\ peer_count' = peer_count - 1
        /\ Filed' = Filed /\ overwrote' = overwrote
    BY <1>4 DEF Uncount, Filed
  <2>2. /\ At("uncount")' = At("uncount") \ {c} /\ c \in At("uncount")
        /\ At("count")' = At("count")
    BY <2>1, <1>l, AtGoto
  <2>3. Cardinality(At("uncount")') = Cardinality(At("uncount")) - 1
    BY <1>b, <2>2, FS_RemoveElement
  <2> QED
    BY <1>a, <1>b, <2>1, <2>2, <2>3
<1>5. CASE \A c \in Conns : ~GaugeMove(c)
  BY <1>5, <1>a, GaugeFrame DEF Filed
<1> QED
  BY <1>1, <1>2, <1>3, <1>4, <1>5 DEF GaugeMove

(* The gauge agrees with the registry but for the connections between the  *)
(* two updates and the inserts that replaced an entry (add_peer,           *)
(* remove_peer).                                                           *)
THEOREM GaugeAccounts == Spec => []GaugeAccount
<1>1. Spec => [](TypeOK /\ GaugeInv)
  BY InitType, TypeStep, GaugeInit, GaugeStep, PTL DEF Spec
<1>2. GaugeInv => GaugeAccount
  BY DEF GaugeInv
<1> QED
  BY <1>1, <1>2, PTL

-----------------------------------------------------------------------------
(* A connection that is served, and registered, after a step and had       *)
(* joined before it was served and registered before it.                   *)
LEMMA WasServing ==
    ASSUME TypeOK, [Next]_vars, NEW d \in Conns, pc[d] \notin {"new", "insert"},
           pc'[d] \in Serving
    PROVE  /\ pc[d] \in Serving
           /\ Registered(d)' => Registered(d)
<1> USE DEF vars, reg, cast, mail, Goto, TypeOK, Serving, Registered
<1> DEFINE P == pc[d] \in Serving /\ (Registered(d)' => Registered(d))
<1>1. CASE UNCHANGED vars
  BY <1>1
<1>2. ASSUME NEW c \in Conns, Join(c) PROVE P
  BY <1>2 DEF Join, Insert, Announce, AnnounceFails
<1>3. ASSUME NEW c \in Conns, Leave(c) PROVE P
  BY <1>3 DEF Leave, Remove, Uncount, DropReceiver
<1>4. ASSUME NEW c \in Conns, Cast(c) PROVE P
  BY <1>4 DEF Cast, Scan, SendForward, EndBroadcast
<1>5. ASSUME NEW c \in Conns, Write(c) \/ SendTask(c) PROVE P
  BY <1>5 DEF Write, Recv, WriteOk, WriteFails, SendTask, Enqueue, SendFails
<1>6. ASSUME NEW c \in Conns, Client(c) PROVE P
  BY <1>6 DEF Client, Reject, Accept, Read, ReadOther, ReadForwardSingle, ReadForwardAll,
              ReadClose, ReadError, Stall, Vanish, Frame
<1> QED
  BY <1>1, <1>2, <1>3, <1>4, <1>5, <1>6 DEF Next, Run

(* A broadcast goes on with its own steps only.                            *)
LEMMA BroadcastFrame ==
    ASSUME TypeOK, [Next]_vars, NEW c \in Conns, pc'[c] = "broadcast",
           ~Announce(c), ~ReadForwardAll(c)
    PROVE  /\ pc[c] = "broadcast"
           /\ received'[c] = received[c] /\ audience'[c] = audience[c]
           /\ ~Scan(c) /\ ~SendForward(c) => todo'[c] = todo[c] /\ ids'[c] = ids[c]
<1> USE DEF vars, reg, cast, mail, Goto, TypeOK
<1> DEFINE P == /\ pc[c] = "broadcast"
                /\ received'[c] = received[c] /\ audience'[c] = audience[c]
                /\ ~Scan(c) /\ ~SendForward(c) => todo'[c] = todo[c] /\ ids'[c] = ids[c]
<1>1. CASE UNCHANGED vars
  BY <1>1
<1>2. ASSUME NEW e \in Conns, Insert(e) \/ AnnounceFails(e) PROVE P
  BY <1>2 DEF Insert, AnnounceFails
<1>3. ASSUME NEW e \in Conns, Announce(e) \/ ReadForwardAll(e) PROVE P
  BY <1>3 DEF Announce, ReadForwardAll, Frame, StartBroadcast
<1>4. ASSUME NEW e \in Conns, Cast(e) PROVE P
  <2>1. CASE Scan(e)
    <3>1. UNCHANGED <<pc, received, audience>>
      BY <2>1 DEF Scan
    <3>2. e # c => todo'[c] = todo[c] /\ ids'[c] = ids[c]
      BY <2>1 DEF Scan
    <3> QED BY <2>1, <3>1, <3>2
  <2>2. CASE SendForward(e)
    BY <2>2 DEF SendForward
  <2>3. CASE EndBroadcast(e)
    BY <2>3 DEF EndBroadcast
  <2> QED BY <1>4, <2>1, <2>2, <2>3 DEF Cast
<1>5. ASSUME NEW e \in Conns, Write(e) \/ SendTask(e) PROVE P
  BY <1>5 DEF Write, Recv, WriteOk, WriteFails, SendTask, Enqueue, SendFails
<1>6. ASSUME NEW e \in Conns, Leave(e) PROVE P
  BY <1>6 DEF Leave, Remove, Uncount, DropReceiver
<1>7. ASSUME NEW e \in Conns, Client(e), ~ReadForwardAll(e) PROVE P
  BY <1>7 DEF Client, Reject, Accept, Read, ReadOther, ReadForwardSingle,
              ReadClose, ReadError, Stall, Vanish, Frame
<1> QED
  BY <1>1, <1>2, <1>3, <1>4, <1>5, <1>6, <1>7 DEF Next, Run, Join

(* Who a broadcast has to reach has joined before it began.                *)
AudienceInv == \A c \in Conns : \A d \in audience[c] : pc[d] \notin {"new", "insert"}

(* An audience changes only where a broadcast starts.                      *)
LEMMA AudienceFrame ==
    ASSUME TypeOK, [Next]_vars, NEW c \in Conns
    PROVE  audience'[c] \subseteq audience[c] \cup {d \in Conns : Registered(d)}
<1> USE DEF vars, reg, cast, mail, TypeOK
<1> DEFINE P == audience'[c] \subseteq audience[c] \cup {d \in Conns : Registered(d)}
<1>1. CASE UNCHANGED vars
  BY <1>1
<1>2. ASSUME NEW e \in Conns, Announce(e) \/ ReadForwardAll(e) PROVE P
  BY <1>2 DEF Announce, ReadForwardAll, StartBroadcast
<1>3. ASSUME NEW e \in Conns, Insert(e) \/ AnnounceFails(e) \/ Cast(e) \/ Write(e)
                              \/ SendTask(e) \/ Leave(e) PROVE P
  BY <1>3 DEF Insert, AnnounceFails, Cast, Scan, SendForward, EndBroadcast, Write, Recv,
              WriteOk, WriteFails, SendTask, Enqueue, SendFails, Leave, Remove, Uncount,
              DropReceiver
<1>4. ASSUME NEW e \in Conns, Client(e), ~ReadForwardAll(e) PROVE P
  BY <1>4 DEF Client, Reject, Accept, Read, ReadOther, ReadForwardSingle,
              ReadClose, ReadError, Stall, Vanish
<1> QED
  BY <1>1, <1>2, <1>3, <1>4 DEF Next, Run, Join

(* Every step keeps the audiences among the connections that have joined. *)
LEMMA AudienceStep ==
    TypeOK /\ NoStaleHandler /\ AudienceInv /\ [Next]_vars => AudienceInv'
<1> SUFFICES ASSUME TypeOK, NoStaleHandler, AudienceInv, [Next]_vars,
                    NEW c \in Conns, NEW d \in audience'[c]
             PROVE  pc'[d] \notin {"new", "insert"}
  BY DEF AudienceInv
<1>1. d \in Conns
  BY AudienceFrame DEF TypeOK
<1>2. pc[d] \notin {"new", "insert"}
  <2>1. CASE d \in audience[c]
    BY <2>1 DEF AudienceInv
  <2>2. CASE d \notin audience[c]
    <3>1. Registered(d)
      BY <2>2, AudienceFrame
    <3>2. pc[d] \in Enlisted
      BY <1>1, <3>1 DEF Registered, NoStaleHandler
    <3> QED
      BY <3>2 DEF Enlisted, Serving
  <2> QED
    BY <2>1, <2>2
<1> QED
  BY <1>1, <1>2, JoinsOnce

(* What a broadcast still owes to, or has already sent to, identifier p:   *)
(* a step of the broadcast that takes p off its list sends to whoever is   *)
(* registered under p.                                                     *)
LEMMA BroadcastStep ==
    ASSUME TypeOK, [Next]_vars, NEW c \in Conns, NEW d \in Conns,
           pc[c] = "broadcast", pc'[c] = "broadcast", Registered(d),
           IdOf[d] \in todo[c] \cup ids[c]
    PROVE  IdOf[d] \in todo'[c] \cup ids'[c] \/ Has(d, BroadcastMsg(c, IdOf[d]))'
<1>1. CASE Scan(c)
  BY <1>1 DEF Scan, Registered, TypeOK
<1>2. CASE SendForward(c)
  <2>1. PICK p \in ids[c] : /\ SendToPeer(p, BroadcastMsg(c, p))
                            /\ ids' = [ids EXCEPT ![c] = @ \ {p}]
    BY <1>2 DEF SendForward
  <2>2. CASE p = IdOf[d]
    <3>1. p \in Peers /\ peers[p] = d
      BY <2>2 DEF Registered
    <3>2. UNCHANGED <<queue, hand, delivered, received>>
      BY <1>2 DEF SendForward
    <3>3. BroadcastMsg(c, p) \in Pending(d)'
      BY <2>1, <3>1, <3>2, SendToPeerMail
    <3>4. BroadcastMsg(c, IdOf[d])' = BroadcastMsg(c, p)
      BY <2>2, <3>2 DEF BroadcastMsg
    <3> QED
      BY <3>3, <3>4 DEF Has
  <2>3. CASE p # IdOf[d]
    BY <1>2, <2>1, <2>3 DEF SendForward, TypeOK
  <2> QED
    BY <2>2, <2>3
<1>3. CASE ~Scan(c) /\ ~SendForward(c)
  <2>1. ~Announce(c) /\ ~ReadForwardAll(c)
    BY DEF Announce, ReadForwardAll, Frame
  <2> QED
    BY <1>3, <2>1, BroadcastFrame
<1> QED
  BY <1>1, <1>2, <1>3

(* No broadcast is in progress at first.                                 *)
LEMMA ReachInit == Init => BroadcastReaches /\ AudienceInv
BY DEF Init, BroadcastReaches, AudienceInv

(* Every step keeps what broadcasts in progress owe.                     *)
LEMMA ReachStep ==
    TypeOK /\ HandInv /\ AudienceInv /\ BroadcastReaches /\ [Next]_vars => BroadcastReaches'
<1> SUFFICES ASSUME TypeOK, HandInv, AudienceInv, BroadcastReaches, [Next]_vars,
                    NEW c \in Conns, pc'[c] = "broadcast",
                    NEW d \in audience'[c], Registered(d)', pc'[d] \in Serving
             PROVE  \/ IdOf[d] \in todo'[c] \cup ids'[c]
                    \/ Has(d, BroadcastMsg(c, IdOf[d]))'
  BY DEF BroadcastReaches
<1>1. d \in Conns /\ IdOf[d] \in Peers
  BY AudienceFrame DEF TypeOK
<1>2. CASE Announce(c) \/ ReadForwardAll(c)
  BY <1>1, <1>2 DEF Announce, ReadForwardAll, StartBroadcast, TypeOK
<1>3. CASE ~Announce(c) /\ ~ReadForwardAll(c)
  <2>1. /\ pc[c] = "broadcast"
        /\ received'[c] = received[c] /\ d \in audience[c]
    BY <1>3, BroadcastFrame
  <2>2. pc[d] \in Serving /\ Registered(d)
    BY <1>1, <2>1, WasServing DEF AudienceInv
  <2>3. CASE Has(d, BroadcastMsg(c, IdOf[d]))
    <3>1. Has(d, BroadcastMsg(c, IdOf[d])')
      BY <2>1, <2>3 DEF BroadcastMsg
    <3>2. BroadcastMsg(c, IdOf[d])' = BroadcastMsg(c, IdOf[d])
      BY <2>1 DEF BroadcastMsg
    <3> DEFINE m == BroadcastMsg(c, IdOf[d])
    <3>3. ASSUME NEW n, n = m PROVE Has(d, n)'
      BY <1>1, <2>3, <3>3, NothingLost
    <3> QED
      BY <3>2, <3>3 DEF Has
  <2>4. CASE IdOf[d] \in todo[c] \cup ids[c]
    BY <1>1, <2>1, <2>2, <2>4, BroadcastStep
  <2> QED
    BY <2>1, <2>2, <2>3, <2>4 DEF BroadcastReaches
<1> QED
  BY <1>2, <1>3

(* A broadcast reaches every connection that is registered throughout,     *)
(* although it reads the registry key by key and looks every key up again  *)
(* (broadcast_forward_except).                                             *)
THEOREM BroadcastsReach == Spec => []BroadcastReaches
<1> DEFINE I == TypeOK /\ HandInv /\ RegistryInv /\ AudienceInv /\ BroadcastReaches
<1>1. Init => I
  BY InitType, HandInit, RegistryInit, ReachInit
<1>2. I /\ [Next]_vars => I'
  BY TypeStep, HandStep, RegistryStep, AudienceStep, ReachStep DEF RegistryInv
<1>3. I => BroadcastReaches
  OBVIOUS
<1> QED
  BY <1>1, <1>2, <1>3, PTL DEF Spec

-----------------------------------------------------------------------------
(* A connection moves by a step of its own.                                *)
OwnMove(c) ==
    \/ Join(c) \/ EndBroadcast(c) \/ Write(c) \/ Leave(c) \/ Reject(c) \/ Accept(c)
    \/ ReadForwardAll(c) \/ ReadClose(c) \/ ReadError(c)

(* The position of a connection changes with its own moves only.         *)
LEMMA OwnMoves ==
    ASSUME TypeOK, [Next]_vars, NEW c \in Conns, pc'[c] # pc[c]
    PROVE  OwnMove(c)
<1> USE DEF vars, Goto, TypeOK
<1>1. CASE UNCHANGED vars
  BY <1>1
<1>2. ASSUME NEW e \in Conns, OwnMove(e) PROVE OwnMove(c)
  <2>1. e # c => pc'[c] = pc[c]
    BY <1>2 DEF OwnMove, Join, Insert, Announce, AnnounceFails, EndBroadcast, Write, Recv,
                WriteOk, WriteFails, Leave, Remove, Uncount, DropReceiver, Reject, Accept,
                ReadForwardAll, ReadClose, ReadError
  <2> QED
    BY <1>2, <2>1
<1>3. ASSUME NEW e \in Conns, Scan(e) \/ SendForward(e) \/ SendTask(e) PROVE pc'[c] = pc[c]
  BY <1>3 DEF Scan, SendForward, SendTask, Enqueue, SendFails
<1>4. ASSUME NEW e \in Conns, ReadOther(e) \/ ReadForwardSingle(e) \/ Stall(e) \/ Vanish(e)
      PROVE  pc'[c] = pc[c]
  BY <1>4 DEF ReadOther, ReadForwardSingle, Stall, Vanish
<1> QED
  BY <1>1, <1>2, <1>3, <1>4 DEF Next, Run, Cast, Client, Read, OwnMove

(* No frame is read before a connection has joined.                        *)
ReceivedInv == \A c \in Conns : pc[c] \in {"new", "insert", "count"} => received[c] = 0

(* Only a frame read changes the count of frames read.                   *)
LEMMA ReceivedFrame ==
    ASSUME TypeOK, [Next]_vars, NEW c \in Conns, pc[c] # "loop"
    PROVE  received'[c] = received[c]
<1> USE DEF vars, reg, cast, mail, TypeOK
<1>1. CASE UNCHANGED vars
  BY <1>1
<1>2. ASSUME NEW e \in Conns, Run(e) \/ SendTask(e) PROVE received'[c] = received[c]
  BY <1>2 DEF Run, Join, Insert, Announce, AnnounceFails, Cast, Scan, SendForward,
              EndBroadcast, Write, Recv, WriteOk, WriteFails, Leave, Remove, Uncount,
              DropReceiver, SendTask, Enqueue, SendFails
<1>3. ASSUME NEW e \in Conns, Client(e) PROVE received'[c] = received[c]
  BY <1>3 DEF Client, Reject, Accept, Read, ReadOther, ReadForwardSingle, ReadForwardAll,
              ReadClose, ReadError, Stall, Vanish, Frame
<1> QED
  BY <1>1, <1>2, <1>3 DEF Next

(* Every step keeps the count at zero until the connection has joined.   *)
LEMMA ReceivedStep == TypeOK /\ ReceivedInv /\ [Next]_vars => ReceivedInv'
<1> SUFFICES ASSUME TypeOK, ReceivedInv, [Next]_vars, NEW c \in Conns,
                    pc'[c] \in {"new", "insert", "count"}
             PROVE  received'[c] = 0
  BY DEF ReceivedInv
<1>1. pc[c] \in {"new", "insert", "count"}
  <2>1. CASE pc'[c] = pc[c]
    BY <2>1
  <2>2. CASE pc'[c] # pc[c]
    <3> USE DEF Goto, TypeOK
    <3>1. OwnMove(c)
      BY <2>2, OwnMoves
    <3>2. CASE Join(c) \/ Reject(c) \/ Accept(c)
      BY <3>2 DEF Join, Insert, Announce, AnnounceFails, Reject, Accept
    <3>3. CASE EndBroadcast(c) \/ Write(c) \/ ReadForwardAll(c) \/ ReadClose(c) \/ ReadError(c)
      BY <3>3 DEF EndBroadcast, Write, Recv, WriteOk, WriteFails, ReadForwardAll, ReadClose,
                  ReadError
    <3>4. CASE Leave(c)
      BY <3>4 DEF Leave, Remove, Uncount, DropReceiver
    <3> QED
      BY <3>1, <3>2, <3>3, <3>4 DEF OwnMove
  <2> QED
    BY <2>1, <2>2
<1> QED
  BY <1>1, ReceivedFrame DEF ReceivedInv

(* A connection whose event failed stays on record.                      *)
LEMMA UnannouncedGrows ==
    ASSUME TypeOK, [Next]_vars
    PROVE  unannounced \subseteq unannounced'
<1> USE DEF vars
<1>1. CASE UNCHANGED vars
  BY <1>1
<1>2. ASSUME NEW e \in Conns, Run(e) \/ SendTask(e) PROVE unannounced \subseteq unannounced'
  BY <1>2 DEF Run, Join, Insert, Announce, AnnounceFails, Cast, Scan, SendForward,
              EndBroadcast, Write, Recv, WriteOk, WriteFails, Leave, Remove, Uncount,
              DropReceiver, SendTask, Enqueue, SendFails
<1>3. ASSUME NEW e \in Conns, Client(e) PROVE unannounced \subseteq unannounced'
  BY <1>3 DEF Client, Reject, Accept, Read, ReadOther, ReadForwardSingle, ReadForwardAll,
              ReadClose, ReadError, Stall, Vanish
<1> QED
  BY <1>1, <1>2, <1>3 DEF Next

(* A connection that is served after a step, and did not insert itself in  *)
(* it, had joined before.                                                  *)
LEMMA ServingHadJoined ==
    ASSUME TypeOK, [Next]_vars, NEW c \in Conns, pc'[c] \in Serving, ~Insert(c)
    PROVE  pc[c] \notin {"new", "insert"}
<1>1. CASE pc'[c] = pc[c]
  BY <1>1 DEF Serving
<1>2. CASE pc'[c] # pc[c]
  <2>1. OwnMove(c)
    BY <1>2, OwnMoves
  <2>2. ~Reject(c) /\ ~Accept(c)
    BY DEF Reject, Accept, Goto, Serving, TypeOK
  <2> QED
    BY <2>1, <2>2
       DEF OwnMove, Join, Announce, AnnounceFails, EndBroadcast, Write, Recv, WriteOk,
           WriteFails, Leave, Remove, Uncount, DropReceiver, ReadForwardAll, ReadClose,
           ReadError, Frame
<1> QED
  BY <1>1, <1>2

(* c will still send its NewPeer event to whoever has d's identifier.      *)
Owes(c, d) ==
    \/ pc[c] = "count"
    \/ /\ pc[c] = "broadcast" /\ received[c] = 0
       /\ IdOf[d] \in todo[c] \cup ids[c]

Told(d, c) == Has(d, NewPeerMsg(c, IdOf[d]))

DiscoveryInv ==
    \A c, d \in Conns :
        /\ c # d /\ Registered(c) /\ Registered(d)
        /\ pc[c] \in Serving /\ pc[d] \in Serving
        /\ c \notin unannounced /\ d \notin unannounced
        => Owes(c, d) \/ Told(d, c) \/ Owes(d, c) \/ Told(c, d)

(* Who was told stays told while it is served (NothingLost).             *)
LEMMA ToldStep ==
    ASSUME TypeOK, HandInv, [Next]_vars, NEW c \in Conns, NEW d \in Conns,
           pc'[d] \in Serving, Told(d, c)
    PROVE  Told(d, c)'
BY NothingLost DEF Told, NewPeerMsg, Has

(* A pending NewPeer broadcast still owes a peer, or has told it.        *)
LEMMA OwesStep ==
    ASSUME TypeOK, ReceivedInv, [Next]_vars, NEW c \in Conns, NEW d \in Conns,
           pc'[c] \in Serving, c \notin unannounced', Registered(d), Owes(c, d)
    PROVE  Owes(c, d)' \/ Told(d, c)'
<1>1. CASE pc[c] = "count"
  <2>1. CASE pc'[c] = "count"
    BY <2>1 DEF Owes
  <2>2. CASE pc'[c] # "count"
    <3>1. OwnMove(c)
      BY <1>1, <2>2, OwnMoves
    <3>2. Announce(c) \/ AnnounceFails(c)
      BY <1>1, <3>1
         DEF OwnMove, Join, Insert, EndBroadcast, Write, Recv, WriteOk, WriteFails, Leave,
             Remove, Uncount, DropReceiver, Reject, Accept, ReadForwardAll, ReadClose,
             ReadError, Frame
    <3>3. ~AnnounceFails(c)
      BY DEF AnnounceFails
    <3>4. received'[c] = 0 /\ pc'[c] = "broadcast" /\ todo'[c] = Peers
      BY <1>1, <3>2, <3>3 DEF Announce, Goto, StartBroadcast, ReceivedInv, TypeOK
    <3> QED
      BY <3>4 DEF Owes
  <2> QED
    BY <2>1, <2>2
<1>2. CASE pc[c] = "broadcast" /\ received[c] = 0 /\ IdOf[d] \in todo[c] \cup ids[c]
  <2>1. received'[c] = 0
    BY <1>2, ReceivedFrame
  <2>2. pc'[c] = "broadcast"
    <3> SUFFICES ASSUME pc'[c] # "broadcast" PROVE FALSE
      OBVIOUS
    <3>1. OwnMove(c)
      BY <1>2, OwnMoves
    <3> QED
      BY <1>2, <3>1
         DEF OwnMove, Join, Insert, Announce, AnnounceFails, EndBroadcast, Write, Recv,
             WriteOk, WriteFails, Leave, Remove, Uncount, DropReceiver, Reject, Accept,
             ReadForwardAll, ReadClose, ReadError, Frame
  <2>3. IdOf[d] \in todo'[c] \cup ids'[c] \/ Has(d, BroadcastMsg(c, IdOf[d]))'
    BY <1>2, <2>2, BroadcastStep
  <2>4. BroadcastMsg(c, IdOf[d])' = NewPeerMsg(c, IdOf[d])
    BY <2>1 DEF BroadcastMsg, NewPeerMsg
  <2> QED
    BY <2>1, <2>2, <2>3, <2>4 DEF Owes, Told, Has, NewPeerMsg
<1> QED
  BY <1>1, <1>2 DEF Owes

(* Nobody is served at first.                                            *)
LEMMA DiscoveryInit == Init => DiscoveryInv /\ ReceivedInv
BY DEF Init, DiscoveryInv, ReceivedInv, Serving

(* Every step keeps the discovery invariant: the second insert of the two finds the first. *)
LEMMA DiscoveryStep ==
    TypeOK /\ HandInv /\ ReceivedInv /\ DiscoveryInv /\ [Next]_vars => DiscoveryInv'
<1> SUFFICES ASSUME TypeOK, HandInv, ReceivedInv, DiscoveryInv, [Next]_vars,
                    NEW c \in Conns, NEW d \in Conns, c # d,
                    Registered(c)', Registered(d)', pc'[c] \in Serving, pc'[d] \in Serving,
                    c \notin unannounced', d \notin unannounced'
             PROVE  Owes(c, d)' \/ Told(d, c)' \/ Owes(d, c)' \/ Told(c, d)'
  BY DEF DiscoveryInv
<1>1. CASE Insert(c) \/ Insert(d)
  BY <1>1 DEF Insert, Goto, Owes, TypeOK
<1>2. CASE ~Insert(c) /\ ~Insert(d)
  <2>1. /\ pc[c] \in Serving /\ Registered(c)
        /\ pc[d] \in Serving /\ Registered(d)
    BY <1>2, ServingHadJoined, WasServing
  <2>2. c \notin unannounced /\ d \notin unannounced
    BY UnannouncedGrows
  <2>3. Owes(c, d) \/ Told(d, c) \/ Owes(d, c) \/ Told(c, d)
    BY <2>1, <2>2 DEF DiscoveryInv
  <2> QED
    BY <2>1, <2>3, OwesStep, ToldStep
<1> QED
  BY <1>1, <1>2

(* Once both have joined, nothing is owed any more.                      *)
LEMMA DiscoveryMutual == TypeOK /\ DiscoveryInv => MutualDiscovery
<1> SUFFICES ASSUME TypeOK, DiscoveryInv, NEW c \in Conns, NEW d \in Conns, c # d,
                    Joined(c), Joined(d)
             PROVE  Told(c, d) \/ Told(d, c)
  BY DEF MutualDiscovery, Told
<1>1. ~Owes(c, d) /\ ~Owes(d, c)
  BY DEF Joined, Owes, TypeOK
<1>2. pc[c] \in Serving /\ pc[d] \in Serving
  BY DEF Joined, Serving
<1> QED
  BY <1>1, <1>2 DEF Joined, DiscoveryInv

(* Two registered peers that have joined cannot have missed each other:    *)
(* each was in the registry before it broadcast its NewPeer event          *)
(* (add_peer).                                                             *)
THEOREM PeersDiscoverEachOther == Spec => []MutualDiscovery
<1> DEFINE I == TypeOK /\ HandInv /\ ReceivedInv /\ DiscoveryInv
<1>1. Init => I
  BY InitType, HandInit, DiscoveryInit
<1>2. I /\ [Next]_vars => I'
  BY TypeStep, HandStep, ReceivedStep, DiscoveryStep
<1>3. I => MutualDiscovery
  BY DiscoveryMutual
<1> QED
  BY <1>1, <1>2, <1>3, PTL DEF Spec

-----------------------------------------------------------------------------
(* The server implements Mailbox. Two facts carry the proof: what          *)
(* send_to_peer is given was never given before (Fresh), and a request is  *)
(* in one place at a time (OnePlace).                                      *)

(* Where a request that a connection gets anew comes from.                 *)
FromBroadcast(c, m) ==
    /\ SendForward(c) /\ m.to \in ids[c] /\ m = BroadcastMsg(c, m.to)
    /\ ids' = [ids EXCEPT ![c] = @ \ {m.to}]

FromFrame(c, m) == ReadForwardSingle(c) /\ m.by = c /\ m.seq = received[c] + 1

(* Every request is new from a broadcast or from a frame.                *)
LEMMA Origin ==
    ASSUME TypeOK, HandInv, [Next]_vars, NEW d \in Conns, NEW m, Has(d, m)', ~Has(d, m)
    PROVE  m.by \in Conns /\ (FromBroadcast(m.by, m) \/ FromFrame(m.by, m))
<1> USE DEF Has
<1>1. ASSUME NEW c \in Conns, SendForward(c) PROVE m.by = c /\ FromBroadcast(c, m)
  <2>1. PICK p \in ids[c] : /\ SendToPeer(p, BroadcastMsg(c, p))
                            /\ ids' = [ids EXCEPT ![c] = @ \ {p}]
    BY <1>1 DEF SendForward
  <2>2. UNCHANGED <<queue, hand, delivered>> /\ p \in Peers
    BY <1>1 DEF SendForward, TypeOK
  <2>3. m = BroadcastMsg(c, p)
    BY <2>1, <2>2, SendToPeerMail
  <2>4. m.to = p /\ m.by = c
    BY <2>3 DEF BroadcastMsg
  <2> QED
    BY <1>1, <2>1, <2>3, <2>4 DEF FromBroadcast
<1>2. ASSUME NEW c \in Conns, ReadForwardSingle(c) PROVE m.by = c /\ FromFrame(c, m)
  <2>1. PICK from \in Peers, to \in Peers :
          SendToPeer(to, [by |-> c, seq |-> received[c] + 1, from |-> from, to |-> to])
    BY <1>2 DEF ReadForwardSingle
  <2>2. UNCHANGED <<queue, hand, delivered>>
    BY <1>2 DEF ReadForwardSingle
  <2>3. m = [by |-> c, seq |-> received[c] + 1, from |-> from, to |-> to]
    BY <2>1, <2>2, SendToPeerMail
  <2> QED
    BY <1>2, <2>3 DEF FromFrame
<1>3. ASSUME NEW c \in Conns, Recv(c) PROVE FALSE
  BY <1>3, RecvMail
<1>4. ASSUME NEW c \in Conns, WriteOk(c) PROVE FALSE
  BY <1>4, WriteOkMail DEF Pending
<1>5. ASSUME NEW c \in Conns, NEW n \in tasks[c], Enqueue(c, n) PROVE FALSE
  BY <1>5, EnqueueMail
<1>6. CASE \A c \in Conns : ~MailStep(c)
  BY <1>6, OtherMail
<1> QED
  BY <1>1, <1>2, <1>3, <1>4, <1>5, <1>6 DEF MailStep

-----------------------------------------------------------------------------
(* Requests are numbered by the frames of the connection that caused them. *)
Numbered ==
    \A d \in Conns : \A m : Has(d, m) =>
        /\ m.by \in Conns /\ m.seq \in Nat /\ m.seq <= received[m.by]
        /\ pc[m.by] \notin {"new", "insert", "count"}

(* A broadcast has sent nothing yet to the identifiers still on its lists. *)
Unsent ==
    \A c \in Conns : pc[c] = "broadcast" =>
        \A d \in Conns : \A m : Has(d, m) /\ m.by = c /\ m.seq = received[c] =>
            m.to \notin todo[c] \cup ids[c]

Fresh == Numbered /\ Unsent

(* Nothing has been sent at first.                                       *)
LEMMA FreshInit == Init => Fresh
BY DEF Init, Fresh, Numbered, Unsent, Has, Pending, Elems

(* The number of frames read only grows.                                   *)
LEMMA ReceivedGrows ==
    ASSUME TypeOK, [Next]_vars, NEW c \in Conns
    PROVE  received[c] \in Nat /\ received'[c] \in Nat /\ received[c] <= received'[c]
<1> USE DEF vars, reg, cast, mail, TypeOK
<1> DEFINE P == received'[c] \in Nat /\ received[c] <= received'[c]
<1>0. received[c] \in Nat
  OBVIOUS
<1>1. CASE pc[c] # "loop" \/ UNCHANGED received
  BY <1>0, <1>1, ReceivedFrame
<1>2. ASSUME NEW e \in Conns, Run(e) \/ SendTask(e) PROVE UNCHANGED received
  BY <1>2 DEF Run, Join, Insert, Announce, AnnounceFails, Cast, Scan, SendForward,
              EndBroadcast, Write, Recv, WriteOk, WriteFails, Leave, Remove, Uncount,
              DropReceiver, SendTask, Enqueue, SendFails
<1>3. ASSUME NEW e \in Conns, Frame(e) PROVE P
  BY <1>0, <1>3 DEF Frame
<1>4. ASSUME NEW e \in Conns, Client(e), ~Frame(e) PROVE UNCHANGED received
  BY <1>4 DEF Client, Reject, Accept, Read, ReadOther, ReadForwardSingle, ReadForwardAll,
              ReadClose, ReadError, Stall, Vanish
<1> QED
  BY <1>0, <1>1, <1>2, <1>3, <1>4 DEF Next

(* Every step keeps the numbers of sent requests within the frames read. *)
LEMMA NumberedStep == TypeOK /\ HandInv /\ Numbered /\ [Next]_vars => Numbered'
<1> SUFFICES ASSUME TypeOK, HandInv, Numbered, [Next]_vars,
                    NEW d \in Conns, NEW m, Has(d, m)'
             PROVE  /\ m.by \in Conns /\ m.seq \in Nat /\ m.seq <= received'[m.by]
                    /\ pc'[m.by] \notin {"new", "insert", "count"}
  BY DEF Numbered, Has
<1>1. CASE Has(d, m)
  <2>1. /\ m.by \in Conns /\ m.seq \in Nat /\ m.seq <= received[m.by]
        /\ pc[m.by] \notin {"new", "insert", "count"}
    BY <1>1 DEF Numbered
  <2>2. received[m.by] \in Nat /\ received'[m.by] \in Nat /\ received[m.by] <= received'[m.by]
    BY <2>1, ReceivedGrows
  <2>3. pc'[m.by] # "count"
    <3> SUFFICES ASSUME pc'[m.by] = "count" PROVE FALSE
      OBVIOUS
    <3>1. Insert(m.by) \/ pc[m.by] = pc'[m.by]
      <4> DEFINE c == m.by
      <4>1. CASE OwnMove(c) /\ ~Insert(c)
        <5> USE DEF Goto, TypeOK
        <5>1. CASE Announce(c) \/ AnnounceFails(c) \/ Reject(c) \/ Accept(c) \/ Leave(c)
          BY <2>1, <5>1 DEF Announce, AnnounceFails, Reject, Accept, Leave, Remove, Uncount,
                            DropReceiver
        <5>2. CASE EndBroadcast(c) \/ Write(c) \/ ReadForwardAll(c) \/ ReadClose(c)
                   \/ ReadError(c)
          BY <2>1, <5>2 DEF EndBroadcast, Write, Recv, WriteOk, WriteFails, ReadForwardAll,
                            ReadClose, ReadError
        <5> QED
          BY <4>1, <5>1, <5>2 DEF OwnMove, Join
      <4> QED
        BY <2>1, <4>1, OwnMoves
    <3> QED
      BY <2>1, <3>1 DEF Insert
  <2> QED
    BY <2>1, <2>2, <2>3, JoinsOnce
<1>2. CASE ~Has(d, m)
  <2>1. m.by \in Conns /\ (FromBroadcast(m.by, m) \/ FromFrame(m.by, m))
    BY <1>2, Origin
  <2>2. CASE FromBroadcast(m.by, m)
    BY <2>1, <2>2 DEF FromBroadcast, SendForward, BroadcastMsg, TypeOK
  <2>3. CASE FromFrame(m.by, m)
    BY <2>1, <2>3 DEF FromFrame, ReadForwardSingle, Frame, TypeOK
  <2> QED
    BY <2>1, <2>2, <2>3
<1> QED
  BY <1>1, <1>2

(* Every step keeps a broadcast ahead of what it has sent.               *)
LEMMA UnsentStep == TypeOK /\ HandInv /\ Fresh /\ [Next]_vars => Unsent'
<1> SUFFICES ASSUME TypeOK, HandInv, Fresh, [Next]_vars,
                    NEW c \in Conns, pc'[c] = "broadcast", NEW d \in Conns, NEW m,
                    Has(d, m)', m.by = c, m.seq = received'[c]
             PROVE  m.to \notin todo'[c] \cup ids'[c]
  BY DEF Unsent, Has
<1>1. received[c] \in Nat /\ (Has(d, m) => m.seq <= received[c] /\ pc[c] # "count")
  BY ReceivedGrows DEF Fresh, Numbered
<1>2. CASE Has(d, m)
  <2>1. ~Announce(c) /\ ~ReadForwardAll(c)
    BY <1>1, <1>2 DEF Announce, ReadForwardAll, Frame, TypeOK
  <2>2. pc[c] = "broadcast" /\ received'[c] = received[c]
    BY <2>1, BroadcastFrame
  <2>3. m.to \notin todo[c] \cup ids[c]
    BY <1>2, <2>2 DEF Fresh, Unsent
  <2>4. todo'[c] \cup ids'[c] \subseteq todo[c] \cup ids[c]
    <3>1. CASE Scan(c)
      BY <3>1 DEF Scan, TypeOK
    <3>2. CASE SendForward(c)
      BY <3>2 DEF SendForward, TypeOK
    <3>3. CASE ~Scan(c) /\ ~SendForward(c)
      BY <2>1, <3>3, BroadcastFrame
    <3> QED
      BY <3>1, <3>2, <3>3
  <2> QED
    BY <2>3, <2>4
<1>3. CASE ~Has(d, m)
  <2>1. FromBroadcast(c, m) \/ FromFrame(c, m)
    BY <1>3, Origin
  <2>2. CASE FromBroadcast(c, m)
    BY <2>2 DEF FromBroadcast, SendForward, TypeOK
  <2>3. CASE FromFrame(c, m)
    BY <2>3 DEF FromFrame, ReadForwardSingle, Frame
  <2> QED
    BY <2>1, <2>2, <2>3
<1> QED
  BY <1>2, <1>3

(* Both together.                                                        *)
LEMMA FreshStep == TypeOK /\ HandInv /\ Fresh /\ [Next]_vars => Fresh'
BY NumberedStep, UnsentStep DEF Fresh

(* So what send_to_peer is given is new to every connection.               *)
LEMMA SendsAreFresh ==
    ASSUME TypeOK, Fresh, NEW d \in Conns, NEW c \in Conns, NEW p \in Peers, NEW q \in Peers
    PROVE  /\ pc[c] = "broadcast" /\ p \in ids[c] => ~Has(d, BroadcastMsg(c, p))
           /\ ~Has(d, [by |-> c, seq |-> received[c] + 1, from |-> p, to |-> q])
<1>1. ASSUME pc[c] = "broadcast", p \in ids[c] PROVE ~Has(d, BroadcastMsg(c, p))
  <2> DEFINE m == BroadcastMsg(c, p)
  <2>1. m.by = c /\ m.seq = received[c] /\ m.to = p
    BY DEF BroadcastMsg
  <2> HIDE DEF m
  <2> QED
    BY <1>1, <2>1 DEF Fresh, Unsent, m
<1>2. ~Has(d, [by |-> c, seq |-> received[c] + 1, from |-> p, to |-> q])
  <2> DEFINE m == [by |-> c, seq |-> received[c] + 1, from |-> p, to |-> q]
  <2>1. m.by = c /\ m.seq = received[c] + 1 /\ received[c] \in Nat
    BY DEF TypeOK
  <2> HIDE DEF m
  <2>2. ~Has(d, m)
    BY <2>1 DEF Fresh, Numbered
  <2> QED
    BY <2>2 DEF m
<1> QED
  BY <1>1, <1>2

-----------------------------------------------------------------------------
(* A request is in one place: with a spawned task, at one position of the  *)
(* channel, or in hand.                                                    *)
Distinct(s) == \A i, j \in DOMAIN s : s[i] = s[j] => i = j

OnePlaceFor(c) ==
    /\ Distinct(queue[c])
    /\ tasks[c] \cap Elems(queue[c]) = {}
    /\ tasks[c] \cap hand[c] = {}
    /\ Elems(queue[c]) \cap hand[c] = {}
    /\ pc[c] = "write" => \E m : hand[c] = {m}

OnePlace == \A c \in Conns : OnePlaceFor(c)

(* There is no request anywhere at first.                                *)
LEMMA OnePlaceInit == Init => OnePlace
BY DEF Init, OnePlace, OnePlaceFor, Distinct, Elems

(* Appending a new element keeps a channel free of repetitions.          *)
LEMMA DistinctAppend ==
    ASSUME NEW S, NEW s \in Seq(S), NEW m \in S, Distinct(s), m \notin Elems(s)
    PROVE  Distinct(Append(s, m))
<1> DEFINE t == Append(s, m)
<1>1. /\ DOMAIN s = 1..Len(s) /\ DOMAIN t = 1..(Len(s) + 1)
      /\ \A i \in 1..Len(s) : t[i] = s[i]
      /\ t[Len(s) + 1] = m
  OBVIOUS
<1> HIDE DEF t
<1>2. ASSUME NEW i \in 1..(Len(s) + 1), NEW j \in 1..(Len(s) + 1), t[i] = t[j] PROVE i = j
  <2>1. \A k \in 1..Len(s) : t[k] # m
    BY <1>1 DEF Elems
  <2> QED
    BY <1>1, <1>2, <2>1 DEF Distinct
<1>3. Distinct(t)
  BY <1>1, <1>2 DEF Distinct
<1> QED
  BY <1>3 DEF t

(* Taking the head off does, and the head is gone from the rest.         *)
LEMMA DistinctTail ==
    ASSUME NEW S, NEW s \in Seq(S), s # <<>>, Distinct(s)
    PROVE  Distinct(Tail(s)) /\ Head(s) \notin Elems(Tail(s))
<1> DEFINE t == Tail(s)
<1>1. /\ DOMAIN s = 1..Len(s) /\ DOMAIN t = 1..(Len(s) - 1)
      /\ Len(s) \in Nat \ {0} /\ Head(s) = s[1]
      /\ \A i \in 1..(Len(s) - 1) : t[i] = s[i + 1] /\ i + 1 \in 1..Len(s)
  OBVIOUS
<1> HIDE DEF t
<1>2. ASSUME NEW i \in 1..(Len(s) - 1), NEW j \in 1..(Len(s) - 1), t[i] = t[j] PROVE i = j
  <2>1. s[i + 1] = s[j + 1] /\ i + 1 \in 1..Len(s) /\ j + 1 \in 1..Len(s)
    BY <1>1, <1>2
  <2>2. i + 1 = j + 1
    BY <1>1, <2>1 DEF Distinct
  <2> QED
    BY <2>2
<1>3. ASSUME NEW i \in 1..(Len(s) - 1), t[i] = s[1] PROVE FALSE
  <2>1. s[i + 1] = s[1] /\ i + 1 \in 1..Len(s) /\ 1 \in 1..Len(s)
    BY <1>1, <1>3
  <2>2. i + 1 = 1
    BY <1>1, <2>1 DEF Distinct
  <2> QED
    BY <2>2
<1>4. Distinct(t) /\ Head(s) \notin Elems(t)
  BY <1>1, <1>2, <1>3 DEF Distinct, Elems
<1> QED
  BY <1>4 DEF t

(* What OnePlace says of a connection whose mail a step leaves alone.      *)
LEMMA OnePlaceFrame ==
    ASSUME NEW d \in Conns, OnePlaceFor(d), pc'[d] = "write" => pc[d] = "write",
           tasks'[d] \subseteq tasks[d],
           queue'[d] = queue[d] \/ queue'[d] = <<>>,
           hand'[d] = hand[d] \/ (hand'[d] = {} /\ pc'[d] # "write")
    PROVE  OnePlaceFor(d)'
<1>1. Distinct(queue'[d]) /\ Elems(queue'[d]) \subseteq Elems(queue[d])
  BY DEF OnePlaceFor, Distinct, Elems
<1> QED
  BY <1>1 DEF OnePlaceFor

(* A spawned send adds a request that is nowhere yet.                    *)
LEMMA OnePlaceSend ==
    ASSUME TypeOK, OnePlace, NEW p \in Peers, NEW m, SendToPeer(p, m),
           UNCHANGED <<pc, queue, hand, delivered>>, NEW d \in Conns, ~Has(d, m)
    PROVE  OnePlaceFor(d)'
<1>1. tasks'[d] \subseteq tasks[d] \cup {m}
  BY DEF SendToPeer, TypeOK
<1>2. m \notin Elems(queue[d]) \cup hand[d]
  BY DEF Has, Pending
<1> QED
  BY <1>1, <1>2 DEF OnePlace, OnePlaceFor

(* Queueing moves a request from the tasks to the channel.               *)
LEMMA OnePlaceEnqueue ==
    ASSUME TypeOK, OnePlace, NEW c \in Conns, NEW m \in tasks[c], Enqueue(c, m)
    PROVE  OnePlaceFor(c)'
<1>1. /\ tasks'[c] = tasks[c] \ {m} /\ queue'[c] = Append(queue[c], m)
      /\ hand'[c] = hand[c] /\ pc'[c] = pc[c]
      /\ queue[c] \in Seq(Message) /\ m \in Message
  BY DEF Enqueue, TypeOK
<1>2. OnePlaceFor(c) /\ m \notin Elems(queue[c]) /\ m \notin hand[c]
  BY DEF OnePlace, OnePlaceFor
<1>3. Distinct(queue'[c])
  BY <1>1, <1>2, DistinctAppend DEF OnePlaceFor
<1>4. Elems(queue'[c]) = Elems(queue[c]) \cup {m}
  BY <1>1, ElemsAppend
<1> QED
  BY <1>1, <1>2, <1>3, <1>4 DEF OnePlaceFor

(* Receiving moves it from the channel to the hand.                      *)
LEMMA OnePlaceRecv ==
    ASSUME TypeOK, OnePlace, NEW c \in Conns, Recv(c)
    PROVE  OnePlaceFor(c)'
<1>1. /\ tasks'[c] = tasks[c] /\ queue'[c] = Tail(queue[c])
      /\ hand'[c] = {Head(queue[c])}
      /\ queue[c] \in Seq(Message) /\ queue[c] # <<>>
  BY DEF Recv, TypeOK
<1>2. OnePlaceFor(c)
  BY DEF OnePlace
<1>3. Distinct(queue'[c]) /\ Head(queue[c]) \notin Elems(queue'[c])
  BY <1>1, <1>2, DistinctTail DEF OnePlaceFor
<1>4. Elems(queue[c]) = Elems(queue'[c]) \cup {Head(queue[c])}
  BY <1>1, ElemsTail
<1> QED
  BY <1>1, <1>2, <1>3, <1>4 DEF OnePlaceFor

(* Only receiving leads to writing.                                        *)
LEMMA WritesOne ==
    ASSUME TypeOK, [Next]_vars, NEW d \in Conns, ~Recv(d), pc'[d] = "write"
    PROVE  pc[d] = "write"
<1> SUFFICES ASSUME pc'[d] # pc[d] PROVE FALSE
  OBVIOUS
<1> USE DEF Goto, TypeOK
<1>1. OwnMove(d)
  BY OwnMoves
<1>2. CASE Join(d) \/ Reject(d) \/ Accept(d)
  BY <1>2 DEF Join, Insert, Announce, AnnounceFails, Reject, Accept
<1>3. CASE EndBroadcast(d) \/ WriteOk(d) \/ WriteFails(d) \/ ReadForwardAll(d)
           \/ ReadClose(d) \/ ReadError(d)
  BY <1>3 DEF EndBroadcast, WriteOk, WriteFails, ReadForwardAll, ReadClose, ReadError
<1>4. CASE Leave(d)
  BY <1>4 DEF Leave, Remove, Uncount, DropReceiver
<1> QED
  BY <1>1, <1>2, <1>3, <1>4 DEF OwnMove, Write

(* Every step keeps a request in one place.                              *)
LEMMA OnePlaceStep == TypeOK /\ HandInv /\ Fresh /\ OnePlace /\ [Next]_vars => OnePlace'
<1> SUFFICES ASSUME TypeOK, HandInv, Fresh, OnePlace, [Next]_vars, NEW d \in Conns
             PROVE  OnePlaceFor(d)'
  BY DEF OnePlace
<1> DEFINE Kept == /\ tasks'[d] \subseteq tasks[d]
                   /\ queue'[d] = queue[d] \/ queue'[d] = <<>>
                   /\ hand'[d] = hand[d] \/ (hand'[d] = {} /\ pc'[d] # "write")
<1>0. ASSUME Kept, ~Recv(d) PROVE OnePlaceFor(d)'
  BY <1>0, WritesOne, OnePlaceFrame DEF OnePlace
<1>1. ASSUME NEW c \in Conns, SendForward(c) PROVE OnePlaceFor(d)'
  <2>1. PICK p \in ids[c] : SendToPeer(p, BroadcastMsg(c, p))
    BY <1>1 DEF SendForward
  <2>2. /\ p \in Peers /\ ~Has(d, BroadcastMsg(c, p))
        /\ UNCHANGED <<pc, queue, hand, delivered>>
    BY <1>1, <2>1, SendsAreFresh DEF SendForward, TypeOK
  <2> QED
    BY <2>1, <2>2, OnePlaceSend
<1>2. ASSUME NEW c \in Conns, ReadForwardSingle(c) PROVE OnePlaceFor(d)'
  <2>1. PICK from \in Peers, to \in Peers :
          SendToPeer(to, [by |-> c, seq |-> received[c] + 1, from |-> from, to |-> to])
    BY <1>2 DEF ReadForwardSingle
  <2>2. UNCHANGED <<pc, queue, hand, delivered>>
    BY <1>2 DEF ReadForwardSingle
  <2> QED
    BY <2>1, <2>2, SendsAreFresh, OnePlaceSend
<1>3. ASSUME NEW c \in Conns, NEW m \in tasks[c], Enqueue(c, m) PROVE OnePlaceFor(d)'
  <2>1. CASE d = c
    BY <1>3, <2>1, OnePlaceEnqueue
  <2>2. CASE d # c
    <3>1. Kept /\ pc'[d] = pc[d]
      BY <1>3, <2>2 DEF Enqueue, TypeOK
    <3> QED
      BY <3>1, OnePlaceFrame DEF OnePlace
  <2> QED
    BY <2>1, <2>2
<1>4. ASSUME NEW c \in Conns, Recv(c) PROVE OnePlaceFor(d)'
  <2>1. CASE d = c
    BY <1>4, <2>1, OnePlaceRecv
  <2>2. CASE d # c
    <3>1. Kept /\ pc'[d] = pc[d]
      BY <1>4, <2>2 DEF Recv, Goto, TypeOK
    <3> QED
      BY <3>1, OnePlaceFrame DEF OnePlace
  <2> QED
    BY <2>1, <2>2
<1>5. CASE UNCHANGED mail /\ ~Recv(d)
  BY <1>0, <1>5 DEF mail
<1>6. ASSUME NEW c \in Conns, WriteOk(c) \/ WriteFails(c), ~Recv(d) PROVE OnePlaceFor(d)'
  <2>1. Kept
    BY <1>6 DEF WriteOk, WriteFails, Goto, TypeOK
  <2> QED
    BY <1>0, <1>6, <2>1
<1>7. ASSUME NEW c \in Conns, DropReceiver(c), ~Recv(d) PROVE OnePlaceFor(d)'
  <2>1. Kept
    BY <1>7 DEF DropReceiver, TypeOK
  <2> QED
    BY <1>0, <1>7, <2>1
<1>8. ASSUME NEW c \in Conns, NEW m \in tasks[c], SendFails(c, m), ~Recv(d)
      PROVE  OnePlaceFor(d)'
  <2>1. Kept
    BY <1>8 DEF SendFails, TypeOK
  <2> QED
    BY <1>0, <1>8, <2>1
<1>9. ASSUME NEW c \in Conns, Join(c) \/ Scan(c) \/ EndBroadcast(c) \/ Remove(c) \/ Uncount(c)
      PROVE  UNCHANGED mail
  BY <1>9 DEF Join, Insert, Announce, AnnounceFails, Scan, EndBroadcast, Remove, Uncount
<1>10. ASSUME NEW c \in Conns, Client(c), ~ReadForwardSingle(c) PROVE UNCHANGED mail
  BY <1>10 DEF Client, Reject, Accept, Read, ReadOther, ReadForwardAll, ReadClose, ReadError,
               Stall, Vanish
<1>11. UNCHANGED vars => UNCHANGED mail
  BY DEF vars
<1> QED
  BY <1>1, <1>2, <1>3, <1>4, <1>5, <1>6, <1>7, <1>8, <1>9, <1>10, <1>11
     DEF Next, Run, Cast, Write, Leave, SendTask, Client, Read

-----------------------------------------------------------------------------
(* The refinement. Mailbox's variables are open, pending and done; a step  *)
(* of the server is seen through what it does to each.                     *)
OpenMap    == [c \in Conns |-> Open(c)]
PendingMap == [c \in Conns |-> IF Open(c) THEN Pending(c) ELSE {}]

(* The initial states map to the initial state of Mailbox.               *)
LEMMA MailInit == TypeOK /\ Init => Mail!Init
<1> SUFFICES ASSUME TypeOK, Init PROVE Mail!Init
  OBVIOUS
<1>1. ASSUME NEW c \in Conns PROVE Open(c) = TRUE /\ Pending(c) = {}
  <2>1. pc[c] = "new" /\ tasks[c] = {} /\ hand[c] = {} /\ Elems(queue[c]) = {}
    BY DEF Init, Elems
  <2> QED
    BY <2>1 DEF Open, Pending
<1>2. OpenMap = [c \in Conns |-> TRUE]
  BY <1>1 DEF OpenMap
<1>3. PendingMap = [c \in Conns |-> {}]
  BY <1>1 DEF PendingMap
<1>4. delivered = [c \in Conns |-> {}]
  BY DEF Init
<1> QED
  BY <1>2, <1>3, <1>4 DEF Mail!Init, OpenMap, PendingMap

(* Steps that leave every open connection's mail alone.                    *)
LEMMA MailStutter ==
    ASSUME \A d \in Conns : Open(d)' = Open(d),
           \A d \in Conns : Open(d) => Pending(d)' = Pending(d),
           delivered' = delivered
    PROVE  UNCHANGED Mail!vars
<1>1. OpenMap' = OpenMap
  BY DEF OpenMap
<1>2. PendingMap' = PendingMap
  BY DEF PendingMap
<1> QED
  BY <1>1, <1>2 DEF Mail!vars, OpenMap, PendingMap

(* Something new sent to an open connection.                               *)
LEMMA MailPost ==
    ASSUME NEW c \in Conns, NEW m \in Message, Open(c), ~Has(c, m),
           \A d \in Conns : Open(d)' = Open(d),
           Pending(c)' = Pending(c) \cup {m},
           \A d \in Conns : d # c => Pending(d)' = Pending(d),
           delivered' = delivered
    PROVE  Mail!Next
<1>1. OpenMap' = OpenMap
  BY DEF OpenMap
<1>2. PendingMap' = [PendingMap EXCEPT ![c] = @ \cup {m}]
  BY DEF PendingMap
<1>3. OpenMap[c] /\ m \notin PendingMap[c] \cup delivered[c]
  BY DEF OpenMap, PendingMap, Has
<1>4. Mail!Post(c, m)
  BY <1>1, <1>2, <1>3 DEF Mail!Post, OpenMap, PendingMap
<1> QED
  BY <1>4 DEF Mail!Next

(* A connection that stops being served.                                   *)
LEMMA MailClose ==
    ASSUME TypeOK, NEW c \in Conns, Open(c), Open(c)' = FALSE,
           \A d \in Conns : d # c => Open(d)' = Open(d) /\ Pending(d)' = Pending(d),
           delivered' = delivered
    PROVE  Mail!Next
<1>1. OpenMap' = [OpenMap EXCEPT ![c] = FALSE]
  BY DEF OpenMap
<1>2. PendingMap' = [PendingMap EXCEPT ![c] = {}]
  BY DEF PendingMap
<1>3. OpenMap[c]
  BY DEF OpenMap
<1>4. Mail!Close(c)
  BY <1>1, <1>2, <1>3 DEF Mail!Close, OpenMap, PendingMap
<1> QED
  BY <1>4 DEF Mail!Next

(* A lookup and a spawned send.                                            *)
LEMMA MailSend ==
    ASSUME TypeOK, NEW p \in Peers, NEW m \in Message, SendToPeer(p, m),
           UNCHANGED <<pc, queue, hand, delivered>>, \A d \in Conns : ~Has(d, m)
    PROVE  [Mail!Next]_(Mail!vars)
<1>1. \A d \in Conns : Open(d)' = Open(d)
  BY DEF Open
<1>2. \A d \in Conns : Pending(d)' = IF peers[p] = d THEN Pending(d) \cup {m} ELSE Pending(d)
  BY SendToPeerMail
<1>3. CASE peers[p] \in Conns /\ Open(peers[p])
  <2>1. PICK c \in Conns : c = peers[p] /\ Open(c) /\ ~Has(c, m)
    BY <1>3
  <2>2. Pending(c)' = Pending(c) \cup {m} /\ \A d \in Conns : d # c => Pending(d)' = Pending(d)
    BY <1>2, <2>1
  <2>3. Mail!Next
    BY <1>1, <2>1, <2>2, MailPost
  <2> QED
    BY <2>3
<1>4. CASE ~(peers[p] \in Conns /\ Open(peers[p]))
  <2>1. \A d \in Conns : Open(d) => Pending(d)' = Pending(d)
    BY <1>2, <1>4
  <2> QED
    BY <1>1, <2>1, MailStutter
<1> QED
  BY <1>3, <1>4

(* A request written to the socket.                                        *)
LEMMA MailDeliver ==
    ASSUME TypeOK, OnePlace, NEW c \in Conns, WriteOk(c)
    PROVE  Mail!Next
<1>1. PICK m : hand[c] = {m}
  BY DEF WriteOk, OnePlace, OnePlaceFor
<1>2. /\ m \in Message /\ m \in Pending(c)
      /\ m \notin tasks[c] \cup Elems(queue[c])
  BY <1>1 DEF OnePlace, OnePlaceFor, TypeOK, Pending
<1>3. Pending(c)' = Pending(c) \ {m}
  BY <1>1, <1>2, WriteOkMail DEF Pending
<1>4. Open(c) /\ \A d \in Conns : Open(d)' = Open(d)
  BY DEF WriteOk, Goto, Open, TypeOK
<1>5. OpenMap' = OpenMap /\ OpenMap[c]
  BY <1>4 DEF OpenMap
<1>6. PendingMap' = [PendingMap EXCEPT ![c] = @ \ {m}] /\ m \in PendingMap[c]
  BY <1>2, <1>3, <1>4, WriteOkMail DEF PendingMap
<1>7. delivered' = [delivered EXCEPT ![c] = @ \cup {m}]
  BY <1>1 DEF WriteOk
<1>8. Mail!Deliver(c, m)
  BY <1>5, <1>6, <1>7 DEF Mail!Deliver, OpenMap, PendingMap
<1> QED
  BY <1>2, <1>8 DEF Mail!Next

(* A connection that moves within the part of its life in which it is      *)
(* open, or within the part in which it is not, is no change for Mailbox.  *)
LEMMA OpenGoto ==
    ASSUME TypeOK, NEW c \in Conns, NEW l \in Label, Goto(c, l),
           Open(c) <=> l \notin {"remove", "uncount", "drop", "closed"}
    PROVE  \A d \in Conns : Open(d)' = Open(d)
<1>1. ASSUME NEW d \in Conns PROVE Open(d)' <=> Open(d)
  BY DEF Goto, Open, TypeOK
<1>2. ASSUME NEW d \in Conns PROVE Open(d) \in BOOLEAN /\ Open(d)' \in BOOLEAN
  BY DEF Open
<1> QED
  BY <1>1, <1>2

(* A connection that leaves the select loop closes its mailbox.          *)
LEMMA CloseGoto ==
    ASSUME TypeOK, NEW c \in Conns, NEW l \in {"remove", "closed"}, Goto(c, l), Open(c),
           UNCHANGED <<tasks, queue>>, \A d \in Conns : d # c => hand'[d] = hand[d],
           delivered' = delivered
    PROVE  Mail!Next
<1>1. Open(c)' = FALSE
  BY DEF Goto, Open, TypeOK
<1>2. ASSUME NEW d \in Conns, d # c
      PROVE  Open(d)' = Open(d) /\ Pending(d)' = Pending(d)
  <2>1. pc'[d] = pc[d]
    BY <1>2 DEF Goto, TypeOK
  <2> QED
    BY <1>2, <2>1 DEF Open, Pending
<1> QED
  BY <1>1, <1>2, MailClose

(* Every step of the server is a step of Mailbox or none.                *)
LEMMA StepRefines ==
    TypeOK /\ HandInv /\ Fresh /\ OnePlace /\ [Next]_vars => [Mail!Next]_(Mail!vars)
<1> SUFFICES ASSUME TypeOK, HandInv, Fresh, OnePlace, [Next]_vars
             PROVE  [Mail!Next]_(Mail!vars)
  OBVIOUS
<1>m. ASSUME UNCHANGED mail PROVE \A d \in Conns : Pending(d)' = Pending(d)
  BY <1>m DEF mail, Pending
<1>0. ASSUME UNCHANGED mail, UNCHANGED pc PROVE [Mail!Next]_(Mail!vars)
  <2>1. \A d \in Conns : Open(d)' = Open(d)
    BY <1>0 DEF Open
  <2> QED
    BY <1>0, <1>m, <2>1, MailStutter DEF mail
<1>1. ASSUME NEW c \in Conns, NEW l \in Label, Goto(c, l), UNCHANGED mail,
             Open(c) <=> l \notin {"remove", "uncount", "drop", "closed"}
      PROVE  [Mail!Next]_(Mail!vars)
  <2>1. \A d \in Conns : Open(d)' = Open(d)
    BY <1>1, OpenGoto
  <2> QED
    BY <1>1, <1>m, <2>1, MailStutter DEF mail
<1>2. ASSUME NEW c \in Conns, Join(c) \/ EndBroadcast(c) \/ Accept(c) \/ ReadForwardAll(c)
      PROVE  [Mail!Next]_(Mail!vars)
  <2>1. PICK l \in {"insert", "count", "broadcast", "loop"} : Goto(c, l)
    BY <1>2 DEF Join, Insert, Announce, AnnounceFails, EndBroadcast, Accept, ReadForwardAll
  <2>2. Open(c) /\ UNCHANGED mail
    BY <1>2 DEF Join, Insert, Announce, AnnounceFails, EndBroadcast, Accept, ReadForwardAll,
                Frame, Open
  <2> QED
    BY <1>1, <2>1, <2>2 DEF Label
<1>3. ASSUME NEW c \in Conns, Remove(c) \/ Uncount(c) PROVE [Mail!Next]_(Mail!vars)
  <2>1. PICK l \in {"uncount", "drop"} : Goto(c, l)
    BY <1>3 DEF Remove, Uncount
  <2>2. ~Open(c) /\ UNCHANGED mail
    BY <1>3 DEF Remove, Uncount, Open
  <2> QED
    BY <1>1, <2>1, <2>2 DEF Label
<1>4. ASSUME NEW c \in Conns, Scan(c) \/ ReadOther(c) \/ Stall(c) \/ Vanish(c)
      PROVE  UNCHANGED mail /\ UNCHANGED pc
  BY <1>4 DEF Scan, ReadOther, Stall, Vanish
<1>5. ASSUME NEW c \in Conns, SendForward(c) PROVE [Mail!Next]_(Mail!vars)
  <2>1. PICK p \in ids[c] : SendToPeer(p, BroadcastMsg(c, p))
    BY <1>5 DEF SendForward
  <2>2. p \in Peers /\ BroadcastMsg(c, p) \in Message
    BY BroadcastMsgType DEF TypeOK
  <2>3. /\ \A d \in Conns : ~Has(d, BroadcastMsg(c, p))
        /\ UNCHANGED <<pc, queue, hand, delivered>>
    BY <1>5, <2>2, SendsAreFresh DEF SendForward
  <2> QED
    BY <2>1, <2>2, <2>3, MailSend
<1>6. ASSUME NEW c \in Conns, ReadForwardSingle(c) PROVE [Mail!Next]_(Mail!vars)
  <2>1. PICK from \in Peers, to \in Peers :
          SendToPeer(to, [by |-> c, seq |-> received[c] + 1, from |-> from, to |-> to])
    BY <1>6 DEF ReadForwardSingle
  <2> DEFINE m == [by |-> c, seq |-> received[c] + 1, from |-> from, to |-> to]
  <2>2. m \in Message
    BY <1>6 DEF ReadForwardSingle, Frame, TypeOK, Message
  <2>3. (\A d \in Conns : ~Has(d, m)) /\ UNCHANGED <<pc, queue, hand, delivered>>
    BY <1>6, SendsAreFresh DEF ReadForwardSingle
  <2> QED
    BY <2>1, <2>2, <2>3, MailSend
<1>7. ASSUME NEW c \in Conns, NEW m \in tasks[c], Enqueue(c, m)
      PROVE  [Mail!Next]_(Mail!vars)
  <2>1. \A d \in Conns : Open(d)' = Open(d)
    BY <1>7 DEF Enqueue, Open
  <2>2. \A d \in Conns : Pending(d)' = Pending(d)
    BY <1>7, EnqueueMail
  <2> QED
    BY <1>7, <2>1, <2>2, MailStutter DEF Enqueue
<1>8. ASSUME NEW c \in Conns, NEW m \in tasks[c], SendFails(c, m)
      PROVE  [Mail!Next]_(Mail!vars)
  <2>1. ~Open(c) /\ \A d \in Conns : Open(d)' = Open(d)
    BY <1>8 DEF SendFails, Open
  <2>2. \A d \in Conns : d # c => Pending(d)' = Pending(d)
    BY <1>8 DEF SendFails, Pending, TypeOK
  <2> QED
    BY <1>8, <2>1, <2>2, MailStutter DEF SendFails
<1>9. ASSUME NEW c \in Conns, Recv(c) PROVE [Mail!Next]_(Mail!vars)
  <2>1. \A d \in Conns : Open(d)' = Open(d)
    BY <1>9, OpenGoto DEF Recv, Open, Label
  <2>2. \A d \in Conns : Pending(d)' = Pending(d)
    BY <1>9, RecvMail
  <2> QED
    BY <1>9, <2>1, <2>2, MailStutter DEF Recv
<1>10. ASSUME NEW c \in Conns, WriteOk(c) PROVE [Mail!Next]_(Mail!vars)
  BY <1>10, MailDeliver
<1>11. ASSUME NEW c \in Conns, WriteFails(c) \/ ReadClose(c) \/ ReadError(c) \/ Reject(c)
       PROVE  [Mail!Next]_(Mail!vars)
  <2>1. PICK l \in {"remove", "closed"} : Goto(c, l)
    BY <1>11 DEF WriteFails, ReadClose, ReadError, Reject
  <2>2. /\ Open(c) /\ UNCHANGED <<tasks, queue, delivered>>
        /\ \A d \in Conns : d # c => hand'[d] = hand[d]
    BY <1>11 DEF WriteFails, ReadClose, ReadError, Reject, Frame, Open, mail, TypeOK
  <2> QED
    BY <2>1, <2>2, CloseGoto
<1>12. ASSUME NEW c \in Conns, DropReceiver(c) PROVE [Mail!Next]_(Mail!vars)
  <2>1. ~Open(c) /\ \A d \in Conns : Open(d)' = Open(d)
    BY <1>12, OpenGoto DEF DropReceiver, Open, Label
  <2>2. \A d \in Conns : d # c => Pending(d)' = Pending(d)
    BY <1>12 DEF DropReceiver, Pending, TypeOK
  <2> QED
    BY <1>12, <2>1, <2>2, MailStutter DEF DropReceiver
<1>13. CASE UNCHANGED vars
  BY <1>0, <1>13 DEF vars
<1> QED
  BY <1>0, <1>2, <1>3, <1>4, <1>5, <1>6, <1>7, <1>8, <1>9, <1>10, <1>11, <1>12, <1>13
     DEF Next, Run, Cast, Write, Leave, SendTask, Client, Read

(* Sent requests are kept until they are written or the connection closes, *)
(* and written at most once: AppState::send_to_peer, the channel behind    *)
(* PeerHandler and the loop of process_ws implement Mailbox.               *)
THEOREM ServerImplementsMailbox == Spec => ImplementsMailbox
<1> DEFINE I == TypeOK /\ HandInv /\ Fresh /\ OnePlace
<1>1. Init => I /\ Mail!Init
  BY InitType, HandInit, FreshInit, OnePlaceInit, MailInit
<1>2. I /\ [Next]_vars => I'
  BY TypeStep, HandStep, FreshStep, OnePlaceStep
<1>3. I /\ [Next]_vars => [Mail!Next]_(Mail!vars)
  BY StepRefines
<1> HIDE DEF I
<1> QED
  BY <1>1, <1>2, <1>3, PTL DEF Spec, ImplementsMailbox, Mail!Spec
=============================================================================
