------------------------- MODULE WtConnectionProofs -------------------------
(***************************************************************************)
(* Proofs about WtConnection: its addresses, for all that may be listened  *)
(* on and all interfaces, and its stream, for every number of bytes and    *)
(* every limit of one receive.                                             *)
(***************************************************************************)
EXTENDS WtConnection, SequenceTheorems, TLAPS

USE BoundsAssumption

-----------------------------------------------------------------------------
(* The inductive invariant. What was received is what the reader got and   *)
(* then the leftover, byte by byte; what was written is what the writer    *)
(* offered and no short write left out; the end is told when all is read.  *)
StreamTypes ==
    /\ offered \in Nat /\ written \in Seq(Nat) /\ finished \in BOOLEAN /\ left \subseteq 1..offered
    /\ received \in 0..Len(written) /\ got \in Seq(Nat) /\ read_buf \in Seq(Nat)
    /\ eof \in BOOLEAN /\ sizes \subseteq Nat

ReadPart ==
    /\ Len(got) + Len(read_buf) = received
    /\ \A i \in 1..Len(got) : got[i] = written[i]
    /\ \A i \in 1..Len(read_buf) : read_buf[i] = written[Len(got) + i]

Taken == (1..offered) \ left

WrittenPart ==
    /\ \A i \in 1..Len(written) : written[i] \in Taken
    /\ \A k \in Taken : \E i \in 1..Len(written) : written[i] = k
    /\ \A i \in 1..Len(written), j \in 1..Len(written) : i < j => written[i] < written[j]

EndPart ==
    eof => finished /\ received = Len(written) /\ read_buf = <<>>

(* A leftover stays only in a buffer shorter than a receive; poll_read     *)
(* panics only in one longer than a byte.                                  *)
BufferPart ==
    /\ read_buf # <<>> => \E len \in sizes : len < MaxChunk
    /\ panicked => /\ \E len \in sizes : len < MaxChunk
                   /\ \E len \in sizes : len > 1

Inv == StreamTypes /\ ReadPart /\ WrittenPart /\ EndPart /\ BufferPart

-----------------------------------------------------------------------------
(* Cutting bytes in two.                                                   *)
LEMMA Cut ==
    ASSUME NEW b \in Seq(Nat), NEW len \in 0..Len(b)
    PROVE  /\ SubSeq(b, 1, len) \in Seq(Nat) /\ Len(SubSeq(b, 1, len)) = len
           /\ \A i \in 1..len : SubSeq(b, 1, len)[i] = b[i]
           /\ SubSeq(b, len + 1, Len(b)) \in Seq(Nat)
           /\ Len(SubSeq(b, len + 1, Len(b))) = Len(b) - len
           /\ \A i \in 1..(Len(b) - len) : SubSeq(b, len + 1, Len(b))[i] = b[len + i]
<1>1. Len(b) \in Nat /\ len \in Nat
  BY LenProperties
<1>2. \A i \in 1..Len(b) : b[i] \in Nat
  BY ElementOfSeq
<1>3. /\ SubSeq(b, 1, len) \in Seq(Nat)
      /\ Len(SubSeq(b, 1, len)) = IF 1 <= len THEN len - 1 + 1 ELSE 0
      /\ \A i \in 1..(len - 1 + 1) : SubSeq(b, 1, len)[i] = b[1 + i - 1]
  BY <1>1, <1>2, SubSeqProperties
<1>4. /\ SubSeq(b, len + 1, Len(b)) \in Seq(Nat)
      /\ Len(SubSeq(b, len + 1, Len(b)))
             = IF len + 1 <= Len(b) THEN Len(b) - (len + 1) + 1 ELSE 0
      /\ \A i \in 1..(Len(b) - (len + 1) + 1) :
             SubSeq(b, len + 1, Len(b))[i] = b[(len + 1) + i - 1]
  BY <1>1, <1>2, SubSeqProperties
<1>5. \A i \in 1..len : SubSeq(b, 1, len)[i] = b[i]
  BY <1>1, <1>3
<1>6. \A i \in 1..(Len(b) - len) : SubSeq(b, len + 1, Len(b))[i] = b[len + i]
  <2> SUFFICES ASSUME NEW i \in 1..(Len(b) - len)
               PROVE  SubSeq(b, len + 1, Len(b))[i] = b[len + i]
    OBVIOUS
  <2>1. i \in 1..(Len(b) - (len + 1) + 1) /\ (len + 1) + i - 1 = len + i
    BY <1>1
  <2> QED BY <1>4, <2>1
<1> QED BY <1>1, <1>3, <1>4, <1>5, <1>6

(* A concatenation, index by index.                                        *)
LEMMA Joined ==
    ASSUME NEW a \in Seq(Nat), NEW b \in Seq(Nat)
    PROVE  /\ a \o b \in Seq(Nat) /\ Len(a \o b) = Len(a) + Len(b)
           /\ \A i \in 1..(Len(a) + Len(b)) :
                  (a \o b)[i] = IF i <= Len(a) THEN a[i] ELSE b[i - Len(a)]
BY ConcatProperties

(* Fill moves bytes that follow those the reader has: what it got and the  *)
(* leftover are then the same bytes, cut elsewhere.                        *)
LEMMA FillKeeps ==
    ASSUME NEW b \in Seq(Nat), NEW len \in 0..Len(b), Fill(b, len),
           got \in Seq(Nat), written' = written,
           \A i \in 1..Len(got) : got[i] = written[i],
           \A i \in 1..Len(b) : b[i] = written[Len(got) + i],
           Len(got) + Len(b) = received'
    PROVE  /\ got' \in Seq(Nat) /\ read_buf' \in Seq(Nat)
           /\ Len(read_buf') = Len(b) - len
           /\ ReadPart'
<1> DEFINE u == SubSeq(b, 1, len)
           v == SubSeq(b, len + 1, Len(b))
<1>1. Len(b) \in Nat /\ len \in Nat /\ Len(got) \in Nat
  BY LenProperties
<1>2. /\ u \in Seq(Nat) /\ Len(u) = len /\ \A i \in 1..len : u[i] = b[i]
      /\ v \in Seq(Nat) /\ Len(v) = Len(b) - len
      /\ \A i \in 1..(Len(b) - len) : v[i] = b[len + i]
  BY Cut
<1>3. got' = got \o u /\ read_buf' = v
  BY DEF Fill
<1> HIDE DEF u, v
<1>4. /\ got' \in Seq(Nat) /\ Len(got') = Len(got) + len
      /\ \A i \in 1..(Len(got) + len) :
             got'[i] = IF i <= Len(got) THEN got[i] ELSE u[i - Len(got)]
  <2>1. /\ got \o u \in Seq(Nat) /\ Len(got \o u) = Len(got) + Len(u)
        /\ \A i \in 1..(Len(got) + Len(u)) :
               (got \o u)[i] = IF i <= Len(got) THEN got[i] ELSE u[i - Len(got)]
    BY <1>2, Joined, Zenon
  <2>2. Len(u) = len
    BY <1>2
  <2>3. /\ got \o u \in Seq(Nat) /\ Len(got \o u) = Len(got) + len
        /\ \A i \in 1..(Len(got) + len) :
               (got \o u)[i] = IF i <= Len(got) THEN got[i] ELSE u[i - Len(got)]
    BY <2>1, <2>2, Zenon
  <2> QED BY <1>3, <2>3, Zenon
<1>5. \A i \in 1..Len(got') : got'[i] = written'[i]
  <2> SUFFICES ASSUME NEW i \in 1..Len(got') PROVE got'[i] = written[i]
    OBVIOUS
  <2>1. CASE i <= Len(got)
    <3>1. i \in 1..Len(got) /\ i \in 1..(Len(got) + len)
      BY <1>1, <1>4, <2>1
    <3>2. got'[i] = got[i]
      BY <1>4, <2>1, <3>1
    <3> QED BY <3>1, <3>2
  <2>2. CASE ~(i <= Len(got))
    <3>1. i - Len(got) \in 1..len /\ Len(got) + (i - Len(got)) = i
      BY <1>1, <1>4, <2>2
    <3>2. got'[i] = u[i - Len(got)] /\ i - Len(got) \in 1..Len(b)
      BY <1>1, <1>4, <2>2, <3>1
    <3>3. u[i - Len(got)] = b[i - Len(got)]
      BY <1>2, <3>1
    <3>4. b[i - Len(got)] = written[i]
      BY <3>1, <3>2
    <3> QED BY <3>2, <3>3, <3>4
  <2> QED BY <2>1, <2>2
<1>6. \A i \in 1..Len(read_buf') : read_buf'[i] = written'[Len(got') + i]
  <2> SUFFICES ASSUME NEW i \in 1..Len(v) PROVE v[i] = written[Len(got') + i]
    BY <1>3
  <2>1. len + i \in 1..Len(b) /\ Len(got) + (len + i) = Len(got') + i
    BY <1>1, <1>2, <1>4
  <2>2. v[i] = b[len + i]
    BY <1>2
  <2> QED BY <2>1, <2>2
<1>7. Len(got') + Len(read_buf') = received'
  <2>1. Len(got') = Len(got) + len /\ Len(read_buf') = Len(b) - len
    BY <1>2, <1>3, <1>4, Zenon
  <2>2. (Len(got) + len) + (Len(b) - len) = Len(got) + Len(b)
    BY <1>1
  <2> QED BY <2>1, <2>2
<1> QED BY <1>2, <1>3, <1>4, <1>5, <1>6, <1>7 DEF ReadPart

-----------------------------------------------------------------------------
LEMMA InvInit == Init => Inv
<1> SUFFICES ASSUME Init PROVE Inv
  OBVIOUS
<1>1. StreamTypes
  <2>1. <<>> \in Seq(Nat) /\ Len(<<>>) = 0
    BY EmptySeq
  <2>2. /\ written = <<>> /\ got = <<>> /\ read_buf = <<>> /\ sizes = {}
        /\ offered = 0 /\ received = 0 /\ left = {}
        /\ finished \in BOOLEAN /\ eof \in BOOLEAN
    BY DEF Init, StreamInit
  <2>3. received \in 0..Len(written)
    BY <2>1, <2>2
  <2> QED BY <2>1, <2>2, <2>3 DEF StreamTypes
<1>2. ReadPart /\ WrittenPart /\ EndPart /\ BufferPart
  BY DEF Init, StreamInit, ReadPart, WrittenPart, Taken, EndPart, BufferPart
<1> QED BY <1>1, <1>2 DEF Inv

LEMMA StreamAlone == Inv /\ UNCHANGED <<writing, reading>> => Inv'
BY DEF writing, reading, Inv, StreamTypes, ReadPart, WrittenPart, Taken, EndPart, BufferPart

(* poll_write: the QUIC stream takes the first n of len bytes.             *)
LEMMA WriteKeeps ==
    ASSUME Inv, NEW len \in 1..MaxBytes, NEW n \in 1..len, PollWrite(len, n)
    PROVE  Inv'
<1> DEFINE u == [i \in 1..n |-> offered + i]
<1>1. /\ offered \in Nat /\ written \in Seq(Nat) /\ Len(written) \in Nat /\ n \in Nat
      /\ received \in 0..Len(written) /\ len \in Nat /\ Len(got) \in Nat /\ Len(read_buf) \in Nat
  BY LenProperties DEF Inv, StreamTypes
<1>2. /\ UNCHANGED <<finished, reading>> /\ ~finished /\ offered' = offered + len
      /\ written' = written \o u
      /\ left' = left \cup (offered + n + 1)..(offered + len) /\ left \subseteq 1..offered
  BY DEF PollWrite, Inv, StreamTypes
<1>3. u \in Seq(Nat) /\ Len(u) = n /\ \A i \in 1..n : u[i] = offered + i
  BY <1>1
<1> HIDE DEF u
<1>4. /\ written' \in Seq(Nat) /\ Len(written') = Len(written) + n
      /\ \A i \in 1..(Len(written) + n) :
             written'[i] = IF i <= Len(written) THEN written[i] ELSE u[i - Len(written)]
  <2>1. /\ written \o u \in Seq(Nat) /\ Len(written \o u) = Len(written) + Len(u)
        /\ \A i \in 1..(Len(written) + Len(u)) :
               (written \o u)[i] = IF i <= Len(written) THEN written[i] ELSE u[i - Len(written)]
    BY <1>1, <1>3, Joined, Zenon
  <2>2. Len(u) = n
    BY <1>3
  <2>3. /\ written \o u \in Seq(Nat) /\ Len(written \o u) = Len(written) + n
        /\ \A i \in 1..(Len(written) + n) :
               (written \o u)[i] = IF i <= Len(written) THEN written[i] ELSE u[i - Len(written)]
    BY <2>1, <2>2, Zenon
  <2> QED BY <1>2, <2>3, Zenon
<1>5. StreamTypes'
  <2>1. left' \subseteq 1..offered'
    BY <1>1, <1>2
  <2>2. received \in 0..Len(written')
    BY <1>1, <1>4
  <2> QED BY <1>1, <1>2, <1>4, <2>1, <2>2 DEF Inv, StreamTypes, reading
<1>6. ReadPart'
  <2>1. /\ Len(got) + Len(read_buf) = received
        /\ \A i \in 1..Len(got) : got[i] = written[i]
        /\ \A i \in 1..Len(read_buf) : read_buf[i] = written[Len(got) + i]
    BY DEF Inv, ReadPart
  <2>2. \A i \in 1..Len(written) : written'[i] = written[i]
    <3> SUFFICES ASSUME NEW i \in 1..Len(written) PROVE written'[i] = written[i]
      OBVIOUS
    <3>1. i \in 1..(Len(written) + n) /\ i <= Len(written)
      BY <1>1
    <3> QED BY <1>4, <3>1
  <2>3. \A i \in 1..Len(got) : got[i] = written'[i]
    <3> SUFFICES ASSUME NEW i \in 1..Len(got) PROVE got[i] = written'[i]
      OBVIOUS
    <3>1. i \in 1..Len(written)
      BY <1>1, <2>1
    <3> QED BY <2>1, <2>2, <3>1
  <2>4. \A i \in 1..Len(read_buf) : read_buf[i] = written'[Len(got) + i]
    <3> SUFFICES ASSUME NEW i \in 1..Len(read_buf) PROVE read_buf[i] = written'[Len(got) + i]
      OBVIOUS
    <3>1. Len(got) + i \in 1..Len(written)
      BY <1>1, <2>1
    <3> QED BY <2>1, <2>2, <3>1
  <2> QED BY <1>2, <2>1, <2>3, <2>4 DEF ReadPart, reading
<1>7. WrittenPart'
  <2>1. /\ \A i \in 1..Len(written) : written[i] \in Taken
        /\ \A k \in Taken : \E i \in 1..Len(written) : written[i] = k
        /\ \A i \in 1..Len(written), j \in 1..Len(written) : i < j => written[i] < written[j]
    BY DEF Inv, WrittenPart
  <2>2. Taken' = Taken \cup (offered + 1)..(offered + n)
    BY <1>1, <1>2 DEF Taken
  <2>3. /\ \A i \in 1..Len(written) : i \in 1..(Len(written) + n) /\ written'[i] = written[i]
        /\ \A i \in 1..n : /\ Len(written) + i \in 1..(Len(written) + n)
                          /\ written'[Len(written) + i] = offered + i
    <3>1. ASSUME NEW i \in 1..Len(written)
          PROVE  i \in 1..(Len(written) + n) /\ written'[i] = written[i]
      <4>1. i \in 1..(Len(written) + n) /\ i <= Len(written)
        BY <1>1
      <4> QED BY <1>4, <4>1, Zenon
    <3>2. ASSUME NEW i \in 1..n
          PROVE  /\ Len(written) + i \in 1..(Len(written) + n)
                 /\ written'[Len(written) + i] = offered + i
      <4>1. /\ Len(written) + i \in 1..(Len(written) + n) /\ ~(Len(written) + i <= Len(written))
            /\ (Len(written) + i) - Len(written) = i
        BY <1>1
      <4>2. written'[Len(written) + i] = u[i]
        BY <1>4, <4>1
      <4> QED BY <1>3, <4>1, <4>2
    <3> QED BY <3>1, <3>2
  <2>4. \A i \in 1..(Len(written) + n) :
            i \in 1..Len(written) \/ \E k \in 1..n : i = Len(written) + k
    <3> SUFFICES ASSUME NEW i \in 1..(Len(written) + n), i \notin 1..Len(written)
                 PROVE  \E k \in 1..n : i = Len(written) + k
      OBVIOUS
    <3>1. i - Len(written) \in 1..n /\ i = Len(written) + (i - Len(written))
      BY <1>1
    <3> QED BY <3>1
  <2>5. ASSUME NEW i \in 1..(Len(written) + n) PROVE written'[i] \in Taken'
    <3>1. CASE i \in 1..Len(written)
      BY <2>1, <2>2, <2>3, <3>1
    <3>2. CASE \E k \in 1..n : i = Len(written) + k
      <4>1. PICK k \in 1..n : i = Len(written) + k
        BY <3>2
      <4>2. offered + k \in (offered + 1)..(offered + n)
        BY <1>1
      <4> QED BY <2>2, <2>3, <4>1, <4>2
    <3> QED BY <2>4, <3>1, <3>2
  <2>6. ASSUME NEW k \in Taken' PROVE \E i \in 1..(Len(written) + n) : written'[i] = k
    <3>1. CASE k \in Taken
      BY <2>1, <2>3, <3>1
    <3>2. CASE k \in (offered + 1)..(offered + n)
      <4>1. k - offered \in 1..n /\ offered + (k - offered) = k
        BY <1>1, <3>2
      <4> QED BY <2>3, <4>1
    <3> QED BY <2>2, <3>1, <3>2
  <2>7. ASSUME NEW i \in 1..(Len(written) + n), NEW j \in 1..(Len(written) + n), i < j
        PROVE  written'[i] < written'[j]
    <3>1. CASE i \in 1..Len(written) /\ j \in 1..Len(written)
      BY <2>1, <2>3, <2>7, <3>1
    <3>2. CASE i \in 1..Len(written) /\ j \notin 1..Len(written)
      <4>1. PICK k \in 1..n : j = Len(written) + k
        BY <2>4, <3>2
      <4>2. written'[i] \in Taken /\ written'[j] = offered + k
        BY <2>1, <2>3, <3>2, <4>1
      <4> QED BY <1>1, <4>2 DEF Taken
    <3>3. CASE i \notin 1..Len(written)
      <4>1. PICK k \in 1..n : i = Len(written) + k
        BY <2>4, <3>3
      <4>2. j \notin 1..Len(written)
        BY <1>1, <2>7, <4>1
      <4>3. PICK l \in 1..n : j = Len(written) + l
        BY <2>4, <4>2
      <4>4. written'[i] = offered + k /\ written'[j] = offered + l
        BY <2>3, <4>1, <4>3
      <4> QED BY <1>1, <2>7, <4>1, <4>3, <4>4
    <3> QED BY <3>1, <3>2, <3>3
  <2>8. Len(written') = Len(written) + n
    BY <1>4
  <2> QED BY <2>5, <2>6, <2>7, <2>8 DEF WrittenPart
<1>8. EndPart' /\ BufferPart'
  BY <1>2 DEF Inv, EndPart, BufferPart, reading
<1> QED BY <1>5, <1>6, <1>7, <1>8 DEF Inv

LEMMA CloseSendKeeps == ASSUME Inv, CloseSend PROVE Inv'
<1>1. UNCHANGED <<offered, written, left, reading>> /\ finished' = TRUE
  BY DEF CloseSend
<1> QED BY <1>1 DEF reading, Inv, StreamTypes, ReadPart, WrittenPart, Taken, EndPart, BufferPart

LEMMA LeftoverKeeps == ASSUME Inv, NEW len \in Sizes, PollReadLeftover(len) PROVE Inv'
<1>1. /\ len \in Nat /\ read_buf \in Seq(Nat) /\ got \in Seq(Nat) /\ sizes \subseteq Nat
      /\ Len(read_buf) \in Nat \ {0} /\ read_buf # <<>>
  BY EmptySeq DEF Inv, StreamTypes, Sizes, PollReadLeftover
<1>2. UNCHANGED <<writing, received, eof>> /\ sizes' = sizes \cup {len} /\ ~panicked
  BY DEF PollReadLeftover, CanRead
<1>3. ~eof /\ \E l \in sizes : l < MaxChunk
  BY <1>1 DEF Inv, EndPart, BufferPart
<1>4. WrittenPart' /\ EndPart'
  BY <1>2, <1>3 DEF Inv, WrittenPart, Taken, EndPart, writing
<1>5. CASE len > Len(read_buf)
  <2>1. panicked' = TRUE /\ UNCHANGED <<got, read_buf>>
    BY <1>5 DEF PollReadLeftover
  <2>2. StreamTypes' /\ ReadPart'
    BY <1>1, <1>2, <2>1 DEF Inv, StreamTypes, ReadPart, writing
  <2>3. len > 1
    BY <1>1, <1>5
  <2>4. BufferPart'
    BY <1>2, <1>3, <2>3 DEF BufferPart
  <2> QED BY <1>4, <2>2, <2>4 DEF Inv
<1>6. CASE ~(len > Len(read_buf))
  <2>1. Fill(read_buf, len) /\ panicked' = panicked /\ len \in 0..Len(read_buf)
    BY <1>1, <1>6 DEF PollReadLeftover
  <2>2. /\ Len(got) + Len(read_buf) = received' /\ written' = written
        /\ \A i \in 1..Len(got) : got[i] = written[i]
        /\ \A i \in 1..Len(read_buf) : read_buf[i] = written[Len(got) + i]
    BY <1>2 DEF Inv, ReadPart, writing
  <2>3. got' \in Seq(Nat) /\ read_buf' \in Seq(Nat) /\ ReadPart'
    BY <1>1, <2>1, <2>2, FillKeeps
  <2>4. StreamTypes'
    BY <1>1, <1>2, <2>3 DEF Inv, StreamTypes, writing
  <2>5. BufferPart'
    BY <1>2, <1>3, <2>1 DEF BufferPart
  <2> QED BY <1>4, <2>3, <2>4, <2>5 DEF Inv
<1> QED BY <1>5, <1>6

LEMMA ReadKeeps == ASSUME Inv, NEW len \in Sizes, PollRead(len) PROVE Inv'
<1>1. PICK n \in Receives :
        LET bytes == SubSeq(written, received + 1, received + n) IN
        received' = received + n /\ Fill(bytes, IF len < n THEN len ELSE n)
  BY DEF PollRead
<1>2. /\ len \in Nat /\ written \in Seq(Nat) /\ got \in Seq(Nat) /\ sizes \subseteq Nat
      /\ Len(written) \in Nat /\ received \in Nat /\ Len(got) \in Nat
      /\ read_buf = <<>> /\ ~panicked /\ received <= Len(written)
  BY LenProperties DEF Inv, StreamTypes, Sizes, PollRead, CanRead
<1>3. n \in Nat \ {0} /\ n <= Len(written) - received /\ n <= MaxChunk
  BY <1>2 DEF Receives
<1>4. /\ UNCHANGED <<writing, panicked, eof>> /\ sizes' = sizes \cup {len} /\ ~eof
      /\ received' = received + n
  BY <1>1, <1>2, <1>3 DEF PollRead, Inv, EndPart
<1> DEFINE b == SubSeq(written, received + 1, received + n)
           k == IF len < n THEN len ELSE n
<1>5. \A i \in (received + 1)..(received + n) : written[i] \in Nat
  BY <1>2, <1>3, ElementOfSeq
<1>6. /\ b \in Seq(Nat)
      /\ Len(b) = IF received + 1 <= received + n THEN (received + n) - (received + 1) + 1 ELSE 0
      /\ \A i \in 1..((received + n) - (received + 1) + 1) : b[i] = written[(received + 1) + i - 1]
  BY <1>2, <1>3, <1>5, SubSeqProperties
<1>7. Len(got) = received /\ \A i \in 1..Len(got) : got[i] = written[i]
  BY <1>2 DEF Inv, ReadPart
<1>8. Len(b) = n /\ \A i \in 1..n : b[i] = written[received + i]
  <2> HIDE DEF b
  <2>1. Len(b) = n
    BY <1>2, <1>3, <1>6
  <2>2. ASSUME NEW i \in 1..n PROVE b[i] = written[received + i]
    <3>1. i \in 1..((received + n) - (received + 1) + 1) /\ (received + 1) + i - 1 = received + i
      BY <1>2, <1>3
    <3> QED BY <1>6, <3>1
  <2> QED BY <2>1, <2>2
<1>9. Fill(b, k)
  BY <1>1
<1> HIDE DEF b
<1>10. k \in 0..Len(b)
  BY <1>2, <1>3, <1>8
<1>11. Len(got) + Len(b) = received' /\ written' = written
  BY <1>4, <1>7, <1>8 DEF writing
<1>12. /\ got' \in Seq(Nat) /\ read_buf' \in Seq(Nat) /\ Len(read_buf') = n - k
       /\ ReadPart'
  BY <1>2, <1>6, <1>7, <1>8, <1>9, <1>10, <1>11, FillKeeps
<1>13. StreamTypes'
  BY <1>2, <1>3, <1>4, <1>12 DEF Inv, StreamTypes, writing
<1>14. WrittenPart' /\ EndPart'
  BY <1>4 DEF Inv, WrittenPart, Taken, EndPart, writing
<1>15. BufferPart'
  <2>1. read_buf' # <<>> => len < n
    <3>1. read_buf' # <<>> => n - k # 0
      BY <1>12, EmptySeq
    <3> QED BY <1>2, <1>3, <3>1
  <2> QED BY <1>2, <1>3, <1>4, <2>1 DEF BufferPart
<1> QED BY <1>12, <1>13, <1>14, <1>15 DEF Inv

LEMMA EofKeeps == ASSUME Inv, NEW len \in Sizes, PollReadEof(len) PROVE Inv'
<1>1. /\ UNCHANGED <<writing, received, read_buf, panicked, got>> /\ len \in Nat
      /\ sizes' = sizes \cup {len} /\ eof' = (eof \/ len > 0)
      /\ finished /\ received = Len(written) /\ read_buf = <<>> /\ ~panicked
  BY DEF PollReadEof, CanRead, Sizes
<1>2. StreamTypes'
  BY <1>1 DEF Inv, StreamTypes, writing
<1>3. ReadPart' /\ WrittenPart' /\ EndPart' /\ BufferPart'
  BY <1>1 DEF Inv, ReadPart, WrittenPart, Taken, EndPart, BufferPart, writing
<1> QED BY <1>2, <1>3 DEF Inv

LEMMA InvNext == Inv /\ [Next]_vars => Inv'
<1> SUFFICES ASSUME Inv, [Next]_vars PROVE Inv'
  OBVIOUS
<1>1. CASE \/ \E ma \in Addresses : Listen(ma)
           \/ \E ip \in Interfaces : InterfaceUp(ip) \/ InterfaceDown(ip)
           \/ \E ma \in Addresses \cup reported : Dial(ma)
  <2>1. UNCHANGED <<writing, reading>>
    BY <1>1 DEF Listen, ListenOn, InterfaceUp, InterfaceDown, Dial, DialOn
  <2> QED BY <2>1, StreamAlone
<1>2. CASE \/ \E c \in Calls : (\E op \in Ops : Start(c, op)) \/ DropFuture(c)
           \/ Held \/ RemoteOpens \/ RemoteAllows \/ RemoteCloses
  <2>1. UNCHANGED <<writing, reading>>
    BY <1>2 DEF Start, DropFuture, Held, OpenStream, AcceptStream, CloseConnection,
                RemoteOpens, RemoteAllows, RemoteCloses, mutex
  <2> QED BY <2>1, StreamAlone
<1>3. CASE WriteSide
  BY <1>3, WriteKeeps DEF WriteSide
<1>4. CASE CloseSend \/ PollClose
  BY <1>4, CloseSendKeeps DEF PollClose
<1>5. CASE ReadSide
  BY <1>5, LeftoverKeeps, ReadKeeps, EofKeeps DEF ReadSide
<1>6. CASE UNCHANGED vars
  <2>1. UNCHANGED <<writing, reading>>
    BY <1>6 DEF vars
  <2> QED BY <2>1, StreamAlone
<1> QED BY <1>1, <1>2, <1>3, <1>4, <1>5, <1>6 DEF Next

LEMMA InvAlways == Spec => []Inv
BY InvInit, InvNext, PTL DEF Spec

-----------------------------------------------------------------------------
LEMMA InvIsReadInOrder == Inv => ReadInOrder
<1> SUFFICES ASSUME Inv PROVE got \o read_buf = SubSeq(written, 1, received)
  BY DEF ReadInOrder
<1>1. /\ got \in Seq(Nat) /\ read_buf \in Seq(Nat) /\ written \in Seq(Nat)
      /\ Len(got) \in Nat /\ Len(read_buf) \in Nat /\ received \in 0..Len(written)
  BY LenProperties DEF Inv, StreamTypes
<1>2. /\ SubSeq(written, 1, received) \in Seq(Nat) /\ Len(SubSeq(written, 1, received)) = received
      /\ \A i \in 1..received : SubSeq(written, 1, received)[i] = written[i]
  BY <1>1, Cut
<1>3. /\ got \o read_buf \in Seq(Nat) /\ Len(got \o read_buf) = received
      /\ \A i \in 1..received :
             (got \o read_buf)[i] = IF i <= Len(got) THEN got[i] ELSE read_buf[i - Len(got)]
  <2>1. received = Len(got) + Len(read_buf)
    BY DEF Inv, ReadPart
  <2> QED BY <1>1, <2>1, ConcatProperties
<1>4. ASSUME NEW i \in 1..received PROVE (got \o read_buf)[i] = written[i]
  <2>1. CASE i <= Len(got)
    <3>1. i \in 1..Len(got)
      BY <1>1, <2>1
    <3> QED BY <1>3, <2>1, <3>1 DEF Inv, ReadPart
  <2>2. CASE ~(i <= Len(got))
    <3>1. i - Len(got) \in 1..Len(read_buf) /\ Len(got) + (i - Len(got)) = i
      BY <1>1, <2>2 DEF Inv, ReadPart
    <3>2. (got \o read_buf)[i] = read_buf[i - Len(got)]
      BY <1>3, <2>2
    <3>3. read_buf[i - Len(got)] = written[Len(got) + (i - Len(got))]
      BY <3>1 DEF Inv, ReadPart
    <3> QED BY <3>1, <3>2, <3>3
  <2> QED BY <2>1, <2>2
<1> QED BY <1>2, <1>3, <1>4, SeqEqual

(* However poll_read's buffers cut up the stream, the reader gets each byte*)
(* the QUIC stream took once and in order: the leftover loses and doubles  *)
(* nothing.                                                                *)
THEOREM BytesInOrder == Spec => []ReadInOrder
BY InvAlways, InvIsReadInOrder, PTL

LEMMA InvIsEnd == Inv => EndMeansAll
<1> SUFFICES ASSUME Inv, eof
             PROVE  /\ Range(got) = Taken
                    /\ \A i \in 1..Len(got), j \in 1..Len(got) : i < j => got[i] < got[j]
  BY DEF EndMeansAll, Taken
<1>1. /\ received = Len(written) /\ read_buf = <<>> /\ got \in Seq(Nat) /\ written \in Seq(Nat)
      /\ Len(got) \in Nat
  BY LenProperties DEF Inv, EndPart, StreamTypes
<1>2. Len(got) = Len(written) /\ \A i \in 1..Len(got) : got[i] = written[i]
  BY <1>1 DEF Inv, ReadPart
<1>3. got = written
  BY <1>1, <1>2, SeqEqual
<1>4. Range(written) = {written[i] : i \in 1..Len(written)}
  BY <1>1 DEF Range
<1> QED BY <1>3, <1>4 DEF Inv, WrittenPart

(* A reader that is told the end has, in order and once, all that the      *)
(* writer was told is written but what short writes left out.              *)
THEOREM EndIsTheEnd == Spec => []EndMeansAll
BY InvAlways, InvIsEnd, PTL

(* poll_read does not panic for a reader whose buffers all hold a byte at  *)
(* most, or all hold a whole receive.                                      *)
THEOREM BuffersAreSafe == Spec => []SafeBuffers
<1>1. Inv => SafeBuffers
  BY DEF Inv, StreamTypes, BufferPart, SafeBuffers
<1> QED BY <1>1, InvAlways, PTL

-----------------------------------------------------------------------------
(* The addresses: each reported one is that of listen, read by             *)
(* extract_ip_port, or made up for an interface.                           *)
Given(ma) ==
    /\ ma \in Addresses
    /\ bind.ip = ma[LastOf(ma, Ip)]
    /\ ma[LastOf(ma, Port)].value # 0 => bind.port = ma[LastOf(ma, Port)].value

MadeUp(ma) ==
    bind.ip \in Unspecified /\ \E ip \in Interfaces : IsSame(bind.ip, ip) /\ ma = IpToListenAddr(ip)

AddressInv == \A ma \in reported : Given(ma) \/ MadeUp(ma)

LEMMA AddressNext == AddressInv /\ [Next]_vars => AddressInv'
<1> SUFFICES ASSUME AddressInv, [Next]_vars PROVE AddressInv'
  OBVIOUS
<1>1. CASE UNCHANGED <<bind, reported>>
  BY <1>1 DEF AddressInv, Given, MadeUp, IpToListenAddr
<1>2. ASSUME NEW ma \in Addresses, Listen(ma) PROVE AddressInv'
  <2>1. /\ bind' = IF ExtractIpPort(ma).port = 0 THEN [ExtractIpPort(ma) EXCEPT !.port = Ephemeral]
                   ELSE ExtractIpPort(ma)
        /\ reported' = {ma}
    BY <1>2 DEF Listen, ListenOn
  <2>2. Given(ma)'
    BY <2>1 DEF ExtractIpPort, Given
  <2> QED BY <2>1, <2>2 DEF AddressInv
<1>3. ASSUME NEW ip \in Interfaces, InterfaceUp(ip) \/ InterfaceDown(ip) PROVE AddressInv'
  <2>1. /\ bind' = bind /\ bind.ip \in Unspecified
        /\ \A ma \in reported' :
              ma \in reported \/ (ma = IpToListenAddr(ip) /\ IsSame(bind.ip, ip))
    BY <1>3 DEF InterfaceUp, InterfaceDown
  <2> QED BY <2>1 DEF AddressInv, Given, MadeUp, IpToListenAddr
<1>4. CASE \/ \E ma \in Addresses \cup reported : Dial(ma)
           \/ \E c \in Calls : (\E op \in Ops : Start(c, op)) \/ DropFuture(c)
           \/ Held \/ RemoteOpens \/ RemoteAllows \/ RemoteCloses
           \/ WriteSide \/ CloseSend \/ PollClose \/ ReadSide \/ UNCHANGED vars
  <2>1. UNCHANGED <<bind, reported>>
    BY <1>4 DEF Dial, DialOn, Start, DropFuture, Held, OpenStream, AcceptStream, CloseConnection,
                RemoteOpens, RemoteAllows, RemoteCloses, WriteSide, PollWrite, PollClose,
                CloseSend, ReadSide, PollReadLeftover, PollRead, PollReadEof, vars, address
  <2> QED BY <1>1, <2>1
<1> QED BY <1>2, <1>3, <1>4 DEF Next

(* The last of a kind that is there only once.                             *)
LEMMA LastOfOne ==
    ASSUME NEW ma, Len(ma) \in Nat, NEW kinds, NEW n \in 1..Len(ma), ma[n].kind \in kinds,
           \A i \in 1..Len(ma) : i # n => ma[i].kind \notin kinds
    PROVE  LastOf(ma, kinds) = n
<1>1. {i \in 1..Len(ma) : ma[i].kind \in kinds} = {n}
  OBVIOUS
<1>2. Max({n}) = n
  BY DEF Max
<1> QED BY <1>1, <1>2 DEF LastOf, SelectLastInSeq

(* What dial makes of an address of the node's form.                       *)
LEMMA PlainIsParsed ==
    ASSUME NEW ma, Plain(ma)
    PROVE  /\ MultiaddrToSocket(ma) = [ip |-> ma[1], port |-> ma[2].value]
           /\ MultiaddrToSocket(ma) # NoSocket
BY DEF Plain, MultiaddrToSocket, NoSocket, Ip

(* Dialling an address that the node made up for an interface, or one of   *)
(* its form and with a specified ip that it was given, leads to the socket *)
(* it listens on: the two parsers agree. The wildcard it was given is      *)
(* reported too and leads nowhere.                                         *)
THEOREM ReportedAddressesReach == Spec => []DialReachesListener
<1>1. Init => AddressInv
  BY DEF Init, AddressInv
<1>2. AddressInv => DialReachesListener
  <2> SUFFICES ASSUME AddressInv, NEW ma \in reported,
                      ma \notin Addresses \/ (Plain(ma) /\ ma[1] \notin Unspecified)
               PROVE  MultiaddrToSocket(ma) # NoSocket /\ Reaches(MultiaddrToSocket(ma))
    BY DEF DialReachesListener
  <2>1. CASE MadeUp(ma)
    <3>1. PICK ip \in Interfaces : IsSame(bind.ip, ip) /\ ma = IpToListenAddr(ip)
      BY <2>1 DEF MadeUp
    <3>2. bind.ip \in Unspecified /\ ip.kind \in Ip
      BY <2>1, <3>1, AddressAssumption DEF MadeUp, IsSame, Ip
    <3>3. /\ Len(ma) = 4 /\ ma[1] = ip /\ ma[2] = [kind |-> "udp", value |-> bind.port]
          /\ ma[4] = [kind |-> "webtransport"]
      BY <3>1 DEF IpToListenAddr
    <3>4. MultiaddrToSocket(ma) = [ip |-> ip, port |-> bind.port]
      BY <3>2, <3>3 DEF MultiaddrToSocket
    <3>5. [ip |-> ip, port |-> bind.port] # NoSocket
      BY <3>2 DEF NoSocket, Ip
    <3>6. ip \notin Unspecified
      BY AddressAssumption
    <3> QED BY <3>1, <3>2, <3>4, <3>5, <3>6 DEF Reaches
  <2>2. CASE Given(ma)
    <3>1. Plain(ma) /\ ma[1] \notin Unspecified /\ Len(ma) \in Nat
      BY <2>2, AddressAssumption DEF Given
    <3>2. 1 \in 1..Len(ma) /\ 2 \in 1..Len(ma)
      BY <3>1 DEF Plain
    <3>3. \A i \in 1..Len(ma) :
            /\ i # 1 => ma[i].kind \notin Ip
            /\ i # 2 => ma[i].kind \notin Port
      BY <3>1 DEF Plain, Ip, Port
    <3>4. LastOf(ma, Ip) = 1
      BY <3>1, <3>2, <3>3, LastOfOne DEF Plain
    <3>5. LastOf(ma, Port) = 2
      <4>1. ma[2].kind \in Port
        BY <3>1 DEF Plain, Port
      <4> QED BY <3>1, <3>2, <3>3, <4>1, LastOfOne
    <3>6. bind.ip = ma[1] /\ bind.port = ma[2].value
      BY <2>2, <3>1, <3>4, <3>5 DEF Given, Plain
    <3> QED BY <3>1, <3>6, PlainIsParsed DEF Reaches
  <2> QED BY <2>1, <2>2 DEF AddressInv
<1> QED BY <1>1, <1>2, AddressNext, PTL DEF Spec
=============================================================================
