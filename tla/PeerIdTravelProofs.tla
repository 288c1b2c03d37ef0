-------------------------- MODULE PeerIdTravelProofs --------------------------
(***************************************************************************)
(* Proofs about PeerIdTravel, for every capacity and every text, request,  *)
(* byte string and payload.                                                *)
(***************************************************************************)
EXTENDS PeerIdTravel, WellFoundedInduction, TLAPS

-----------------------------------------------------------------------------
(* Induction over the positions of a text.                                 *)
LEMMA Least == ASSUME NEW A \in SUBSET Nat, A # {} PROVE \E n \in A : \A m \in A : n <= m
<1> DEFINE R == OpToRel(<, Nat)
<1>1. IsWellFoundedOn(R, Nat)
  BY NatLessThanWellFounded
<1>2. \A x, y \in Nat : x < y => <<x, y>> \in R
  BY DEF OpToRel
<1> HIDE DEF R
<1>3. PICK n \in A : \A y \in A : ~ (<<y, n>> \in R)
  BY <1>1, WFMin
<1>4. SUFFICES \A m \in A : n <= m
  OBVIOUS
<1>5. TAKE m \in A
<1>6. n \in Nat /\ m \in Nat
  OBVIOUS
<1>7. ~(m < n)
  BY <1>2, <1>3, <1>6
<1> QED BY <1>6, <1>7

LEMMA Upto ==
    ASSUME NEW n \in Nat, NEW A, 0 \in A, \A i \in 1..n : i - 1 \in A => i \in A
    PROVE  0..n \subseteq A
<1> DEFINE B == 0..n \ A
<1>1. SUFFICES ASSUME B # {} PROVE FALSE
  OBVIOUS
<1>2. B \in SUBSET Nat
  OBVIOUS
<1>4. PICK i \in B : \A m \in B : i <= m
  <2> HIDE DEF B
  <2> QED BY <1>1, <1>2, Least
<1>3. i \in 1..n /\ i - 1 \in 0..n /\ i - 1 \notin B
  BY <1>4
<1> QED BY <1>3

-----------------------------------------------------------------------------
(* percent_decode. What it computes at a position, from what it computes   *)
(* further on; the characters it may come across; that it is a function.   *)
Outcomes == {Ok(s) : s \in Seq(Character)} \cup {Error("Decode")}

At(v, dec, i) ==
    IF i > Len(v) THEN Ok(<<>>)
    ELSE IF v[i] = Percent /\ ~Decodable(v, i) THEN Error("Decode")
    ELSE LET rest == dec[IF v[i] = Percent THEN i + 3 ELSE i + 1] IN
         IF rest.tag = "error" THEN rest
         ELSE Ok(<<IF v[i] = Percent THEN Escaped(v, i) ELSE v[i]>> \o rest.val)

LEMMA EscapedType ==
    ASSUME NEW v, NEW i
    PROVE  Escaped(v, i) \in HexChar \cup {NotHex}
<1>1. \A code : CharOf(code) \in HexChar \cup {NotHex}
  BY Zenon DEF CharOf
<1> QED BY <1>1 DEF Escaped

LEMMA NothingDecoded == Ok(<<>>) \in Outcomes
<1>1. <<>> \in Seq(Character)
  OBVIOUS
<1> QED BY <1>1 DEF Outcomes

LEMMA AtIs ==
    ASSUME NEW v \in Seq(Character), NEW i \in 1..Len(v) + 1, NEW dec,
           \A j \in i + 1..Len(v) + 1 : dec[j] \in Outcomes
    PROVE  At(v, dec, i) \in Outcomes
<1>1. Len(v) \in Nat /\ <<>> \in Seq(Character)
  OBVIOUS
<1>2. CASE i > Len(v)
  BY <1>1, <1>2 DEF At, Outcomes
<1>3. CASE i <= Len(v) /\ v[i] = Percent /\ ~Decodable(v, i)
  BY <1>1, <1>3 DEF At, Outcomes
<1>4. CASE i <= Len(v) /\ ~(v[i] = Percent /\ ~Decodable(v, i))
  <2> DEFINE j == IF v[i] = Percent THEN i + 3 ELSE i + 1
             ch == IF v[i] = Percent THEN Escaped(v, i) ELSE v[i]
  <2>1. j \in i + 1..Len(v) + 1
    BY <1>1, <1>4 DEF Decodable
  <2>2. ch \in Character
    <3>1. v[i] \in Character
      BY <1>4
    <3>2. HexChar \cup {NotHex} \subseteq Character
      BY DEF Character
    <3> QED BY <3>1, <3>2, EscapedType
  <2>3. At(v, dec, i) = IF dec[j].tag = "error" THEN dec[j] ELSE Ok(<<ch>> \o dec[j].val)
    BY <1>1, <1>4 DEF At
  <2> HIDE DEF j, ch
  <2>4. dec[j] \in Outcomes
    BY <2>1
  <2>5. CASE dec[j] = Error("Decode")
    BY <2>3, <2>5 DEF Error, Outcomes
  <2>6. ASSUME NEW s \in Seq(Character), dec[j] = Ok(s) PROVE At(v, dec, i) \in Outcomes
    <3>1. dec[j].tag = "ok" /\ dec[j].val = s
      BY <2>6 DEF Ok
    <3>2. <<ch>> \o s \in Seq(Character)
      BY <2>2, <2>6
    <3> QED BY <2>3, <3>1, <3>2 DEF Outcomes
  <2> QED BY <2>4, <2>5, <2>6 DEF Outcomes
<1> QED BY <1>1, <1>2, <1>3, <1>4

(* What it computes at a position depends on later positions alone.        *)
LEMMA AtLooksAhead ==
    ASSUME NEW v \in Seq(Character), NEW i \in 1..Len(v) + 1, NEW f, NEW g,
           \A j \in i + 1..Len(v) + 1 : f[j] = g[j]
    PROVE  At(v, f, i) = At(v, g, i)
<1>1. Len(v) \in Nat
  OBVIOUS
<1>2. CASE i > Len(v) \/ (v[i] = Percent /\ ~Decodable(v, i))
  BY <1>1, <1>2 DEF At
<1>3. CASE i <= Len(v) /\ ~(v[i] = Percent /\ ~Decodable(v, i))
  <2> DEFINE j == IF v[i] = Percent THEN i + 3 ELSE i + 1
  <2>1. j \in i + 1..Len(v) + 1
    BY <1>1, <1>3 DEF Decodable
  <2>2. f[j] = g[j]
    BY <2>1
  <2> QED BY <1>1, <1>3, <2>2 DEF At
<1> QED BY <1>1, <1>2, <1>3

Decodes(v, dec) == dec \in [1..Len(v) + 1 -> Outcomes] /\ \A i \in 1..Len(v) + 1 : dec[i] = At(v, dec, i)

LEMMA DecoderExists ==
    ASSUME NEW v \in Seq(Character)
    PROVE  \E dec : Decodes(v, dec)
<1> DEFINE n == Len(v)
           From(k, f) == /\ f \in [n + 1 - k..n + 1 -> Outcomes]
                         /\ \A i \in n + 1 - k..n + 1 : f[i] = At(v, f, i)
           A == {k \in 0..n : \E f : From(k, f)}
<1>0. n \in Nat
  OBVIOUS
<1>1. 0 \in A
  <2> DEFINE f == [i \in n + 1..n + 1 |-> Ok(<<>>)]
  <2>1. \A i \in n + 1..n + 1 : i = n + 1 /\ f[i] = Ok(<<>>) /\ At(v, f, i) = Ok(<<>>)
    BY <1>0 DEF At
  <2>2. Ok(<<>>) \in Outcomes
    BY NothingDecoded
  <2>3. f \in [n + 1..n + 1 -> Outcomes]
    BY <2>2
  <2> HIDE DEF f
  <2>4. From(0, f)
    BY <1>0, <2>1, <2>3
  <2> QED BY <1>0, <2>4
<1>2. ASSUME NEW k \in 1..n, k - 1 \in A PROVE k \in A
  <2>1. PICK f : From(k - 1, f)
    BY <1>2
  <2> DEFINE m == n + 1 - k
             g == [i \in m..n + 1 |-> IF i = m THEN At(v, f, m) ELSE f[i]]
  <2>2. m \in 1..n /\ n + 1 - (k - 1) = m + 1
    BY <1>0
  <2>3. f \in [m + 1..n + 1 -> Outcomes] /\ \A i \in m + 1..n + 1 : f[i] = At(v, f, i)
    BY <2>1, <2>2
  <2> HIDE DEF m
  <2>4. At(v, f, m) \in Outcomes
    <3>1. m \in 1..Len(v) + 1 /\ \A j \in m + 1..Len(v) + 1 : f[j] \in Outcomes
      BY <1>0, <2>2, <2>3
    <3> HIDE DEF n
    <3> QED BY <3>1, AtIs
  <2>5. g \in [m..n + 1 -> Outcomes]
    <3>1. \A i \in m..n + 1 : i = m \/ i \in m + 1..n + 1
      BY <1>0, <2>2
    <3> QED BY <2>3, <2>4, <3>1
  <2>6. g[m] = At(v, f, m) /\ \A i \in m + 1..n + 1 : g[i] = f[i]
    BY <1>0, <2>2
  <2> HIDE DEF g
  <2>7. \A i \in m..n + 1 : g[i] = At(v, g, i)
    <3> TAKE i \in m..n + 1
    <3>1. i \in 1..Len(v) + 1 /\ \A j \in i + 1..Len(v) + 1 : j \in m + 1..n + 1
      BY <1>0, <2>2
    <3>2. At(v, g, i) = At(v, f, i)
      BY <2>6, <3>1, AtLooksAhead
    <3>3. i = m \/ i \in m + 1..n + 1
      BY <1>0, <2>2
    <3> QED BY <2>3, <2>6, <3>2, <3>3
  <2>8. From(k, g)
    BY <2>5, <2>7 DEF m
  <2> QED BY <1>2, <2>8
<1>3. 0..n \subseteq A
  <2> HIDE DEF A
  <2> QED BY <1>0, <1>1, <1>2, Upto
<1>4. n \in A
  BY <1>0, <1>3
<1>5. PICK f : From(n, f)
  BY <1>4
<1>6. n + 1 - n = 1
  BY <1>0
<1> QED BY <1>5, <1>6 DEF Decodes

LEMMA DecoderIs ==
    ASSUME NEW v \in Seq(Character)
    PROVE  \E dec : Decodes(v, dec) /\ PercentDecode(v) = dec[1]
<1> DEFINE Is(dec) == dec = [i \in 1..Len(v) + 1 |-> At(v, dec, i)]
           chosen == CHOOSE dec : Is(dec)
<1>1. PercentDecode(v) = chosen[1]
  BY Zenon DEF PercentDecode, At
<1>2. PICK f : Decodes(v, f)
  BY DecoderExists
<1>3. Is(f)
  BY <1>2 DEF Decodes
<1>4. Is(chosen)
  <2> HIDE DEF Is
  <2> QED BY Zenon, <1>3
<1>5. PICK d : d = chosen
  OBVIOUS
<1>6. Is(d)
  BY <1>4, <1>5
<1> DEFINE n == Len(v)
           A == {k \in 0..n : \A i \in n + 1 - k..n + 1 : d[i] \in Outcomes}
<1>7. n \in Nat /\ \A i \in 1..n + 1 : d[i] = At(v, d, i)
  BY <1>6
<1> HIDE DEF Is
<1>8. 0 \in A
  <2>1. d[n + 1] = Ok(<<>>)
    <3>1. n + 1 \in 1..n + 1 /\ n + 1 > Len(v)
      BY <1>7
    <3>2. At(v, d, n + 1) = Ok(<<>>)
      BY <3>1 DEF At
    <3> QED BY <1>7, <3>1, <3>2
  <2>2. d[n + 1] \in Outcomes
    BY <2>1, NothingDecoded
  <2> QED BY <1>7, <2>2
<1>9. ASSUME NEW k \in 1..n, k - 1 \in A PROVE k \in A
  <2>1. n + 1 - k \in 1..n + 1 /\ n + 1 - (k - 1) = n + 1 - k + 1
    BY <1>7
  <2>2. \A i \in n + 1 - k + 1..n + 1 : d[i] \in Outcomes
    BY <1>9, <2>1
  <2>3. d[n + 1 - k] \in Outcomes
    BY <1>7, <2>1, <2>2, AtIs
  <2> QED BY <1>7, <2>1, <2>2, <2>3
<1>10. 0..n \subseteq A
  <2> HIDE DEF A
  <2> QED BY <1>7, <1>8, <1>9, Upto
<1>11. \A i \in 1..n + 1 : d[i] \in Outcomes
  <2>1. n \in A /\ n + 1 - n = 1
    BY <1>7, <1>10
  <2> QED BY <2>1
<1>12. d \in [1..n + 1 -> Outcomes]
  BY <1>6, <1>11 DEF Is
<1> QED BY <1>1, <1>5, <1>7, <1>12 DEF Decodes

LEMMA PercentDecodeType ==
    ASSUME NEW v \in Seq(Character)
    PROVE  PercentDecode(v) \in Outcomes
<1>1. PICK dec : Decodes(v, dec) /\ PercentDecode(v) = dec[1]
  BY DecoderIs
<1>2. 1 \in 1..Len(v) + 1
  OBVIOUS
<1> QED BY <1>1, <1>2 DEF Decodes

-----------------------------------------------------------------------------
(* A query value v stands for the text t if each character of t begins at  *)
(* some position p of v, where it stands as it is or is escaped.           *)
Encoding(v, t, p) ==
    /\ p[1] = 1 /\ p[Len(t) + 1] = Len(v) + 1
    /\ \A i, j \in 1..Len(t) + 1 : i < j => p[i] < p[j]
    /\ \A j \in 1..Len(t) :
        \/ v[p[j]] = t[j] /\ p[j + 1] = p[j] + 1
        \/ v[p[j]] = Percent /\ Decodable(v, p[j]) /\ Escaped(v, p[j]) = t[j] /\ p[j + 1] = p[j] + 3

Encodes(v, t) == \E p \in [1..Len(t) + 1 -> 1..Len(v) + 1] : Encoding(v, t, p)

LEMMA OkIs == \A x : Ok(x).tag = "ok" /\ Ok(x).val = x
BY DEF Ok

LEMMA NoPercent == \A ch \in HexChar : ch # Percent
BY DEF HexChar, Percent

(* What an encoding says, piece by piece.                                  *)
LEMMA EncodingEnds ==
    ASSUME NEW v, NEW t, NEW p, Encoding(v, t, p)
    PROVE  p[1] = 1 /\ p[Len(t) + 1] = Len(v) + 1
BY DEF Encoding

LEMMA EncodingRises ==
    ASSUME NEW v, NEW t, NEW p, Encoding(v, t, p)
    PROVE  \A i, j \in 1..Len(t) + 1 : i < j => p[i] < p[j]
BY DEF Encoding

LEMMA EncodingStep ==
    ASSUME NEW v, NEW t, NEW p, Encoding(v, t, p), NEW j \in 1..Len(t)
    PROVE  \/ v[p[j]] = t[j] /\ p[j + 1] = p[j] + 1
           \/ v[p[j]] = Percent /\ Decodable(v, p[j]) /\ Escaped(v, p[j]) = t[j] /\ p[j + 1] = p[j] + 3
BY DEF Encoding

LEMMA FrontOf ==
    ASSUME NEW S, NEW t \in Seq(S), NEW j \in 1..Len(t)
    PROVE  <<t[j]>> \o SubSeq(t, j + 1, Len(t)) = SubSeq(t, j, Len(t))
OBVIOUS

LEMMA EncodedDecodes ==
    ASSUME NEW v \in Seq(Character), NEW t \in Seq(HexChar), Encodes(v, t)
    PROVE  PercentDecode(v) = Ok(t)
<1>1. PICK dec : Decodes(v, dec) /\ PercentDecode(v) = dec[1]
  BY DecoderIs
<1>2. PICK p \in [1..Len(t) + 1 -> 1..Len(v) + 1] : Encoding(v, t, p)
  BY DEF Encodes
<1> DEFINE m == Len(t)
           A == {k \in 0..m : dec[p[m + 1 - k]] = Ok(SubSeq(t, m + 1 - k, m))}
<1>3. m \in Nat /\ Len(v) \in Nat
  OBVIOUS
<1>e. p[1] = 1 /\ p[m + 1] = Len(v) + 1
  BY <1>2, EncodingEnds
<1>r. \A i, j \in 1..m + 1 : i < j => p[i] < p[j]
  BY <1>2, EncodingRises
<1>4. \A i \in 1..Len(v) + 1 : dec[i] = At(v, dec, i)
  BY <1>1 DEF Decodes
<1>5. 0 \in A
  <2>1. p[m + 1] = Len(v) + 1 /\ Len(v) + 1 \in 1..Len(v) + 1 /\ Len(v) + 1 > Len(v)
    BY <1>e, <1>3
  <2>2. At(v, dec, Len(v) + 1) = Ok(<<>>)
    BY <2>1 DEF At
  <2>3. SubSeq(t, m + 1, m) = <<>>
    BY <1>3
  <2>4. dec[p[m + 1]] = Ok(SubSeq(t, m + 1, m))
    BY <1>4, <2>1, <2>2, <2>3
  <2> QED BY <1>3, <2>4
<1>6. ASSUME NEW k \in 1..m, k - 1 \in A PROVE k \in A
  <2>1. PICK j : j = m + 1 - k
    OBVIOUS
  <2>2. j \in 1..m /\ j + 1 = m + 1 - (k - 1) /\ j + 1 \in 1..m + 1 /\ j \in 1..m + 1
    BY <1>3, <2>1
  <2>3. dec[p[j + 1]] = Ok(SubSeq(t, j + 1, m))
    BY <1>6, <2>2
  <2>4. p[j] \in 1..Len(v) + 1 /\ p[j + 1] \in 1..Len(v) + 1 /\ p[j] < p[j + 1]
    <3>1. j < j + 1
      BY <2>2
    <3>2. p[j] < p[j + 1]
      <4> HIDE DEF m
      <4> QED BY <1>r, <2>2, <3>1
    <3> QED BY <2>2, <3>2
  <2>5. p[j] \in 1..Len(v)
    BY <1>3, <2>4
  <2>6. t[j] \in HexChar /\ t[j] # Percent
    BY <2>2, NoPercent
  <2>7. dec[p[j + 1]].tag = "ok" /\ dec[p[j + 1]].val = SubSeq(t, j + 1, m)
    BY <2>3, OkIs
  <2>8. At(v, dec, p[j]) = Ok(<<t[j]>> \o SubSeq(t, j + 1, m))
    <3>1. CASE v[p[j]] = t[j] /\ p[j + 1] = p[j] + 1
      <4>1. ~(p[j] > Len(v)) /\ v[p[j]] # Percent
        BY <1>3, <2>5, <2>6, <3>1
      <4>2. At(v, dec, p[j]) = LET rest == dec[p[j] + 1] IN
                               IF rest.tag = "error" THEN rest ELSE Ok(<<v[p[j]]>> \o rest.val)
        BY <4>1 DEF At
      <4>3. dec[p[j] + 1].tag = "ok" /\ dec[p[j] + 1].val = SubSeq(t, j + 1, m)
        BY <2>7, <3>1
      <4> QED BY <3>1, <4>2, <4>3
    <3>2. CASE v[p[j]] = Percent /\ Decodable(v, p[j]) /\ Escaped(v, p[j]) = t[j] /\ p[j + 1] = p[j] + 3
      <4>1. ~(p[j] > Len(v))
        BY <1>3, <2>5
      <4>2. At(v, dec, p[j]) = LET rest == dec[p[j] + 3] IN
                               IF rest.tag = "error" THEN rest ELSE Ok(<<Escaped(v, p[j])>> \o rest.val)
        BY <3>2, <4>1 DEF At
      <4>3. dec[p[j] + 3].tag = "ok" /\ dec[p[j] + 3].val = SubSeq(t, j + 1, m)
        BY <2>7, <3>2
      <4> QED BY <3>2, <4>2, <4>3
    <3> QED BY <1>2, <2>2, <3>1, <3>2, EncodingStep
  <2>9. <<t[j]>> \o SubSeq(t, j + 1, m) = SubSeq(t, j, m)
    BY <2>2, FrontOf
  <2>10. dec[p[j]] = Ok(SubSeq(t, j, m))
    BY <1>4, <2>4, <2>8, <2>9
  <2> QED BY <1>3, <2>1, <2>10
<1>7. 0..m \subseteq A
  <2> HIDE DEF A
  <2> QED BY <1>3, <1>5, <1>6, Upto
<1>8. m \in A /\ m + 1 - m = 1
  BY <1>3, <1>7
<1>9. dec[p[1]] = Ok(SubSeq(t, 1, m)) /\ p[1] = 1
  BY <1>e, <1>8
<1>10. SubSeq(t, 1, m) = t
  OBVIOUS
<1> QED BY <1>1, <1>9, <1>10

LEMMA EncodesItself ==
    ASSUME NEW t \in Seq(HexChar)
    PROVE  Encodes(t, t)
<1> DEFINE p == [j \in 1..Len(t) + 1 |-> j]
<1>1. Len(t) \in Nat
  OBVIOUS
<1>2. p \in [1..Len(t) + 1 -> 1..Len(t) + 1]
  OBVIOUS
<1>3. \A j \in 1..Len(t) + 1 : p[j] = j
  OBVIOUS
<1>4. 1 \in 1..Len(t) + 1 /\ Len(t) + 1 \in 1..Len(t) + 1
      /\ \A j \in 1..Len(t) : j \in 1..Len(t) + 1 /\ j + 1 \in 1..Len(t) + 1
  BY <1>1
<1> HIDE DEF p
<1>5. Encoding(t, t, p)
  BY <1>3, <1>4 DEF Encoding
<1> QED BY <1>2, <1>5 DEF Encodes

(* The escape of a digit is decoded to it.                                 *)
LEMMA EscapeIs ==
    ASSUME NEW ch \in HexChar
    PROVE  \E a, b \in 0..15 : /\ EscapeOf(ch) = <<Percent, a, b>> /\ a < 8
                               /\ CharOf(16 * HexValue(a) + HexValue(b)) = ch
<1> DEFINE a == Code(ch) \div 16
           b == Code(ch) % 16
<1>1. Code(ch) \in 48..57 \cup 65..70 \cup 97..102
  BY DEF Code, HexChar
<1>2. a \in {3, 4, 6} /\ b \in 0..15 /\ 16 * a + b = Code(ch)
  BY <1>1
<1>3. HexValue(a) = a /\ HexValue(b) = b
  BY <1>2 DEF HexValue
<1>4. \A c, d \in HexChar : Code(c) = Code(d) => c = d
  BY DEF Code, HexChar
<1>5. CharOf(Code(ch)) = ch
  <2>1. PICK c : c = CHOOSE x \in HexChar : Code(x) = Code(ch)
    OBVIOUS
  <2>2. c \in HexChar /\ Code(c) = Code(ch)
    <3> HIDE DEF a, b
    <3> QED BY Zenon, <2>1
  <2>3. CharOf(Code(ch)) = c
    BY Zenon, <2>1 DEF CharOf
  <2> QED BY <1>4, <2>2, <2>3
<1>6. EscapeOf(ch) = <<Percent, a, b>>
  BY DEF EscapeOf
<1> HIDE DEF a, b
<1>7. CharOf(16 * HexValue(a) + HexValue(b)) = ch
  BY <1>2, <1>3, <1>5
<1> QED BY <1>2, <1>6, <1>7

(* An escape in a query value, by what the value has at its positions.     *)
LEMMA EscapeAt ==
    ASSUME NEW ch \in HexChar, NEW w \in Seq(Character), NEW i \in Nat, NEW a \in 0..15, NEW b \in 0..15,
           i + 2 <= Len(w), w[i + 1] = a, w[i + 2] = b, a < 8,
           CharOf(16 * HexValue(a) + HexValue(b)) = ch
    PROVE  Decodable(w, i) /\ Escaped(w, i) = ch
BY DEF Decodable, Escaped, HexChar, HexValue

LEMMA FirstEscaped ==
    ASSUME NEW v \in Seq(Character), v # <<>>, v[1] \in HexChar
    PROVE  EscapeOf(v[1]) \o Tail(v) \in Seq(Character)
<1>1. PICK a \in 0..15, b \in 0..15 : EscapeOf(v[1]) = <<Percent, a, b>>
  BY EscapeIs
<1>2. Percent \in Character /\ a \in Character /\ b \in Character
  BY DEF Character, HexChar
<1>3. <<Percent, a, b>> \in Seq(Character) /\ Tail(v) \in Seq(Character)
  BY <1>2
<1> QED BY <1>1, <1>3

LEMMA FirstEscapedEncodes ==
    ASSUME NEW v \in Seq(Character), v # <<>>, v[1] \in HexChar, NEW t \in Seq(HexChar), Encodes(v, t)
    PROVE  Encodes(EscapeOf(v[1]) \o Tail(v), t)
<1> DEFINE w == EscapeOf(v[1]) \o Tail(v)
           n == Len(v)
           m == Len(t)
<1>1. PICK a \in 0..15, b \in 0..15 :
        EscapeOf(v[1]) = <<Percent, a, b>> /\ a < 8 /\ CharOf(16 * HexValue(a) + HexValue(b)) = v[1]
  BY EscapeIs
<1>2. n \in Nat /\ n >= 1 /\ m \in Nat /\ w \in Seq(Character)
  BY FirstEscaped
<1>3. /\ Len(w) = n + 2 /\ w[1] = Percent /\ w[2] = a /\ w[3] = b
      /\ \A k \in 2..n : w[k + 2] = v[k]
  BY <1>1
<1> HIDE DEF w, n, m
<1>4. Decodable(w, 1) /\ Escaped(w, 1) = v[1]
  <2>1. 1 \in Nat /\ 1 + 2 <= Len(w) /\ w[1 + 1] = a /\ w[1 + 2] = b
    BY <1>2, <1>3
  <2> QED BY <1>1, <1>2, <2>1, EscapeAt
<1>5. PICK p \in [1..m + 1 -> 1..n + 1] : Encoding(v, t, p)
  BY DEF Encodes, n, m
<1>e. p[1] = 1 /\ p[m + 1] = n + 1
  BY <1>5, EncodingEnds DEF n, m
<1>r. \A i, j \in 1..m + 1 : i < j => p[i] < p[j]
  BY <1>5, EncodingRises DEF m
<1>6. m >= 1
  <2>1. m # 0
    BY <1>2, <1>e
  <2> QED BY <1>2, <2>1
<1> DEFINE q == [j \in 1..m + 1 |-> IF j = 1 THEN 1 ELSE p[j] + 2]
<1>7. q[1] = 1 /\ \A j \in 2..m + 1 : q[j] = p[j] + 2 /\ p[j] \in 2..n + 1
  <2>1. \A j \in 2..m + 1 : p[1] < p[j] /\ j \in 1..m + 1
    BY <1>2, <1>r
  <2> QED BY <1>2, <1>e, <2>1
<1>8. q \in [1..m + 1 -> 1..Len(w) + 1]
  <2>1. \A j \in 1..m + 1 : j = 1 \/ j \in 2..m + 1
    BY <1>2
  <2>2. \A x \in 2..n + 1 : x + 2 \in 1..Len(w) + 1
    BY <1>2, <1>3
  <2>3. 1 \in 1..Len(w) + 1
    BY <1>2, <1>3
  <2>4. q = [j \in 1..m + 1 |-> q[j]]
    OBVIOUS
  <2> HIDE DEF q
  <2>5. \A j \in 1..m + 1 : q[j] \in 1..Len(w) + 1
    BY <1>7, <2>1, <2>2, <2>3
  <2> QED BY <2>4, <2>5
<1> HIDE DEF q
<1>9. q[m + 1] = Len(w) + 1
  BY <1>2, <1>3, <1>e, <1>6, <1>7
<1>10. \A i, j \in 1..m + 1 : i < j => q[i] < q[j]
  <2> TAKE i, j \in 1..m + 1
  <2>1. i < j => p[i] < p[j]
    BY <1>r
  <2>2. i = 1 \/ i \in 2..m + 1
    BY <1>2
  <2>3. j = 1 \/ j \in 2..m + 1
    BY <1>2
  <2> QED BY <1>2, <1>7, <2>1, <2>2, <2>3
<1>11. ASSUME NEW j \in 1..m
       PROVE  \/ w[q[j]] = t[j] /\ q[j + 1] = q[j] + 1
              \/ w[q[j]] = Percent /\ Decodable(w, q[j]) /\ Escaped(w, q[j]) = t[j] /\ q[j + 1] = q[j] + 3
  <2>1. j + 1 \in 2..m + 1 /\ j \in 1..m + 1
    BY <1>2
  <2>2. \/ v[p[j]] = t[j] /\ p[j + 1] = p[j] + 1
        \/ v[p[j]] = Percent /\ Decodable(v, p[j]) /\ Escaped(v, p[j]) = t[j] /\ p[j + 1] = p[j] + 3
    BY <1>5, EncodingStep DEF m
  <2>3. CASE j = 1
    <3>1. p[1] = 1 /\ v[1] # Percent
      BY <1>e, NoPercent
    <3>2. t[1] = v[1] /\ p[2] = 2
      BY <2>2, <2>3, <3>1
    <3> QED BY <1>3, <1>4, <1>7, <2>1, <2>3, <3>2
  <2>4. CASE j # 1
    <3>1. j \in 2..m + 1
      BY <2>1, <2>4
    <3>2. q[j] = p[j] + 2 /\ p[j] \in 2..n + 1 /\ q[j + 1] = p[j + 1] + 2 /\ p[j + 1] \in 2..n + 1
      BY <1>7, <2>1, <3>1
    <3>3. CASE v[p[j]] = t[j] /\ p[j + 1] = p[j] + 1
      <4>1. p[j] \in 2..n
        <5>1. PICK x \in 2..n + 1, y \in 2..n + 1 : x = p[j] /\ y = p[j + 1]
          BY <3>2
        <5>2. y = x + 1
          BY <3>3, <5>1
        <5>3. x \in 2..n
          BY <1>2, <5>2
        <5> QED BY <5>1, <5>3
      <4>2. w[p[j] + 2] = v[p[j]]
        BY <1>3, <4>1
      <4>3. q[j + 1] = q[j] + 1
        BY <3>2, <3>3
      <4> QED BY <3>2, <3>3, <4>2, <4>3
    <3>4. CASE v[p[j]] = Percent /\ Decodable(v, p[j]) /\ Escaped(v, p[j]) = t[j] /\ p[j + 1] = p[j] + 3
      <4>1. PICK k : k = p[j]
        OBVIOUS
      <4>x. k + 2 <= n
        BY <3>4, <4>1 DEF Decodable, n
      <4>y. k \in 2..n + 1 /\ q[j] = k + 2
        BY <3>2, <4>1
      <4>2. k \in 2..n /\ k + 1 \in 2..n /\ k + 2 \in 2..n /\ q[j] = k + 2
        <5> HIDE <4>1
        <5> QED BY <1>2, <4>x, <4>y
      <4>3. w[k + 2] = v[k] /\ w[(k + 2) + 1] = v[k + 1] /\ w[(k + 2) + 2] = v[k + 2]
        BY <1>3, <4>2
      <4>4. Decodable(w, k + 2) /\ Escaped(w, k + 2) = Escaped(v, k)
        <5>1. Decodable(v, k)
          BY <3>4, <4>1
        <5>2. (k + 2) + 2 <= Len(w)
          BY <1>2, <1>3, <4>2
        <5> QED BY <4>3, <5>1, <5>2 DEF Decodable, Escaped
      <4> QED BY <3>2, <3>4, <4>1, <4>2, <4>3, <4>4
    <3> QED BY <2>2, <3>3, <3>4
  <2> QED BY <2>3, <2>4
<1>12. Encoding(w, t, q)
  BY <1>7, <1>9, <1>10, <1>11 DEF Encoding, m
<1>13. Encodes(w, t)
  BY <1>8, <1>12 DEF Encodes, m
<1> QED BY <1>13 DEF w

LEMMA FrontIs ==
    ASSUME NEW v \in Seq(Character), v # <<>>
    PROVE  LET u == SubSeq(v, 1, Len(v) - 1) IN
           u \in Seq(Character) /\ Len(u) = Len(v) - 1 /\ \A k \in 1..Len(v) - 1 : u[k] = v[k]
<1>1. Len(v) \in Nat /\ Len(v) >= 1
  OBVIOUS
<1>2. PICK n \in Nat : n = Len(v) - 1
  BY <1>1
<1>3. n <= Len(v) /\ \A k \in 1..n : k \in 1..Len(v)
  BY <1>1, <1>2
<1>4. SubSeq(v, 1, n) \in Seq(Character)
  BY <1>3
<1>5. Len(SubSeq(v, 1, n)) = n
  BY <1>3
<1>6. \A k \in 1..n : SubSeq(v, 1, n)[k] = v[k]
  BY <1>3
<1> QED BY <1>2, <1>4, <1>5, <1>6

ThreeMore(w, u, x, y, z) ==
    /\ Len(w) = Len(u) + 3 /\ \A k \in 1..Len(u) : w[k] = u[k]
    /\ w[Len(u) + 1] = x /\ w[Len(u) + 2] = y /\ w[Len(u) + 3] = z

LEMMA Three ==
    ASSUME NEW u \in Seq(Character), NEW x \in Character, NEW y \in Character, NEW z \in Character
    PROVE  ThreeMore(u \o <<x, y, z>>, u, x, y, z)
<1>1. PICK e : e = <<x, y, z>>
  OBVIOUS
<1>2. e \in Seq(Character) /\ Len(e) = 3 /\ e[1] = x /\ e[2] = y /\ e[3] = z
  BY <1>1
<1>3. PICK w : w = u \o e
  OBVIOUS
<1>4. /\ Len(w) = Len(u) + Len(e) /\ \A k \in 1..Len(u) : w[k] = u[k]
      /\ \A k \in 1..Len(e) : w[Len(u) + k] = e[k]
  <2>1. e \in Seq(Character)
    BY <1>2
  <2> HIDE <1>1, <1>2
  <2>2. Len(u \o e) = Len(u) + Len(e)
    BY <2>1
  <2>3. \A k \in 1..Len(u) : (u \o e)[k] = u[k]
    BY <2>1
  <2>4. \A k \in 1..Len(e) : (u \o e)[Len(u) + k] = e[k]
    BY <2>1
  <2> QED BY <1>3, <2>2, <2>3, <2>4, Zenon
<1>5. 1 \in 1..3 /\ 2 \in 1..3 /\ 3 \in 1..3
  OBVIOUS
<1>6. ThreeMore(w, u, x, y, z)
  BY <1>2, <1>4, <1>5 DEF ThreeMore
<1> QED BY <1>1, <1>3, <1>6

LEMMA LastEscaped ==
    ASSUME NEW v \in Seq(Character), v # <<>>, v[Len(v)] \in HexChar
    PROVE  SubSeq(v, 1, Len(v) - 1) \o EscapeOf(v[Len(v)]) \in Seq(Character)
<1>1. PICK a \in 0..15, b \in 0..15 : EscapeOf(v[Len(v)]) = <<Percent, a, b>>
  BY EscapeIs
<1>2. Percent \in Character /\ a \in Character /\ b \in Character
  BY DEF Character, HexChar
<1>3. <<Percent, a, b>> \in Seq(Character) /\ SubSeq(v, 1, Len(v) - 1) \in Seq(Character)
  BY <1>2
<1> QED BY <1>1, <1>3

(* The last character of at least two is not yet escaped if only the first *)
(* position may have a percent sign.                                       *)
LEMMA LastEscapedEncodes ==
    ASSUME NEW v \in Seq(Character), v # <<>>, v[Len(v)] \in HexChar, Escapes(v) \subseteq {1},
           NEW t \in Seq(HexChar), Len(t) # 1, Encodes(v, t)
    PROVE  Encodes(SubSeq(v, 1, Len(v) - 1) \o EscapeOf(v[Len(v)]), t)
<1> DEFINE n == Len(v)
           w == SubSeq(v, 1, n - 1) \o EscapeOf(v[n])
           m == Len(t)
<1>1. PICK a \in 0..15, b \in 0..15 :
        EscapeOf(v[n]) = <<Percent, a, b>> /\ a < 8 /\ CharOf(16 * HexValue(a) + HexValue(b)) = v[n]
  BY EscapeIs
<1>2. n \in Nat /\ n >= 1 /\ m \in Nat /\ w \in Seq(Character)
  BY LastEscaped
<1>3. /\ Len(w) = n + 2 /\ w[n] = Percent /\ w[n + 1] = a /\ w[n + 2] = b
      /\ \A k \in 1..n - 1 : w[k] = v[k]
  <2> DEFINE u == SubSeq(v, 1, n - 1)
  <2>1. u \in Seq(Character) /\ Len(u) = n - 1 /\ \A k \in 1..n - 1 : u[k] = v[k]
    BY FrontIs
  <2>2. w = u \o <<Percent, a, b>>
    BY <1>1
  <2>3. Percent \in Character /\ a \in Character /\ b \in Character
    BY DEF Character, HexChar
  <2> HIDE DEF u, w, n
  <2>4. ThreeMore(w, u, Percent, a, b)
    BY <2>1, <2>2, <2>3, Three
  <2>5. Len(u) + 3 = n + 2 /\ Len(u) + 1 = n /\ Len(u) + 2 = n + 1
    BY <1>2, <2>1
  <2> QED BY <2>1, <2>4, <2>5 DEF ThreeMore
<1>v. v[n] \in HexChar
  OBVIOUS
<1> HIDE DEF w, n, m
<1>4. Decodable(w, n) /\ Escaped(w, n) = v[n]
  <2>1. n \in Nat /\ n + 2 <= Len(w) /\ w[n + 1] = a /\ w[n + 2] = b
    BY <1>2, <1>3
  <2> QED BY <1>1, <1>2, <1>v, <2>1, EscapeAt
<1>5. PICK p \in [1..m + 1 -> 1..n + 1] : Encoding(v, t, p)
  BY DEF Encodes, n, m
<1>e. p[1] = 1 /\ p[m + 1] = n + 1
  BY <1>5, EncodingEnds DEF n, m
<1>r. \A i, j \in 1..m + 1 : i < j => p[i] < p[j]
  BY <1>5, EncodingRises DEF m
<1>6. m >= 2
  <2>1. m # 0
    BY <1>2, <1>e
  <2>2. m # 1
    BY DEF m
  <2> QED BY <1>2, <2>1, <2>2
<1>7. \A j \in 1..m : j \in 1..m + 1 /\ j + 1 \in 1..m + 1 /\ p[j] \in 1..n + 1 /\ p[j + 1] \in 1..n + 1
  BY <1>2
<1>8. p[m] = n /\ t[m] = v[n]
  <2>1. m \in 1..m /\ m \in 1..m + 1 /\ 1 \in 1..m + 1 /\ p[m + 1] = n + 1
    BY <1>2, <1>e, <1>6
  <2>2. p[m] # 1
    <3>1. p[1] < p[m]
      BY <1>6, <1>r, <2>1
    <3> QED BY <1>e, <3>1
  <2>3. \/ v[p[m]] = t[m] /\ p[m + 1] = p[m] + 1
        \/ v[p[m]] = Percent /\ p[m + 1] = p[m] + 3
    BY <1>5, <2>1, EncodingStep DEF m
  <2>4. CASE v[p[m]] = t[m] /\ p[m + 1] = p[m] + 1
    BY <1>2, <1>7, <2>1, <2>4
  <2>5. CASE v[p[m]] = Percent /\ p[m + 1] = p[m] + 3
    <3>1. p[m] \in DOMAIN v
      BY <1>2, <1>7, <2>1, <2>5 DEF n
    <3>2. p[m] \in Escapes(v)
      BY <2>5, <3>1 DEF Escapes
    <3> QED BY <2>2, <3>2
  <2> QED BY <2>3, <2>4, <2>5
<1> DEFINE q == [j \in 1..m + 1 |-> IF j = m + 1 THEN n + 3 ELSE p[j]]
<1>9. q[m + 1] = n + 3 /\ \A j \in 1..m : q[j] = p[j]
  BY <1>2
<1>10. q \in [1..m + 1 -> 1..Len(w) + 1]
  <2>1. \A j \in 1..m + 1 : j = m + 1 \/ j \in 1..m
    BY <1>2
  <2>2. (\A x \in 1..n + 1 : x \in 1..Len(w) + 1) /\ n + 3 \in 1..Len(w) + 1
    BY <1>2, <1>3
  <2>3. q = [j \in 1..m + 1 |-> q[j]]
    OBVIOUS
  <2> HIDE DEF q
  <2>4. \A j \in 1..m + 1 : q[j] \in 1..Len(w) + 1
    BY <1>7, <1>9, <2>1, <2>2
  <2> QED BY <2>3, <2>4
<1> HIDE DEF q
<1>11. q[1] = 1 /\ q[m + 1] = Len(w) + 1
  BY <1>2, <1>3, <1>e, <1>6, <1>9
<1>12. \A i, j \in 1..m + 1 : i < j => q[i] < q[j]
  <2> TAKE i, j \in 1..m + 1
  <2>1. i < j => p[i] < p[j]
    BY <1>r
  <2>2. i = m + 1 \/ i \in 1..m
    BY <1>2
  <2>3. j = m + 1 \/ j \in 1..m
    BY <1>2
  <2>4. \A k \in 1..m : q[k] = p[k] /\ q[k] \in 1..n + 1
    BY <1>7, <1>9
  <2>5. CASE i \in 1..m /\ j \in 1..m
    BY <1>9, <2>1, <2>5
  <2>6. CASE i \in 1..m /\ j = m + 1
    BY <1>2, <1>9, <2>4, <2>6
  <2>7. CASE i = m + 1
    <3>1. ~(i < j)
      BY <1>2, <2>7
    <3> QED BY <3>1
  <2> QED BY <2>2, <2>3, <2>5, <2>6, <2>7
<1>13. ASSUME NEW j \in 1..m
       PROVE  \/ w[q[j]] = t[j] /\ q[j + 1] = q[j] + 1
              \/ w[q[j]] = Percent /\ Decodable(w, q[j]) /\ Escaped(w, q[j]) = t[j] /\ q[j + 1] = q[j] + 3
  <2>1. CASE j = m
    BY <1>2, <1>3, <1>4, <1>8, <1>9, <2>1
  <2>2. CASE j # m
    <3>1. j + 1 \in 1..m /\ q[j] = p[j] /\ q[j + 1] = p[j + 1]
      BY <1>2, <1>9, <2>2
    <3>2. j + 1 = m \/ p[j + 1] < p[m]
      <4>1. j + 1 \in 1..m + 1 /\ m \in 1..m + 1
        BY <1>2, <3>1
      <4>2. j + 1 = m \/ j + 1 < m
        BY <1>2, <3>1
      <4> QED BY <1>r, <4>1, <4>2
    <3>3. p[j + 1] <= n /\ p[j] \in 1..n + 1 /\ p[j + 1] \in 1..n + 1
      <4>1. PICK x \in 1..n + 1 : x = p[j + 1]
        BY <1>7
      <4>2. x = n \/ x < n
        BY <1>8, <3>2, <4>1
      <4>3. x <= n
        BY <1>2, <4>2
      <4> QED BY <1>7, <4>1, <4>3
    <3>4. \/ v[p[j]] = t[j] /\ p[j + 1] = p[j] + 1
          \/ v[p[j]] = Percent /\ Decodable(v, p[j]) /\ Escaped(v, p[j]) = t[j] /\ p[j + 1] = p[j] + 3
      BY <1>5, EncodingStep DEF m
    <3>5. CASE v[p[j]] = t[j] /\ p[j + 1] = p[j] + 1
      <4>1. p[j] \in 1..n - 1
        BY <1>2, <3>3, <3>5
      <4> QED BY <1>3, <3>1, <3>5, <4>1
    <3>6. CASE v[p[j]] = Percent /\ Decodable(v, p[j]) /\ Escaped(v, p[j]) = t[j] /\ p[j + 1] = p[j] + 3
      <4>1. PICK k : k = p[j]
        OBVIOUS
      <4>x. k + 2 <= n - 1
        <5>1. PICK x \in 1..n + 1 : x = p[j + 1] /\ x <= n
          BY <3>3
        <5>2. x = k + 3 /\ k \in 1..n + 1
          BY <3>3, <3>6, <4>1, <5>1
        <5> QED BY <1>2, <5>1, <5>2
      <4>y. k \in 1..n + 1
        BY <3>3, <4>1
      <4>2. k \in 1..n - 1 /\ k + 1 \in 1..n - 1 /\ k + 2 \in 1..n - 1
        <5> HIDE <4>1
        <5> QED BY <1>2, <4>x, <4>y
      <4>3. w[k] = v[k] /\ w[k + 1] = v[k + 1] /\ w[k + 2] = v[k + 2]
        BY <1>3, <4>2
      <4>4. Decodable(w, k) /\ Escaped(w, k) = Escaped(v, k)
        <5>1. Decodable(v, k)
          BY <3>6, <4>1
        <5>2. k + 2 <= Len(w)
          BY <1>2, <1>3, <4>2
        <5> QED BY <4>3, <5>1, <5>2 DEF Decodable, Escaped
      <4> QED BY <3>1, <3>6, <4>1, <4>3, <4>4
    <3> QED BY <3>4, <3>5, <3>6
  <2> QED BY <2>1, <2>2
<1>14. Encoding(w, t, q)
  BY <1>11, <1>12, <1>13 DEF Encoding, m
<1>15. Encodes(w, t)
  BY <1>10, <1>14 DEF Encodes, m
<1> QED BY <1>15 DEF w, n
-----------------------------------------------------------------------------
(* The invariant. An identifier of capacity S, whose bytes beyond its size *)
(* are zero if u8 can hold S.                                              *)
Clean(S, id)  == \A i \in 1..S : i > id.size => id.bytes[i] = 0
Identifier(S) == {id \in PeerID(S) : id.size <= S /\ (S < 256 => Clean(S, id))}

Byte    == 0..255
Text    == Seq(Character)
Parameter == [key : Keys, value : Text]
Request == [header : Seq(Text), query : Seq(Parameter)]

(* A text with two digits for each byte in use, in either case.            *)
Spells(t, id) ==
    /\ t \in Seq(HexChar) /\ Len(t) = 2 * id.size
    /\ \A i \in 1..id.size : 16 * HexValue(t[2 * i - 1]) + HexValue(t[2 * i]) = id.bytes[i]

(* A request whose first parameter of the name encodes such a text.        *)
Carries(query, i, id) ==
    /\ Named(query[i]) /\ \A j \in DOMAIN query : j < i => ~Named(query[j])
    /\ \E t \in Seq(HexChar) : Spells(t, id) /\ Encodes(query[i].value, t)

(* The errors an accepted identifier may meet.                             *)
RefusedId ==
    \/ val \in {"empty_header", "empty_query"} /\ first.size = 0
    \/ val = "Serialize" /\ first.size = cap /\ cap >= 128
    \/ val = "Deserialize" /\ cap >= 256 /\ first.size > cap % 256

NotYet ==
    /\ first = NoId
    /\ \/ form = "new"
       \/ form = "text" /\ val \in Text
       \/ form = "request" /\ val \in Request
       \/ form = "wire" /\ val \in Seq(Byte)
       \/ form \in {"error", "panic"}

Accepted ==
    /\ first \in Identifier(cap)
    /\ \/ form = "id" /\ val \in Identifier(cap) /\ Eq(val, first)
       \/ form = "text" /\ Spells(val, first)
       \/ form = "request" /\ val \in Request /\ val.header = <<>>
          /\ \E i \in DOMAIN val.query : Carries(val.query, i, first)
       \/ form = "wire" /\ val = Write(first) /\ Len(val) <= 1 + cap
       \/ form = "error" /\ RefusedId

(* A payload is as the browser made it, or what that becomes on the way,   *)
(* or a candidate that has lost its usernameFragment.                      *)
EventOf(p) ==
    IF p.kind = "description" THEN [kind |-> "description", sdp_type |-> SdpTypeOf(p.type), sdp |-> p.sdp]
    ELSE IceCandidate(p)

RefusedPayload ==
    \/ val = "EndOfCandidates" /\ first.candidate = Null
    \/ val = "JsError" /\ first.sdpMid = Null /\ first.sdpMLineIndex = Null

Bare(p) == IF p.kind = "candidate" THEN WithoutFragment(p) ELSE p

Sent ==
    /\ first \in Payloads
    /\ \/ form = "browser" /\ (val = first \/ val = Bare(first))
       \/ form = "event" /\ val = EventOf(first)
       \/ form = "json" /\ val = ToJson(EventOf(first))
       \/ form = "error" /\ RefusedPayload

TravelInv == cap \in Capacities /\ (NotYet \/ Accepted \/ Sent)

-----------------------------------------------------------------------------
(* Digits, and what it means that identifiers are equal.                   *)
LEMMA Digits ==
    /\ 0..15 \subseteq HexChar /\ HexChar \subseteq Character
    /\ \A ch \in HexChar : HexValue(ch) \in 0..15
    /\ \A ch \in 0..15 : HexValue(ch) = ch
BY DEF HexChar, Character, HexValue

LEMMA ErrorIs == \A k : Error(k).tag = "error" /\ Error(k).val = k
BY DEF Error

LEMMA IdentifierIs ==
    ASSUME NEW S \in Nat \ {0}, NEW id \in Identifier(S)
    PROVE  /\ id = [size |-> id.size, bytes |-> id.bytes] /\ id.size \in 0..255 /\ id.size <= S
           /\ id.bytes \in [1..S -> 0..255] /\ id.size \in Nat
           /\ \A i \in 1..id.size : i \in 1..S /\ id.bytes[i] \in 0..255
           /\ S < 256 => Clean(S, id)
<1>1. id \in PeerID(S) /\ id.size <= S /\ (S < 256 => Clean(S, id))
  BY DEF Identifier
<1>2. id = [size |-> id.size, bytes |-> id.bytes] /\ id.size \in 0..255 /\ id.bytes \in [1..S -> 0..255]
  BY <1>1 DEF PeerID
<1>3. PICK n \in 0..255 : n = id.size /\ n <= S
  BY <1>1, <1>2
<1>4. \A i \in 1..n : i \in 1..S
  BY <1>3
<1>5. \A i \in 1..n : id.bytes[i] \in 0..255
  BY <1>2, <1>4
<1>6. n \in Nat
  OBVIOUS
<1> QED BY <1>1, <1>2, <1>3, <1>4, <1>5, <1>6

LEMMA EqIs ==
    ASSUME NEW a, NEW b, a.size = b.size, \A i \in 1..a.size : a.bytes[i] = b.bytes[i]
    PROVE  Eq(a, b)
BY DEF Eq, Used

LEMMA EqSays ==
    ASSUME NEW a, NEW b, Eq(a, b)
    PROVE  /\ a.size = b.size /\ \A i \in 1..a.size : a.bytes[i] = b.bytes[i]
           /\ [i \in 1..a.size |-> a.bytes[i]] = [i \in 1..b.size |-> b.bytes[i]]
<1> DEFINE f == [i \in 1..a.size |-> a.bytes[i]]
           g == [i \in 1..b.size |-> b.bytes[i]]
<1>1. <<a.size, f>> = <<b.size, g>>
  BY DEF Eq, Used
<1>2. (\A i \in 1..a.size : f[i] = a.bytes[i]) /\ (\A i \in 1..b.size : g[i] = b.bytes[i])
  OBVIOUS
<1> HIDE DEF f, g
<1>3. a.size = b.size /\ f = g
  BY <1>1
<1>4. \A i \in 1..a.size : a.bytes[i] = b.bytes[i]
  BY <1>2, <1>3
<1> QED BY <1>3, <1>4 DEF f, g

LEMMA EqIsTransitive == \A a, b, c : Eq(a, b) /\ Eq(b, c) => Eq(a, c)
BY DEF Eq

LEMMA EqIsOrdEqual ==
    ASSUME NEW S \in Nat \ {0}, S < 256, NEW a \in Identifier(S), NEW b \in Identifier(S), Eq(a, b)
    PROVE  OrdEqual(a, b)
<1>1. a.size = b.size /\ a.size \in 0..255 /\ \A i \in 1..a.size : a.bytes[i] = b.bytes[i]
  <2>1. a.size \in 0..255
    BY IdentifierIs
  <2>2. a.size = b.size /\ \A i \in 1..a.size : a.bytes[i] = b.bytes[i]
    BY Zenon, EqSays
  <2> QED BY <2>1, <2>2
<1>2. a.bytes \in [1..S -> 0..255] /\ b.bytes \in [1..S -> 0..255] /\ Clean(S, a) /\ Clean(S, b)
  <2>1. \A x \in Identifier(S) : x.bytes \in [1..S -> 0..255] /\ Clean(S, x)
    BY DEF Identifier, PeerID
  <2> QED BY <2>1
<1>3. \A i \in 1..S : a.bytes[i] = b.bytes[i]
  <2> TAKE i \in 1..S
  <2>1. i \in 1..a.size \/ i > a.size
    BY <1>1
  <2> QED BY <1>1, <1>2, <2>1 DEF Clean
<1>4. a.bytes = b.bytes
  BY <1>2, <1>3
<1> QED BY <1>1, <1>4 DEF OrdEqual

-----------------------------------------------------------------------------
(* from_str: an identifier, whose bytes beyond the text are zero, or an    *)
(* error; an equal identifier for a text that spells one.                  *)
Good(S, r) == r.tag \in {"ok", "error", "panic"} /\ (r.tag = "ok" => r.val \in Identifier(S))

LEMMA RefusalsAreGood == \A S, k : Good(S, Error(k)) /\ Good(S, Panic)
BY DEF Good, Error, Panic

LEMMA OkIsGood == \A S : \A id \in Identifier(S) : Good(S, Ok(id))
BY DEF Good, Ok

Parsed(S, s) ==
    [size  |-> (Len(s) \div 2) % 256,
     bytes |-> [i \in 1..S |->
         IF 2 * i <= Len(s) THEN 16 * HexValue(s[2 * i - 1]) + HexValue(s[2 * i]) ELSE 0]]

LEMMA ParsedType ==
    ASSUME NEW S \in Nat \ {0}, NEW s \in Seq(HexChar), Len(s) <= 2 * S, Len(s) % 2 # 1
    PROVE  Parsed(S, s) \in Identifier(S)
<1>1. PICK h \in Nat : Len(s) = 2 * h
  <2>1. Len(s) \in Nat
    OBVIOUS
  <2>2. Len(s) \div 2 \in Nat /\ Len(s) = 2 * (Len(s) \div 2)
    BY <2>1
  <2> QED BY <2>2
<1>2. h <= S /\ Len(s) \div 2 = h /\ h % 256 \in 0..255 /\ h % 256 <= h /\ (S < 256 => h % 256 = h)
  BY <1>1
<1>3. ASSUME NEW i \in 1..S, 2 * i <= Len(s)
      PROVE  16 * HexValue(s[2 * i - 1]) + HexValue(s[2 * i]) \in 0..255
  <2>1. 2 * i - 1 \in 1..Len(s) /\ 2 * i \in 1..Len(s)
    BY <1>1, <1>3
  <2>2. s[2 * i - 1] \in HexChar /\ s[2 * i] \in HexChar
    BY <2>1
  <2>3. PICK a \in 0..15, b \in 0..15 : a = HexValue(s[2 * i - 1]) /\ b = HexValue(s[2 * i])
    BY <2>2, Digits
  <2>4. 16 * a + b \in 0..255
    OBVIOUS
  <2> QED BY <2>3, <2>4
<1> DEFINE b == [i \in 1..S |->
         IF 2 * i <= Len(s) THEN 16 * HexValue(s[2 * i - 1]) + HexValue(s[2 * i]) ELSE 0]
<1>4. b \in [1..S -> 0..255]
  BY <1>3
<1>5. \A i \in 1..S : i > h => b[i] = 0
  BY <1>1
<1> HIDE DEF b
<1>6. [size |-> h % 256, bytes |-> b] \in Identifier(S)
  <2> DEFINE id == [size |-> h % 256, bytes |-> b]
  <2>1. id.size = h % 256 /\ id.bytes = b
    OBVIOUS
  <2>2. id \in PeerID(S)
    BY <1>2, <1>4 DEF PeerID
  <2> HIDE DEF id
  <2>3. id.size <= S
    <3>1. h % 256 \in Nat
      BY <1>2
    <3> QED BY <1>2, <2>1, <3>1
  <2>4. S < 256 => Clean(S, id)
    BY <1>2, <1>5, <2>1 DEF Clean
  <2>5. id \in Identifier(S)
    BY <2>2, <2>3, <2>4 DEF Identifier
  <2> QED BY <2>5 DEF id
<1>7. Parsed(S, s) = [size |-> h % 256, bytes |-> b]
  BY <1>2 DEF Parsed, b
<1> QED BY <1>6, <1>7

LEMMA FromStrCases ==
    ASSUME NEW S, NEW s
    PROVE  FromStr(S, s) = IF Len(s) > 2 * S THEN Error("InvalidLength")
                           ELSE IF \E i \in 1..Len(s) : s[i] \notin HexChar THEN Error("InvalidHexEncoding")
                           ELSE IF Len(s) % 2 = 1 THEN Panic ELSE Ok(Parsed(S, s))
BY DEF FromStr, Parsed

LEMMA FromStrType ==
    ASSUME NEW S \in Nat \ {0}, NEW T, NEW s \in Seq(T)
    PROVE  Good(S, FromStr(S, s))
<1>1. CASE Len(s) > 2 * S \/ (\E i \in 1..Len(s) : s[i] \notin HexChar) \/ Len(s) % 2 = 1
  BY <1>1, FromStrCases, RefusalsAreGood
<1>2. CASE ~(Len(s) > 2 * S) /\ ~(\E i \in 1..Len(s) : s[i] \notin HexChar) /\ Len(s) % 2 # 1
  <2>1. Len(s) \in Nat /\ Len(s) <= 2 * S
    BY <1>2
  <2>2. s \in Seq(HexChar)
    BY <1>2
  <2>3. Parsed(S, s) \in Identifier(S)
    BY <1>2, <2>1, <2>2, ParsedType
  <2>4. FromStr(S, s) = Ok(Parsed(S, s))
    BY <1>2, FromStrCases
  <2> QED BY <2>3, <2>4, OkIsGood
<1> QED BY <1>1, <1>2

LEMMA FromStrSpelled ==
    ASSUME NEW S \in Nat \ {0}, NEW id \in Identifier(S), NEW t, Spells(t, id)
    PROVE  \E x \in Identifier(S) : FromStr(S, t) = Ok(x) /\ Eq(x, id)
<1>1. t \in Seq(HexChar) /\ Len(t) = 2 * id.size
      /\ \A i \in 1..id.size : 16 * HexValue(t[2 * i - 1]) + HexValue(t[2 * i]) = id.bytes[i]
  BY DEF Spells
<1>2. PICK n \in 0..255 : n = id.size /\ n <= S
  BY IdentifierIs
<1>3. Len(t) <= 2 * S /\ Len(t) % 2 = 0 /\ (Len(t) \div 2) % 256 = n
  <2>1. Len(t) = 2 * n
    BY <1>1, <1>2
  <2>2. 2 * n <= 2 * S /\ (2 * n) % 2 = 0 /\ (2 * n) \div 2 = n /\ n % 256 = n
    BY <1>2
  <2> QED BY Zenon, <2>1, <2>2
<1>4. ~(Len(t) > 2 * S) /\ (\A i \in 1..Len(t) : t[i] \in HexChar) /\ Len(t) % 2 # 1
  <2>1. t \in Seq(HexChar)
    BY <1>1
  <2>2. \A i \in 1..Len(t) : t[i] \in HexChar
    BY <2>1
  <2>3. PICK l \in Nat : l = Len(t) /\ l <= 2 * S /\ l % 2 = 0
    BY <1>3, <2>1
  <2>4. ~(l > 2 * S) /\ l % 2 # 1
    BY <2>3
  <2> QED BY <2>2, <2>3, <2>4
<1>5. FromStr(S, t) = Ok(Parsed(S, t))
  BY <1>4, FromStrCases
<1>6. Parsed(S, t) \in Identifier(S)
  BY <1>1, <1>3, <1>4, ParsedType
<1>7. Parsed(S, t).size = n
  BY <1>3 DEF Parsed
<1>8. \A i \in 1..n : Parsed(S, t).bytes[i] = id.bytes[i]
  <2> TAKE i \in 1..n
  <2>1. i \in 1..S /\ 2 * i <= Len(t)
    BY <1>1, <1>2
  <2>2. Parsed(S, t).bytes[i] = 16 * HexValue(t[2 * i - 1]) + HexValue(t[2 * i])
    BY <2>1 DEF Parsed
  <2> QED BY <1>1, <1>2, <2>2
<1>9. Eq(Parsed(S, t), id)
  BY <1>2, <1>7, <1>8, EqIs
<1> QED BY <1>5, <1>6, <1>9

-----------------------------------------------------------------------------
(* Display: the text spells the identifier. Capitals do not matter.        *)
LEMMA DisplaySpells ==
    ASSUME NEW S \in Nat \ {0}, NEW id \in Identifier(S)
    PROVE  Spells(Display(id), id)
<1>1. PICK n \in 0..255 : n = id.size
  BY IdentifierIs
<1>2. \A i \in 1..n : id.bytes[i] \in 0..255
  BY <1>1, IdentifierIs
<1> DEFINE D(i) == IF i % 2 = 1 THEN id.bytes[(i + 1) \div 2] \div 16 ELSE id.bytes[i \div 2] % 16
<1>3. \A i \in 1..n : D(2 * i - 1) = id.bytes[i] \div 16 /\ D(2 * i) = id.bytes[i] % 16
  <2> TAKE i \in 1..n
  <2>1. (2 * i - 1) % 2 = 1 /\ (2 * i - 1 + 1) \div 2 = i /\ (2 * i) % 2 = 0 /\ (2 * i) \div 2 = i
    OBVIOUS
  <2> QED BY <2>1
<1>4. \A i \in 1..n : D(2 * i - 1) \in 0..15 /\ D(2 * i) \in 0..15
                      /\ 16 * D(2 * i - 1) + D(2 * i) = id.bytes[i]
  <2> TAKE i \in 1..n
  <2>1. PICK x \in 0..255 : x = id.bytes[i]
    BY <1>2
  <2>2. x \div 16 \in 0..15 /\ x % 16 \in 0..15 /\ (16 * (x \div 16)) + (x % 16) = x
    <3>1. PICK q \in Int : q = x \div 16
      OBVIOUS
    <3>2. PICK r \in Int : r = x % 16
      OBVIOUS
    <3>3. r \in 0..15 /\ 16 * q + r = x
      BY <3>1, <3>2
    <3>4. q \in 0..15
      BY <3>3
    <3> QED BY <3>1, <3>2, <3>3, <3>4
  <2> HIDE DEF D
  <2>3. D(2 * i - 1) = x \div 16 /\ D(2 * i) = x % 16
    BY <1>3, <2>1
  <2> QED BY <2>1, <2>2, <2>3
<1>5. \A j \in 1..2 * n : D(j) \in 0..15
  <2> TAKE j \in 1..2 * n
  <2>1. \E i \in 1..n : j = 2 * i - 1 \/ j = 2 * i
    <3>1. CASE j % 2 = 1
      <4>1. (j + 1) \div 2 \in 1..n /\ j = 2 * ((j + 1) \div 2) - 1
        BY <3>1
      <4> QED BY <4>1
    <3>2. CASE j % 2 = 0
      <4>1. j \div 2 \in 1..n /\ j = 2 * (j \div 2)
        BY <3>2
      <4> QED BY <4>1
    <3> QED BY <3>1, <3>2
  <2> HIDE DEF D
  <2> QED BY <1>4, <2>1
<1>6. Display(id) = [j \in 1..2 * n |-> D(j)]
  BY <1>1 DEF Display
<1> HIDE DEF D
<1> DEFINE t == [j \in 1..2 * n |-> D(j)]
<1>7. 2 * n \in Nat /\ \A i \in 1..n : 2 * i - 1 \in 1..2 * n /\ 2 * i \in 1..2 * n
  OBVIOUS
<1>8. t \in Seq(HexChar) /\ Len(t) = 2 * n
  BY <1>5, <1>7, Digits
<1>9. \A i \in 1..n : t[2 * i - 1] = D(2 * i - 1) /\ t[2 * i] = D(2 * i)
  BY <1>7
<1> HIDE DEF t
<1>10. \A i \in 1..n : 16 * HexValue(t[2 * i - 1]) + HexValue(t[2 * i]) = id.bytes[i]
  <2> TAKE i \in 1..n
  <2>1. t[2 * i - 1] = D(2 * i - 1) /\ t[2 * i] = D(2 * i)
    BY <1>9
  <2>2. D(2 * i - 1) \in 0..15 /\ D(2 * i) \in 0..15 /\ 16 * D(2 * i - 1) + D(2 * i) = id.bytes[i]
    BY <1>4
  <2>3. HexValue(D(2 * i - 1)) = D(2 * i - 1) /\ HexValue(D(2 * i)) = D(2 * i)
    BY <2>2, Digits
  <2> QED BY <2>1, <2>2, <2>3
<1>11. Spells(t, id)
  BY <1>1, <1>8, <1>10 DEF Spells
<1> QED BY <1>6, <1>11 DEF t

LEMMA SpellsEqual ==
    ASSUME NEW a, NEW b, NEW t, Spells(t, a), Eq(a, b)
    PROVE  Spells(t, b)
<1>1. a.size = b.size /\ \A i \in 1..a.size : a.bytes[i] = b.bytes[i]
  BY EqSays
<1> QED BY <1>1 DEF Spells

LEMMA Capital ==
    ASSUME NEW ch \in Character
    PROVE  LET c == IF ch \in 10..15 THEN ch + 16 ELSE ch IN
           c \in Character /\ (ch \in HexChar => c \in HexChar) /\ HexValue(c) = HexValue(ch)
BY DEF Character, HexChar, NotHex, Percent, HexValue

LEMMA CapitalsAt ==
    ASSUME NEW s \in Seq(Character)
    PROVE  /\ Capitals(s) \in Seq(Character) /\ Len(Capitals(s)) = Len(s)
           /\ \A i \in 1..Len(s) : /\ s[i] \in HexChar => Capitals(s)[i] \in HexChar
                                   /\ HexValue(Capitals(s)[i]) = HexValue(s[i])
<1> DEFINE C(ch) == IF ch \in 10..15 THEN ch + 16 ELSE ch
           c == [i \in 1..Len(s) |-> C(s[i])]
<1>1. Len(s) \in Nat /\ DOMAIN s = 1..Len(s) /\ \A i \in 1..Len(s) : s[i] \in Character
  OBVIOUS
<1>2. Capitals(s) = c
  BY <1>1 DEF Capitals
<1>3. \A ch \in Character : C(ch) \in Character /\ (ch \in HexChar => C(ch) \in HexChar)
                            /\ HexValue(C(ch)) = HexValue(ch)
  BY Capital
<1> HIDE DEF C
<1>4. c \in Seq(Character) /\ Len(c) = Len(s) /\ \A i \in 1..Len(s) : c[i] = C(s[i])
  BY <1>1, <1>3
<1> HIDE DEF c
<1> QED BY <1>1, <1>2, <1>3, <1>4

LEMMA CapitalsSpell ==
    ASSUME NEW S \in Nat \ {0}, NEW id \in Identifier(S), NEW t, Spells(t, id)
    PROVE  Spells(Capitals(t), id)
<1>1. t \in Seq(HexChar) /\ Len(t) = 2 * id.size
  BY DEF Spells
<1>2. t \in Seq(Character) /\ \A i \in 1..Len(t) : t[i] \in HexChar
  <2>1. \A x \in HexChar : x \in Character
    BY Digits
  <2>2. \A i \in 1..Len(t) : t[i] \in HexChar
    BY <1>1
  <2>3. t \in Seq(Character)
    BY <1>1, <2>1
  <2> QED BY <2>2, <2>3
<1>3. PICK c : c = Capitals(t)
  OBVIOUS
<1>4. c \in Seq(Character) /\ Len(c) = Len(t)
      /\ \A i \in 1..Len(t) : c[i] \in HexChar /\ HexValue(c[i]) = HexValue(t[i])
  BY <1>2, <1>3, CapitalsAt
<1>5. c \in Seq(HexChar)
  BY <1>4
<1>6. id.size \in 0..255
  BY IdentifierIs
<1>7. \A i \in 1..id.size : 2 * i - 1 \in 1..Len(t) /\ 2 * i \in 1..Len(t)
  <2>1. PICK n \in 0..255 : n = id.size
    BY <1>6
  <2>2. \A i \in 1..n : 2 * i - 1 \in 1..2 * n /\ 2 * i \in 1..2 * n
    OBVIOUS
  <2> QED BY <1>1, <2>1, <2>2
<1>8. \A i \in 1..id.size : 16 * HexValue(c[2 * i - 1]) + HexValue(c[2 * i]) = id.bytes[i]
  BY <1>4, <1>7 DEF Spells
<1> QED BY <1>1, <1>3, <1>4, <1>5, <1>8 DEF Spells

-----------------------------------------------------------------------------
(* write_peer_id: a prefix of one byte or two, then the bytes in use, which*)
(* read_u8 and read_peer_id find again.                                    *)
LEMMA Bytes == \A x : x \in Byte <=> x \in 0..255
BY DEF Byte

Prefix(n) == IF n < 128 THEN 1 ELSE 2

LEMMA VarintIs ==
    ASSUME NEW n \in 0..255
    PROVE  /\ Varint(n) \in Seq(Byte) /\ Len(Varint(n)) = Prefix(n) /\ Prefix(n) \in 1..2
           /\ n < 128 => Varint(n)[1] = n
           /\ n >= 128 => /\ Varint(n)[1] \in 128..255 /\ Varint(n)[2] = 1
                          /\ (Varint(n)[1] % 128) + 128 = n
<1>1. CASE n < 128
  BY <1>1 DEF Varint, Prefix, Byte
<1>2. CASE n >= 128
  <2>1. PICK a \in 128..255, b \in 1..1 : a = (n % 128) + 128 /\ b = n \div 128
    BY <1>2
  <2>2. Varint(n) = <<a, b>>
    BY <1>2, <2>1 DEF Varint
  <2>3. (a % 128) + 128 = n
    BY <1>2, <2>1
  <2> QED BY <1>2, <2>2, <2>3 DEF Prefix, Byte
<1> QED BY <1>1, <1>2

LEMMA WriteIs ==
    ASSUME NEW S \in Nat \ {0}, NEW id \in Identifier(S)
    PROVE  /\ Write(id) \in Seq(Byte) /\ Len(Write(id)) = Prefix(id.size) + id.size
           /\ ReadVarint(Write(id)) = Ok([n |-> id.size, took |-> Prefix(id.size)])
           /\ \A i \in 1..id.size : Write(id)[Prefix(id.size) + i] = id.bytes[i]
<1>1. PICK n \in 0..255 : n = id.size
  BY IdentifierIs
<1>2. \A i \in 1..n : id.bytes[i] \in 0..255
  BY <1>1, IdentifierIs
<1>3. PICK b : b = [i \in 1..n |-> id.bytes[i]]
  OBVIOUS
<1>4. b \in Seq(Byte) /\ Len(b) = n /\ \A i \in 1..n : b[i] = id.bytes[i]
  <2>1. PICK y : y = id.bytes
    OBVIOUS
  <2>2. \A i \in 1..n : y[i] \in Byte
    BY <1>2, <2>1, Bytes
  <2>3. b = [i \in 1..n |-> y[i]]
    BY <1>3, <2>1
  <2>4. b \in Seq(Byte) /\ Len(b) = n /\ \A i \in 1..n : b[i] = y[i]
    BY <2>2, <2>3
  <2> QED BY <2>1, <2>4
<1>5. PICK p : p = Varint(n)
  OBVIOUS
<1>6. PICK k \in 1..2 : k = Prefix(n)
  BY VarintIs
<1>7. p \in Seq(Byte) /\ Len(p) = k
  BY <1>5, <1>6, VarintIs
<1>8. PICK w : w = p \o b
  OBVIOUS
<1>9. w \in Seq(Byte) /\ Len(w) = k + n
  BY <1>4, <1>7, <1>8
<1>10. \A i \in 1..k : w[i] = p[i]
  BY <1>4, <1>7, <1>8
<1>11. \A i \in 1..n : w[k + i] = b[i]
  BY <1>4, <1>7, <1>8
<1>12. Write(id) = w
  BY <1>1, <1>3, <1>5, <1>8 DEF Write
<1>13. ReadVarint(w) = Ok([n |-> n, took |-> k])
  <2>1. CASE n < 128
    <3>1. k = 1 /\ p[1] = n
      BY <1>5, <1>6, <2>1, VarintIs DEF Prefix
    <3>2. w # <<>> /\ w[1] = n /\ w[1] < 128
      BY <1>9, <1>10, <2>1, <3>1
    <3> QED BY <3>1, <3>2 DEF ReadVarint
  <2>2. CASE n >= 128
    <3>0. k = 2
      BY <1>6, <2>2 DEF Prefix
    <3>1. p[1] \in 128..255 /\ p[2] = 1 /\ (p[1] % 128) + 128 = n
      BY <1>5, <2>2, VarintIs
    <3>2. PICK a \in 128..255 : a = w[1] /\ (a % 128) + 128 = n
      <4>1. w[1] = p[1]
        BY <1>10, <3>0
      <4> QED BY <3>1, <4>1
    <3>3. w[2] = 1
      BY <1>10, <3>0, <3>1
    <3>4. Len(w) >= 2
      BY <1>9, <3>0
    <3>5. ~(w[1] < 128) /\ ~(Len(w) < 2 \/ w[2] = 0 \/ w[2] > 127)
      <4>1. ~(a < 128)
        OBVIOUS
      <4>2. PICK c : c = w[2]
        OBVIOUS
      <4>3. ~(c = 0 \/ c > 127)
        BY <3>3, <4>2
      <4>4. PICK l \in Nat : l = Len(w)
        BY <1>9
      <4>5. ~(l < 2)
        BY <3>4, <4>4
      <4> QED BY Zenon, <3>2, <4>1, <4>2, <4>3, <4>4, <4>5
    <3>6. ReadVarint(w) = Ok([n |-> (w[1] % 128) + 128 * (w[2] % 2), took |-> 2])
      BY <3>5, Zenon DEF ReadVarint
    <3>7. (w[1] % 128) + 128 * (w[2] % 2) = n
      BY <3>2, <3>3
    <3> QED BY <3>0, <3>6, <3>7
  <2> QED BY <2>1, <2>2
<1> QED BY <1>1, <1>4, <1>6, <1>9, <1>11, <1>12, <1>13

LEMMA EqualWrite ==
    ASSUME NEW a, NEW b, Eq(a, b)
    PROVE  Write(a) = Write(b)
<1>1. /\ a.size = b.size
      /\ [i \in 1..a.size |-> a.bytes[i]] = [i \in 1..b.size |-> b.bytes[i]]
  BY EqSays
<1> QED BY Zenon, <1>1 DEF Write

LEMMA ReadVarintType ==
    ASSUME NEW w \in Seq(Byte)
    PROVE  \/ \E k : ReadVarint(w) = Error(k)
           \/ \E n \in 0..255, k \in 1..2 : ReadVarint(w) = Ok([n |-> n, took |-> k])
<1>1. CASE w # <<>> /\ w[1] < 128
  <2>1. PICK x \in 0..255 : x = w[1]
    <3>1. w[1] \in Byte
      BY <1>1
    <3> QED BY <3>1, Bytes
  <2>2. ReadVarint(w) = Ok([n |-> w[1], took |-> 1])
    BY <1>1 DEF ReadVarint
  <2>3. ReadVarint(w) = Ok([n |-> x, took |-> 1]) /\ 1 \in 1..2
    BY <2>1, <2>2
  <2> QED BY Zenon, <2>3
<1>2. CASE ~(w # <<>> /\ w[1] < 128) /\ (Len(w) < 2 \/ w[2] = 0 \/ w[2] > 127)
  <2>1. ReadVarint(w) = ReadError(w)
    BY Zenon, <1>2 DEF ReadVarint
  <2>2. \E k : ReadError(w) = Error(k)
    BY Zenon DEF ReadError
  <2> QED BY <2>1, <2>2
<1>3. CASE ~(w # <<>> /\ w[1] < 128) /\ ~(Len(w) < 2 \/ w[2] = 0 \/ w[2] > 127)
  <2>1. ReadVarint(w) = Ok([n |-> (w[1] % 128) + 128 * (w[2] % 2), took |-> 2])
    BY Zenon, <1>3 DEF ReadVarint
  <2>2. Len(w) >= 2
    BY <1>3
  <2>3. PICK a \in 0..255, b \in 0..255 : a = w[1] /\ b = w[2]
    <3>1. w[1] \in Byte /\ w[2] \in Byte
      BY <2>2
    <3> QED BY <3>1, Bytes
  <2>4. (a % 128) + 128 * (b % 2) \in 0..255
    <3>1. PICK x \in 0..127, y \in 0..1 : x = a % 128 /\ y = b % 2
      OBVIOUS
    <3>2. x + 128 * y \in 0..255
      OBVIOUS
    <3> QED BY <3>1, <3>2
  <2>5. PICK x \in 0..255 : x = (w[1] % 128) + 128 * (w[2] % 2)
    BY <2>3, <2>4
  <2>6. ReadVarint(w) = Ok([n |-> x, took |-> 2]) /\ 2 \in 1..2
    BY <2>1, <2>5
  <2> QED BY Zenon, <2>6
<1> QED BY <1>1, <1>2, <1>3

(* What read_peer_id makes of n bytes after a prefix of k.                 *)
ReadId(S, w, n, k) == [size |-> n, bytes |-> [i \in 1..S |-> IF i <= n THEN w[k + i] ELSE 0]]

LEMMA FromBytesCases ==
    ASSUME NEW S, NEW w, NEW n, NEW k, ReadVarint(w) = Ok([n |-> n, took |-> k])
    PROVE  FromBytes(S, w) = IF n > S % 256 THEN Error("InvalidLength")
                             ELSE IF Len(w) < k + n THEN Error("Io")
                             ELSE IF Len(w) > k + n THEN Error("InvalidLength")
                             ELSE Ok(ReadId(S, w, n, k))
<1>1. PICK v : v = ReadVarint(w)
  OBVIOUS
<1>2. v.tag = "ok" /\ v.val.n = n /\ v.val.took = k
  BY <1>1, OkIs
<1>3. ReadPeerId(S, w) = IF n > S % 256 THEN Error("InvalidLength")
                         ELSE IF Len(w) < k + n THEN Error("Io")
                         ELSE Ok([id |-> ReadId(S, w, n, k), took |-> k + n])
  <2>1. ReadPeerId(S, w) = IF v.tag # "ok" THEN v
                           ELSE IF v.val.n > S % 256 THEN Error("InvalidLength")
                           ELSE IF Len(w) < v.val.took + v.val.n THEN Error("Io")
                           ELSE Ok([id |-> ReadId(S, w, v.val.n, v.val.took), took |-> v.val.took + v.val.n])
    BY <1>1, Zenon DEF ReadPeerId, ReadId
  <2> QED BY <1>2, <2>1, Zenon
<1>4. PICK r : r = ReadPeerId(S, w)
  OBVIOUS
<1>5. FromBytes(S, w) = IF r.tag # "ok" THEN r
                        ELSE IF Len(w) > r.val.took THEN Error("InvalidLength") ELSE Ok(r.val.id)
  BY <1>4, Zenon DEF FromBytes
<1>6. CASE n > S % 256
  <2>1. r = Error("InvalidLength") /\ r.tag # "ok"
    BY <1>3, <1>4, <1>6, ErrorIs
  <2> QED BY <1>5, <1>6, <2>1
<1>7. CASE ~(n > S % 256) /\ Len(w) < k + n
  <2>1. r = Error("Io") /\ r.tag # "ok"
    BY <1>3, <1>4, <1>7, ErrorIs
  <2> QED BY <1>5, <1>7, <2>1
<1>8. CASE ~(n > S % 256) /\ ~(Len(w) < k + n)
  <2>1. r = Ok([id |-> ReadId(S, w, n, k), took |-> k + n])
    BY <1>3, <1>4, <1>8
  <2>2. r.tag = "ok" /\ r.val.took = k + n /\ r.val.id = ReadId(S, w, n, k)
    BY <2>1, OkIs
  <2> QED BY <1>5, <1>8, <2>2
<1> QED BY <1>6, <1>7, <1>8

LEMMA ReadIdType ==
    ASSUME NEW S \in Nat \ {0}, NEW w \in Seq(Byte), NEW n \in 0..255, NEW k \in 1..2,
           n <= S, Len(w) = k + n
    PROVE  ReadId(S, w, n, k) \in Identifier(S)
<1> DEFINE b == [i \in 1..S |-> IF i <= n THEN w[k + i] ELSE 0]
<1>1. \A i \in 1..S : i <= n => w[k + i] \in 0..255
  <2> TAKE i \in 1..S
  <2>1. i <= n => k + i \in 1..Len(w)
    OBVIOUS
  <2>2. PICK j : j = k + i
    OBVIOUS
  <2>3. i <= n => w[j] \in Byte
    BY <2>1, <2>2
  <2> QED BY <2>2, <2>3, Bytes
<1>2. b \in [1..S -> 0..255]
  <2>1. \A i \in 1..S : (IF i <= n THEN w[k + i] ELSE 0) \in 0..255
    BY <1>1
  <2> QED BY <2>1
<1>3. \A i \in 1..S : i > n => b[i] = 0
  OBVIOUS
<1> HIDE DEF b
<1>4. [size |-> n, bytes |-> b] \in Identifier(S)
  BY <1>2, <1>3 DEF Identifier, PeerID, Clean
<1> QED BY <1>4 DEF ReadId, b

LEMMA FromBytesType ==
    ASSUME NEW S \in Nat \ {0}, NEW w \in Seq(Byte)
    PROVE  Good(S, FromBytes(S, w))
<1>1. ASSUME NEW k, ReadVarint(w) = Error(k) PROVE Good(S, FromBytes(S, w))
  <2>1. PICK e : e = Error(k)
    OBVIOUS
  <2>2. e.tag # "ok"
    BY <2>1, ErrorIs
  <2>3. ReadPeerId(S, w) = e
    BY <1>1, <2>1, <2>2, Zenon DEF ReadPeerId
  <2>4. FromBytes(S, w) = e
    BY <2>2, <2>3, Zenon DEF FromBytes
  <2> QED BY <2>1, <2>4, RefusalsAreGood
<1>2. ASSUME NEW n \in 0..255, NEW k \in 1..2, ReadVarint(w) = Ok([n |-> n, took |-> k])
      PROVE  Good(S, FromBytes(S, w))
  <2>1. CASE n > S % 256 \/ Len(w) < k + n \/ Len(w) > k + n
    <3>0. FromBytes(S, w) = IF n > S % 256 THEN Error("InvalidLength")
                             ELSE IF Len(w) < k + n THEN Error("Io")
                             ELSE IF Len(w) > k + n THEN Error("InvalidLength")
                             ELSE Ok(ReadId(S, w, n, k))
      BY <1>2, FromBytesCases
    <3>1. FromBytes(S, w) = Error("InvalidLength") \/ FromBytes(S, w) = Error("Io")
      BY Zenon, <2>1, <3>0
    <3> QED BY <3>1, RefusalsAreGood
  <2>2. CASE ~(n > S % 256) /\ ~(Len(w) < k + n) /\ ~(Len(w) > k + n)
    <3>1. n <= S /\ Len(w) = k + n
      BY <2>2
    <3>2. ReadId(S, w, n, k) \in Identifier(S)
      BY <3>1, ReadIdType
    <3>3. FromBytes(S, w) = Ok(ReadId(S, w, n, k))
      BY <1>2, <2>2, FromBytesCases
    <3> QED BY <3>2, <3>3, OkIsGood
  <2> QED BY <2>1, <2>2
<1> QED BY <1>1, <1>2, ReadVarintType

LEMMA FromBytesWritten ==
    ASSUME NEW S \in Nat \ {0}, NEW id \in Identifier(S)
    PROVE  \/ S >= 256 /\ id.size > S % 256 /\ \E k : FromBytes(S, Write(id)) = Error(k)
           \/ \E x \in Identifier(S) : FromBytes(S, Write(id)) = Ok(x) /\ Eq(x, id)
<1>1. PICK w : w = Write(id)
  OBVIOUS
<1>2. PICK n \in 0..255 : n = id.size /\ n <= S
  BY IdentifierIs
<1>3. PICK k \in 1..2 : k = Prefix(n)
  BY VarintIs
<1>4. /\ w \in Seq(Byte) /\ Len(w) = k + n
      /\ ReadVarint(w) = Ok([n |-> n, took |-> k])
      /\ \A i \in 1..n : w[k + i] = id.bytes[i]
  BY <1>1, <1>2, <1>3, WriteIs
<1>5. CASE n > S % 256
  <2>1. S >= 256
    BY <1>2, <1>5
  <2>2. FromBytes(S, w) = Error("InvalidLength")
    BY <1>4, <1>5, FromBytesCases
  <2> QED BY <1>1, <1>2, <1>5, <2>1, <2>2
<1>6. CASE ~(n > S % 256)
  <2>1. ~(Len(w) < k + n) /\ ~(Len(w) > k + n)
    BY <1>4
  <2>2. FromBytes(S, w) = Ok(ReadId(S, w, n, k))
    BY <1>4, <1>6, <2>1, FromBytesCases
  <2>3. ReadId(S, w, n, k) \in Identifier(S)
    BY <1>2, <1>4, ReadIdType
  <2>4. ReadId(S, w, n, k).size = n
    BY DEF ReadId
  <2>5. \A i \in 1..n : ReadId(S, w, n, k).bytes[i] = id.bytes[i]
    <3> TAKE i \in 1..n
    <3>1. i \in 1..S /\ i <= n
      BY <1>2
    <3>2. ReadId(S, w, n, k).bytes[i] = w[k + i]
      BY <3>1 DEF ReadId
    <3> QED BY <1>4, <3>2
  <2>6. Eq(ReadId(S, w, n, k), id)
    BY <1>2, <2>4, <2>5, EqIs
  <2> QED BY <1>1, <2>2, <2>3, <2>6
<1> QED BY <1>5, <1>6

(* Serialize has no room only for a prefix of two bytes and all of S.      *)
LEMMA SerializeCases ==
    ASSUME NEW S \in Nat \ {0}, NEW id \in Identifier(S)
    PROVE  \/ Serialize(S, id) = Ok(Write(id)) /\ Len(Write(id)) <= 1 + S
           \/ Serialize(S, id) = Error("Serialize") /\ id.size = S /\ S >= 128
<1>1. PICK n \in 0..255 : n = id.size /\ n <= S
  BY IdentifierIs
<1>2. PICK k \in 1..2 : k = Prefix(n)
  BY VarintIs
<1>3. Len(Write(id)) = k + n
  BY <1>1, <1>2, WriteIs
<1>4. CASE k + n > 1 + S
  <2>1. k = 2 /\ n = S
    BY <1>1, <1>4
  <2>2. n >= 128
    BY <1>2, <2>1 DEF Prefix
  <2> QED BY <1>1, <1>3, <1>4, <2>1, <2>2 DEF Serialize
<1>5. CASE ~(k + n > 1 + S)
  BY <1>3, <1>5 DEF Serialize
<1> QED BY <1>4, <1>5

-----------------------------------------------------------------------------
(* Requests. Which parameter is taken, and what is made of it.             *)
LEMMA RequestIs ==
    ASSUME NEW r \in Request
    PROVE  /\ r.header \in Seq(Text) /\ r.query \in Seq(Parameter)
           /\ r = [header |-> r.header, query |-> r.query]
BY DEF Request

LEMMA ParameterIs ==
    ASSUME NEW query \in Seq(Parameter), NEW i \in DOMAIN query
    PROVE  query[i] \in Parameter /\ query[i].key \in Keys /\ query[i].value \in Text
<1>1. query[i] \in Parameter
  OBVIOUS
<1> QED BY <1>1 DEF Parameter

LEMMA FindType ==
    ASSUME NEW query \in Seq(Parameter), \E i \in DOMAIN query : Named(query[i])
    PROVE  Find(query) \in DOMAIN query
<1> DEFINE A == {i \in DOMAIN query : Named(query[i])}
<1>1. A \in SUBSET Nat /\ A # {}
  OBVIOUS
<1>2. PICK i \in A : \A j \in A : i <= j
  <2> HIDE DEF A
  <2> QED BY <1>1, Least
<1>3. i \in DOMAIN query /\ Named(query[i]) /\ \A j \in DOMAIN query : Named(query[j]) => i <= j
  BY <1>2
<1> QED BY <1>3, Zenon DEF Find

LEMMA FindIs ==
    ASSUME NEW query \in Seq(Parameter), NEW i \in DOMAIN query, Named(query[i]),
           \A j \in DOMAIN query : j < i => ~Named(query[j])
    PROVE  Find(query) = i
<1>1. DOMAIN query \subseteq Nat
  OBVIOUS
<1>2. \A j \in DOMAIN query : Named(query[j]) => i <= j
  BY <1>1
<1>3. /\ Find(query) \in DOMAIN query /\ Named(query[Find(query)])
      /\ \A j \in DOMAIN query : Named(query[j]) => Find(query) <= j
  BY <1>2, Zenon DEF Find
<1>4. PICK c : c = Find(query)
  OBVIOUS
<1>5. c \in Nat /\ i \in Nat /\ c <= i /\ i <= c
  BY <1>1, <1>2, <1>3, <1>4
<1> QED BY <1>4, <1>5

LEMMA RejectedIsGood ==
    ASSUME NEW S, NEW r, NEW k, Good(S, r)
    PROVE  Good(S, RejectErrors(r, k))
<1>1. CASE r.tag = "error"
  <2>1. RejectErrors(r, k) = Error(k)
    BY <1>1 DEF RejectErrors, Reject
  <2> QED BY <2>1, RefusalsAreGood
<1>2. CASE r.tag # "error"
  BY <1>2 DEF RejectErrors
<1> QED BY <1>1, <1>2

LEMMA RejectsNoOk == \A x, k : RejectErrors(Ok(x), k) = Ok(x)
BY DEF RejectErrors, Ok

LEMMA HeaderType ==
    ASSUME cap \in Nat \ {0}, NEW text \in Text
    PROVE  Good(cap, ExtractFromHeader(text))
<1>1. CASE text = <<>>
  BY <1>1, RefusalsAreGood DEF ExtractFromHeader, Reject
<1>2. CASE text # <<>>
  <2>1. Good(cap, FromStr(cap, text))
    BY FromStrType DEF Text
  <2> QED BY <1>2, <2>1, RejectedIsGood DEF ExtractFromHeader
<1> QED BY <1>1, <1>2

LEMMA QueryType ==
    ASSUME cap \in Nat \ {0}, NEW query \in Seq(Parameter)
    PROVE  Good(cap, ExtractFromQuery(query))
<1>1. CASE ~\E i \in DOMAIN query : Named(query[i])
  BY <1>1, RefusalsAreGood DEF ExtractFromQuery, Reject
<1>2. CASE \E i \in DOMAIN query : Named(query[i])
  <2>1. PICK d : d = PercentDecode(query[Find(query)].value)
    OBVIOUS
  <2>2. query[Find(query)].value \in Seq(Character)
    BY <1>2, FindType, ParameterIs DEF Text
  <2>3. d \in Outcomes
    BY <2>1, <2>2, PercentDecodeType
  <2>4. ExtractFromQuery(query) =
          IF d.tag # "ok" THEN Error("bad_query_parse")
          ELSE IF d.val = <<>> THEN Error("empty_query")
          ELSE RejectErrors(FromStr(cap, d.val), "bad_query_parse")
    BY <1>2, <2>1, Zenon DEF ExtractFromQuery, Reject
  <2>5. CASE d = Error("Decode")
    <3>1. d.tag # "ok"
      BY <2>5, ErrorIs
    <3> QED BY <2>4, <3>1, RefusalsAreGood
  <2>6. ASSUME NEW s \in Seq(Character), d = Ok(s) PROVE Good(cap, ExtractFromQuery(query))
    <3>1. d.tag = "ok" /\ d.val = s
      BY <2>6, OkIs
    <3>2. Good(cap, RejectErrors(FromStr(cap, s), "bad_query_parse"))
      BY FromStrType, RejectedIsGood
    <3>3. CASE s = <<>>
      BY <2>4, <3>1, <3>3, RefusalsAreGood
    <3>4. CASE s # <<>>
      BY <2>4, <3>1, <3>2, <3>4
    <3> QED BY <3>3, <3>4
  <2> QED BY <2>3, <2>5, <2>6 DEF Outcomes
<1> QED BY <1>1, <1>2

LEMMA QueryCarries ==
    ASSUME cap \in Nat \ {0}, NEW id \in Identifier(cap), NEW query \in Seq(Parameter),
           NEW i \in DOMAIN query, Carries(query, i, id)
    PROVE  \/ ExtractFromQuery(query) = Error("empty_query") /\ id.size = 0
           \/ \E x \in Identifier(cap) : ExtractFromQuery(query) = Ok(x) /\ Eq(x, id)
<1>1. Named(query[i]) /\ \A j \in DOMAIN query : j < i => ~Named(query[j])
  BY DEF Carries
<1>2. PICK t \in Seq(HexChar) : Spells(t, id) /\ Encodes(query[i].value, t)
  BY DEF Carries
<1>3. Find(query) = i
  BY <1>1, FindIs
<1>4. query[i].value \in Seq(Character)
  BY ParameterIs DEF Text
<1>5. PercentDecode(query[i].value) = Ok(t)
  BY <1>2, <1>4, EncodedDecodes
<1>6. PICK d : d = PercentDecode(query[Find(query)].value)
  OBVIOUS
<1>7. d.tag = "ok" /\ d.val = t
  BY <1>3, <1>5, <1>6, OkIs
<1>8. ExtractFromQuery(query) =
        IF d.tag # "ok" THEN Error("bad_query_parse")
        ELSE IF d.val = <<>> THEN Error("empty_query")
        ELSE RejectErrors(FromStr(cap, d.val), "bad_query_parse")
  BY <1>1, <1>6, Zenon DEF ExtractFromQuery, Reject
<1>9. CASE t = <<>>
  <2>1. PICK n \in 0..255 : n = id.size
    BY IdentifierIs
  <2>2. Len(t) = 2 * n /\ Len(t) = 0
    BY <1>2, <1>9, <2>1 DEF Spells
  <2>3. n = 0
    BY <2>2
  <2> QED BY <1>7, <1>8, <1>9, <2>1, <2>3
<1>10. CASE t # <<>>
  <2>1. PICK x \in Identifier(cap) : FromStr(cap, t) = Ok(x) /\ Eq(x, id)
    BY <1>2, FromStrSpelled
  <2>2. ExtractFromQuery(query) = RejectErrors(FromStr(cap, t), "bad_query_parse")
    BY <1>7, <1>8, <1>10
  <2>3. ExtractFromQuery(query) = Ok(x)
    BY <2>1, <2>2, RejectsNoOk
  <2> QED BY <2>1, <2>3
<1> QED BY <1>9, <1>10

-----------------------------------------------------------------------------
(* What lies between a client and the server.                              *)
Around(key, query) == <<Pair(key, <<7, 7>>)>> \o query \o <<Pair("peer_id", <<7, 7>>)>>

LEMMA SevenSeven == \A key \in Keys : Pair(key, <<7, 7>>) \in Parameter
<1>1. <<7, 7>> \in Seq(Character)
  BY DEF Character, HexChar
<1> QED BY <1>1 DEF Pair, Parameter, Text

Joins(w, u, v) ==
    /\ Len(w) = Len(u) + Len(v) /\ \A i \in 1..Len(u) : w[i] = u[i]
    /\ \A i \in 1..Len(v) : w[Len(u) + i] = v[i]

LEMMA Joined ==
    ASSUME NEW P, NEW u \in Seq(P), NEW v \in Seq(P)
    PROVE  u \o v \in Seq(P) /\ Joins(u \o v, u, v)
<1>1. u \o v \in Seq(P)
  OBVIOUS
<1>2. Len(u \o v) = Len(u) + Len(v) /\ \A i \in 1..Len(u) : (u \o v)[i] = u[i]
  OBVIOUS
<1>3. \A i \in 1..Len(v) : (u \o v)[Len(u) + i] = v[i]
  OBVIOUS
<1>4. PICK w : w = u \o v
  OBVIOUS
<1>5. Joins(w, u, v)
  BY <1>2, <1>3, <1>4 DEF Joins
<1> QED BY <1>1, <1>4, <1>5

LEMMA Single ==
    ASSUME NEW P, NEW q \in [1..1 -> P]
    PROVE  q \in Seq(P)
<1>1. q = [i \in 1..1 |-> q[i]] /\ \A i \in 1..1 : q[i] \in P
  OBVIOUS
<1>2. PICK n \in Nat : n = 1
  OBVIOUS
<1>3. \A i \in 1..n : q[i] \in P
  BY <1>1, <1>2
<1>4. [i \in 1..n |-> q[i]] \in Seq(P)
  BY <1>3
<1> QED BY <1>1, <1>2, <1>4

LEMMA AroundIs ==
    ASSUME NEW key \in Keys, NEW query \in Seq(Parameter), Len(query) = 1
    PROVE  /\ Around(key, query) \in Seq(Parameter) /\ Len(Around(key, query)) = 3
           /\ Around(key, query)[1].key = key /\ Around(key, query)[2] = query[1]
<1>1. PICK a \in Parameter : a = Pair(key, <<7, 7>>)
  BY SevenSeven
<1>2. PICK b \in Parameter : b = Pair("peer_id", <<7, 7>>)
  BY SevenSeven DEF Keys
<1>3. PICK q : q = <<a>> \o query \o <<b>>
  OBVIOUS
<1>4. q \in Seq(Parameter) /\ Len(q) = 3 /\ q[1] = a /\ q[2] = query[1]
  <2>1. PICK x : x = <<a>>
    OBVIOUS
  <2>2. x \in Seq(Parameter) /\ Len(x) = 1 /\ x[1] = a
    BY <2>1
  <2>3. PICK y : y = x \o query
    OBVIOUS
  <2>4. y \in Seq(Parameter) /\ Len(y) = 2 /\ y[1] = a /\ y[2] = query[1]
    <3>1. y \in Seq(Parameter) /\ Joins(y, x, query)
      BY <2>2, <2>3, Joined
    <3>2. Len(y) = 1 + 1 /\ y[1] = x[1] /\ y[1 + 1] = query[1]
      BY <2>2, <3>1 DEF Joins
    <3> QED BY <2>2, <3>1, <3>2
  <2>5. PICK z : z = <<b>>
    OBVIOUS
  <2>6. z \in Seq(Parameter) /\ Len(z) = 1
    BY <2>5
  <2>7. q = y \o z
    BY <1>3, <2>1, <2>3, <2>5
  <2>8. q \in Seq(Parameter) /\ Joins(q, y, z)
    BY <2>4, <2>6, <2>7, Joined
  <2>9. Len(q) = 3 /\ q[1] = y[1] /\ q[2] = y[2]
    BY <2>4, <2>6, <2>8 DEF Joins
  <2> QED BY <2>4, <2>8, <2>9
<1>5. a.key = key
  BY <1>1 DEF Pair
<1>6. Around(key, query) = q
  BY <1>1, <1>2, <1>3 DEF Around
<1> QED BY <1>4, <1>5, <1>6

LEMMA AroundCarries ==
    ASSUME NEW key \in Keys, key # "peer_id", NEW query \in Seq(Parameter), Len(query) = 1,
           NEW id, NEW i \in DOMAIN query, Carries(query, i, id)
    PROVE  2 \in DOMAIN Around(key, query) /\ Carries(Around(key, query), 2, id)
<1>1. PICK q : q = Around(key, query)
  OBVIOUS
<1>2. q \in Seq(Parameter) /\ Len(q) = 3 /\ q[1].key = key /\ q[2] = query[1]
  BY <1>1, AroundIs
<1>3. i = 1
  OBVIOUS
<1>4. DOMAIN q = 1..3
  BY <1>2
<1>5. Named(q[2]) /\ ~Named(q[1])
  BY <1>2, <1>3 DEF Carries, Named
<1>6. \A j \in DOMAIN q : j < 2 => ~Named(q[j])
  <2> TAKE j \in DOMAIN q
  <2>1. j < 2 => j = 1
    BY <1>4
  <2> QED BY <1>5, <2>1
<1>7. \E t \in Seq(HexChar) : Spells(t, id) /\ Encodes(q[2].value, t)
  BY <1>2, <1>3 DEF Carries
<1>8. 2 \in DOMAIN q /\ Carries(q, 2, id)
  BY <1>4, <1>5, <1>6, <1>7 DEF Carries
<1> QED BY <1>1, <1>8

Rewritten(query, text) == [query EXCEPT ![1].value = text]

LEMMA RewrittenIs ==
    ASSUME NEW query \in Seq(Parameter), Len(query) = 1, NEW text \in Text
    PROVE  /\ Rewritten(query, text) \in Seq(Parameter) /\ DOMAIN Rewritten(query, text) = {1}
           /\ Rewritten(query, text)[1].key = query[1].key /\ Rewritten(query, text)[1].value = text
<1>1. PICK p \in Parameter : p = query[1]
  OBVIOUS
<1>2. PICK r : r = [p EXCEPT !.value = text]
  OBVIOUS
<1>3. r \in Parameter /\ r.key = p.key /\ r.value = text
  BY <1>2 DEF Parameter
<1>4. PICK q : q = [query EXCEPT ![1] = r]
  OBVIOUS
<1>5. q \in Seq(Parameter) /\ DOMAIN q = {1} /\ q[1] = r
  <2>1. query \in [1..1 -> Parameter]
    OBVIOUS
  <2>2. q \in [1..1 -> Parameter] /\ q[1] = r
    BY <1>3, <1>4, <2>1
  <2>3. q \in Seq(Parameter)
    BY <2>2, Single
  <2> QED BY <2>2, <2>3
<1>6. Rewritten(query, text) = q
  BY <1>1, <1>2, <1>4 DEF Rewritten
<1> QED BY <1>1, <1>3, <1>5, <1>6

LEMMA RewrittenCarries ==
    ASSUME NEW query \in Seq(Parameter), Len(query) = 1, NEW text \in Text,
           NEW id, NEW i \in DOMAIN query, Carries(query, i, id),
           \A t \in Seq(HexChar) : Spells(t, id) /\ Encodes(query[1].value, t) => Encodes(text, t)
    PROVE  1 \in DOMAIN Rewritten(query, text) /\ Carries(Rewritten(query, text), 1, id)
<1>1. PICK q : q = Rewritten(query, text)
  OBVIOUS
<1>2. DOMAIN q = {1} /\ q[1].key = query[1].key /\ q[1].value = text
  BY <1>1, RewrittenIs
<1>3. i = 1
  OBVIOUS
<1>4. Named(q[1]) /\ \A j \in DOMAIN q : j < 1 => ~Named(q[j])
  BY <1>2, <1>3 DEF Carries, Named
<1>5. \E t \in Seq(HexChar) : Spells(t, id) /\ Encodes(q[1].value, t)
  BY <1>2, <1>3 DEF Carries
<1>6. Carries(q, 1, id)
  BY <1>4, <1>5 DEF Carries
<1> QED BY <1>1, <1>2, <1>6

LEMMA PlainCarries ==
    ASSUME NEW S \in Nat \ {0}, NEW id, NEW t \in Seq(HexChar), Spells(t, id)
    PROVE  LET query == <<Pair("peer_id", t)>> IN
           query \in Seq(Parameter) /\ 1 \in DOMAIN query /\ Carries(query, 1, id)
<1>1. PICK p : p = Pair("peer_id", t)
  OBVIOUS
<1>2. t \in Seq(Character)
  BY Digits
<1>3. p \in Parameter /\ p.key = "peer_id" /\ p.value = t
  BY <1>1, <1>2 DEF Pair, Parameter, Text, Keys
<1>4. PICK q : q = <<p>>
  OBVIOUS
<1>5. q \in Seq(Parameter) /\ DOMAIN q = {1} /\ q[1] = p
  BY <1>3, <1>4
<1>6. Encodes(t, t)
  BY EncodesItself
<1>7. Carries(q, 1, id)
  BY <1>3, <1>5, <1>6 DEF Carries, Named
<1> QED BY <1>1, <1>4, <1>5, <1>7

-----------------------------------------------------------------------------
(* Payloads. serde and the browser give back what they were given.         *)
SdpTypes == {"offer", "answer", "pranswer", "rollback"}

LEMMA SdpTypesMatch ==
    ASSUME NEW s \in SdpTypes
    PROVE  (\E t \in DOMAIN SdpTypeNames : SdpTypeNames[t] = s) /\ RtcSdpType(SdpTypeOf(s)) = s
<1>1. SdpTypeNames["Offer"] = "offer" /\ SdpTypeNames["Answer"] = "answer"
      /\ SdpTypeNames["Pranswer"] = "pranswer" /\ SdpTypeNames["Rollback"] = "rollback"
  BY DEF SdpTypeNames
<1>2. DOMAIN SdpTypeNames = {"Offer", "Answer", "Pranswer", "Rollback"}
  BY DEF SdpTypeNames
<1>3. \E t \in DOMAIN SdpTypeNames : SdpTypeNames[t] = s
  BY <1>1, <1>2 DEF SdpTypes
<1>4. SdpTypeNames[SdpTypeOf(s)] = s
  BY <1>3, Zenon DEF SdpTypeOf
<1> QED BY <1>3, <1>4 DEF RtcSdpType

LEMMA PayloadCases ==
    ASSUME NEW p \in Payloads
    PROVE  \/ p.kind = "description" /\ p.type \in SdpTypes
              /\ p = [kind |-> p.kind, type |-> p.type, sdp |-> p.sdp]
           \/ p.kind = "candidate"
              /\ p = [kind |-> p.kind, candidate |-> p.candidate,
                      sdpMid |-> p.sdpMid, sdpMLineIndex |-> p.sdpMLineIndex,
                      usernameFragment |-> p.usernameFragment]
BY PayloadsAssumption DEF SdpTypes

LEMMA OptionsMatch == \A x : FromOption(ToOption(x)) = x /\ (ToOption(x) = <<>> <=> x = Null)
BY DEF FromOption, ToOption

LEMMA NoneMatches == FromOption(<<>>) = Null /\ ToOption(Null) = <<>>
BY DEF FromOption, ToOption

LEMMA SomeMatches == \A x : FromOption(<<x>>) = x /\ (x # Null => ToOption(x) = <<x>>) /\ <<x>> # <<>>
BY DEF FromOption, ToOption

(* A candidate as a Rust value, from its three options.                    *)
Candidate(c, l, m) == [kind |-> "candidate", candidate |-> c, sdp_m_line_index |-> l, sdp_mid |-> m]

LEMMA IceCandidateIs ==
    ASSUME NEW p
    PROVE  \/ p.candidate = Null /\ IceCandidate(p) = Candidate(<<>>, <<>>, <<>>)
           \/ p.candidate # Null
              /\ IceCandidate(p) = Candidate(<<p.candidate>>, ToOption(p.sdpMLineIndex), ToOption(p.sdpMid))
BY DEF IceCandidate, EndOfCandidates, Candidate

LEMMA CandidateHas ==
    ASSUME NEW c, NEW l, NEW m
    PROVE  LET x == Candidate(c, l, m) IN
           x.kind = "candidate" /\ x.candidate = c /\ x.sdp_m_line_index = l /\ x.sdp_mid = m
BY DEF Candidate

LEMMA CandidateReturns ==
    ASSUME NEW c, NEW l, NEW m,
           ToOption(FromOption(c)) = c, ToOption(FromOption(l)) = l, ToOption(FromOption(m)) = m
    PROVE  FromJson(ToJson(Candidate(c, l, m))) = Candidate(c, l, m)
<1>1. PICK j : j = ToJson(Candidate(c, l, m))
  OBVIOUS
<1>2. j = [kind |-> "web_rtc_candidate", candidate |-> FromOption(c),
           sdp_m_line_index |-> FromOption(l), sdp_mid |-> FromOption(m)]
  BY <1>1, CandidateHas DEF ToJson
<1>3. j.kind # "web_rtc_offer" /\ j.candidate = FromOption(c)
      /\ j.sdp_m_line_index = FromOption(l) /\ j.sdp_mid = FromOption(m)
  BY <1>2
<1>4. FromJson(j) = [kind |-> "candidate", candidate |-> ToOption(j.candidate),
                     sdp_m_line_index |-> ToOption(j.sdp_m_line_index), sdp_mid |-> ToOption(j.sdp_mid)]
  BY <1>3 DEF FromJson
<1>5. FromJson(j) = Candidate(c, l, m)
  BY <1>3, <1>4 DEF Candidate
<1> QED BY <1>1, <1>5

LEMMA EventReturns ==
    ASSUME NEW p \in Payloads
    PROVE  FromJson(ToJson(EventOf(p))) = EventOf(p)
<1>1. CASE p.kind = "description"
  <2>1. PICK t : t = SdpTypeOf(p.type)
    OBVIOUS
  <2>2. PICK e : e = [kind |-> "description", sdp_type |-> t, sdp |-> p.sdp]
    OBVIOUS
  <2>3. EventOf(p) = e
    BY <1>1, <2>1, <2>2 DEF EventOf
  <2>4. PICK j : j = [kind |-> "web_rtc_offer", sdp_type |-> t, sdp |-> p.sdp]
    OBVIOUS
  <2>5. ToJson(e) = j
    BY <2>2, <2>4 DEF ToJson
  <2>6. FromJson(j) = e
    BY <2>2, <2>4 DEF FromJson
  <2> QED BY <2>3, <2>5, <2>6
<1>2. CASE p.kind = "candidate"
  <2>1. EventOf(p) = IceCandidate(p)
    BY <1>2 DEF EventOf
  <2>2. CASE p.candidate = Null
    <3>1. IceCandidate(p) = Candidate(<<>>, <<>>, <<>>)
      BY <2>2, IceCandidateIs
    <3>2. ToOption(FromOption(<<>>)) = <<>>
      BY NoneMatches
    <3> QED BY <2>1, <3>1, <3>2, CandidateReturns
  <2>3. CASE p.candidate # Null
    <3>1. PICK c, l, m : c = <<p.candidate>> /\ l = ToOption(p.sdpMLineIndex) /\ m = ToOption(p.sdpMid)
      OBVIOUS
    <3>2. ToOption(FromOption(c)) = c
      BY <2>3, <3>1, SomeMatches
    <3>3. ToOption(FromOption(l)) = l /\ ToOption(FromOption(m)) = m
      BY <3>1, OptionsMatch
    <3>4. IceCandidate(p) = Candidate(c, l, m)
      BY <2>3, <3>1, IceCandidateIs
    <3> QED BY <2>1, <3>2, <3>3, <3>4, CandidateReturns
  <2> QED BY <2>2, <2>3
<1> QED BY <1>1, <1>2, PayloadCases

(* The event the one browser's object becomes.                             *)
LEMMA LeavesBrowser ==
    ASSUME NEW p \in Payloads
    PROVE  (IF p.kind = "description" THEN SessionDescription(p) ELSE Ok(IceCandidate(p))) = Ok(EventOf(p))
<1>1. CASE p.kind = "description"
  <2>1. \E t \in DOMAIN SdpTypeNames : SdpTypeNames[t] = p.type
    BY <1>1, PayloadCases, SdpTypesMatch
  <2>2. SessionDescription(p) = Ok([kind |-> "description", sdp_type |-> SdpTypeOf(p.type), sdp |-> p.sdp])
    BY <2>1, Zenon DEF SessionDescription
  <2> QED BY <1>1, <2>2 DEF EventOf
<1>2. CASE p.kind # "description"
  BY <1>2 DEF EventOf
<1> QED BY <1>1, <1>2

(* A candidate without its fragment becomes the same event.                *)
LEMMA BareIsTheSame ==
    ASSUME NEW p \in Payloads
    PROVE  (IF Bare(p).kind = "description" THEN SessionDescription(Bare(p)) ELSE Ok(IceCandidate(Bare(p))))
               = Ok(EventOf(p))
<1>1. CASE p.kind = "description"
  BY <1>1, LeavesBrowser DEF Bare
<1>2. CASE p.kind = "candidate"
  <2>1. PICK b : b = Bare(p)
    OBVIOUS
  <2>2. p = [kind |-> p.kind, candidate |-> p.candidate, sdpMid |-> p.sdpMid,
             sdpMLineIndex |-> p.sdpMLineIndex, usernameFragment |-> p.usernameFragment]
    BY <1>2, PayloadCases
  <2>3. b.kind = "candidate" /\ b.candidate = p.candidate
        /\ b.sdpMid = p.sdpMid /\ b.sdpMLineIndex = p.sdpMLineIndex
    BY <1>2, <2>1, <2>2 DEF Bare, WithoutFragment
  <2>4. IceCandidate(b) = IceCandidate(p)
    BY <2>3 DEF IceCandidate
  <2> QED BY <1>2, <2>1, <2>3, <2>4 DEF EventOf
<1> QED BY <1>1, <1>2, PayloadCases

(* The object the other browser is given for it, or the error it meets.    *)
Returned(e) == IF e.kind = "description" THEN RtcDescriptionInit(e) ELSE RtcIceCandidate(e)

LEMMA EntersBrowser ==
    ASSUME NEW p \in Payloads
    PROVE  \/ Returned(EventOf(p)) = Ok(Bare(p))
           \/ Returned(EventOf(p)) = Error("EndOfCandidates") /\ p.candidate = Null
           \/ Returned(EventOf(p)) = Error("JsError") /\ p.sdpMid = Null /\ p.sdpMLineIndex = Null
<1>1. CASE p.kind = "description"
  <2>1. PICK e : e = [kind |-> "description", sdp_type |-> SdpTypeOf(p.type), sdp |-> p.sdp]
    OBVIOUS
  <2>2. EventOf(p) = e
    BY <1>1, <2>1 DEF EventOf
  <2>3. p.type \in SdpTypes /\ p = [kind |-> p.kind, type |-> p.type, sdp |-> p.sdp]
    BY <1>1, PayloadCases
  <2>4. e.kind = "description" /\ e.sdp = p.sdp /\ RtcSdpType(e.sdp_type) = p.type
    BY <2>1, <2>3, SdpTypesMatch
  <2>5. Returned(e) = Ok([kind |-> "description", type |-> p.type, sdp |-> p.sdp])
    BY <2>4 DEF Returned, RtcDescriptionInit
  <2> QED BY <1>1, <2>2, <2>3, <2>5 DEF Bare
<1>2. CASE p.kind = "candidate"
  <2>1. EventOf(p) = IceCandidate(p)
    BY <1>2 DEF EventOf
  <2>2. CASE p.candidate = Null
    <3>1. PICK e : e = Candidate(<<>>, <<>>, <<>>)
      OBVIOUS
    <3>2. e.kind = "candidate" /\ e.candidate = <<>>
      BY <3>1, CandidateHas
    <3>3. Returned(e) = Error("EndOfCandidates")
      BY <3>2 DEF Returned, RtcIceCandidate, IsEndOfCandidates
    <3> QED BY <2>1, <2>2, <3>1, <3>3, IceCandidateIs
  <2>3. CASE p.candidate # Null
    <3>1. PICK c, l, m : c = <<p.candidate>> /\ l = ToOption(p.sdpMLineIndex) /\ m = ToOption(p.sdpMid)
      OBVIOUS
    <3>2. PICK e : e = Candidate(c, l, m)
      OBVIOUS
    <3>3. e.kind = "candidate" /\ e.candidate = c /\ e.sdp_m_line_index = l /\ e.sdp_mid = m
      BY <3>2, CandidateHas
    <3>4. c # <<>> /\ c[1] = p.candidate
      BY <3>1
    <3>5. FromOption(l) = p.sdpMLineIndex /\ FromOption(m) = p.sdpMid
          /\ (l = <<>> => p.sdpMLineIndex = Null) /\ (m = <<>> => p.sdpMid = Null)
      BY <3>1, OptionsMatch
    <3>6. Returned(e) = IF m = <<>> /\ l = <<>> THEN Error("JsError")
                        ELSE Ok([kind |-> "candidate", candidate |-> c[1],
                                 sdpMLineIndex |-> FromOption(l), sdpMid |-> FromOption(m),
                                 usernameFragment |-> Null])
      BY <3>3, <3>4 DEF Returned, RtcIceCandidate, IsEndOfCandidates
    <3>7. EventOf(p) = e
      BY <2>1, <2>3, <3>1, <3>2, IceCandidateIs
    <3>8. CASE m = <<>> /\ l = <<>>
      BY <3>5, <3>6, <3>7, <3>8
    <3>9. CASE ~(m = <<>> /\ l = <<>>)
      <4>1. Returned(e) = Ok([kind |-> "candidate", candidate |-> p.candidate,
                              sdpMLineIndex |-> p.sdpMLineIndex, sdpMid |-> p.sdpMid,
                              usernameFragment |-> Null])
        BY <3>4, <3>5, <3>6, <3>9
      <4>2. p = [kind |-> "candidate", candidate |-> p.candidate,
                 sdpMid |-> p.sdpMid, sdpMLineIndex |-> p.sdpMLineIndex,
                 usernameFragment |-> p.usernameFragment]
        BY <1>2, PayloadCases
      <4>3. Bare(p) = [kind |-> "candidate", candidate |-> p.candidate,
                       sdpMid |-> p.sdpMid, sdpMLineIndex |-> p.sdpMLineIndex,
                       usernameFragment |-> Null]
        BY <1>2, <4>2 DEF Bare, WithoutFragment
      <4> QED BY <3>7, <4>1, <4>3
    <3> QED BY <3>8, <3>9
  <2> QED BY <2>2, <2>3
<1> QED BY <1>1, <1>2, PayloadCases

-----------------------------------------------------------------------------
(* What a conversion leaves of the invariant, by its outcome.              *)
LEMMA CapIs == ASSUME cap \in Capacities PROVE cap \in Nat \ {0}
BY CapacitiesAssumption

LEMMA AcceptedIsNoNoId == ASSUME cap \in Capacities, first \in Identifier(cap) PROVE first # NoId
BY NoIdAssumption DEF Identifier

LEMMA FirstAccepted ==
    ASSUME cap \in Capacities, first = NoId, NEW r, Good(cap, r), Accept(r)
    PROVE  TravelInv'
<1>1. cap' = cap /\ val' = r.val /\ form' = (IF r.tag = "ok" THEN "id" ELSE r.tag)
      /\ first' = IF r.tag = "ok" THEN r.val ELSE first
  BY DEF Accept
<1>2. CASE r.tag = "ok"
  <2>1. r.val \in Identifier(cap) /\ Eq(r.val, r.val)
    BY <1>2 DEF Good, Eq
  <2>2. Accepted'
    BY <1>1, <1>2, <2>1 DEF Accepted
  <2> QED BY <1>1, <2>2 DEF TravelInv
<1>3. CASE r.tag \in {"error", "panic"}
  <2>1. NotYet'
    BY <1>1, <1>3 DEF NotYet
  <2> QED BY <1>1, <2>1 DEF TravelInv
<1> QED BY <1>2, <1>3 DEF Good

(* The errors of a conversion into an identifier.                          *)
Refusal(r) ==
    \E k : /\ r = Error(k)
           /\ \/ k \in {"empty_header", "empty_query"} /\ first.size = 0
              \/ k = "Deserialize" /\ cap >= 256 /\ first.size > cap % 256

LEMMA AcceptedAgain ==
    ASSUME cap \in Capacities, first \in Identifier(cap), NEW r, Accept(r),
           Refusal(r) \/ \E x \in Identifier(cap) : r = Ok(x) /\ Eq(x, first)
    PROVE  TravelInv'
<1>1. cap' = cap /\ val' = r.val /\ form' = (IF r.tag = "ok" THEN "id" ELSE r.tag) /\ first' = first
  BY AcceptedIsNoNoId DEF Accept
<1>2. CASE Refusal(r)
  <2>1. PICK k : /\ r = Error(k)
                 /\ \/ k \in {"empty_header", "empty_query"} /\ first.size = 0
                    \/ k = "Deserialize" /\ cap >= 256 /\ first.size > cap % 256
    BY <1>2 DEF Refusal
  <2>2. r.tag = "error" /\ r.val = k
    BY <2>1, ErrorIs
  <2>3. form' = "error" /\ RefusedId'
    BY <1>1, <2>1, <2>2 DEF RefusedId
  <2>4. Accepted'
    BY <1>1, <2>3 DEF Accepted
  <2> QED BY <1>1, <2>4 DEF TravelInv
<1>3. ASSUME NEW x \in Identifier(cap), r = Ok(x), Eq(x, first) PROVE TravelInv'
  <2>1. r.tag = "ok" /\ r.val = x
    BY <1>3, OkIs
  <2>2. Accepted'
    BY <1>1, <1>3, <2>1 DEF Accepted
  <2> QED BY <1>1, <2>2 DEF TravelInv
<1> QED BY <1>2, <1>3

LEMMA Becomes ==
    ASSUME NEW f, NEW x, Become(f, Ok(x))
    PROVE  form' = f /\ val' = x /\ cap' = cap /\ first' = first
BY OkIs DEF Become

LEMMA BecomesError ==
    ASSUME NEW f, NEW k, Become(f, Error(k))
    PROVE  form' = "error" /\ val' = k /\ cap' = cap /\ first' = first
BY ErrorIs DEF Become

-----------------------------------------------------------------------------
LEMMA TravelInit == Init => TravelInv
<1> SUFFICES ASSUME Init PROVE TravelInv
  OBVIOUS
<1>1. cap \in Capacities
  BY DEF Init
<1>2. CASE form = "new" /\ first = NoId
  BY <1>1, <1>2 DEF TravelInv, NotYet
<1>3. CASE form = "text" /\ val \in Texts(cap) /\ first = NoId
  <2>1. val \in Text
    BY <1>1, <1>3, InputsAssumption DEF Text
  <2> QED BY <1>1, <1>3, <2>1 DEF TravelInv, NotYet
<1>4. CASE form = "request" /\ val \in Requests(cap) /\ first = NoId
  <2>1. val \in Request
    BY <1>1, <1>4, InputsAssumption DEF Text, Request, Parameter
  <2> QED BY <1>1, <1>4, <2>1 DEF TravelInv, NotYet
<1>5. CASE form = "wire" /\ val \in Wires(cap) /\ first = NoId
  <2>1. val \in Seq(Byte)
    BY <1>1, <1>5, InputsAssumption DEF Byte
  <2> QED BY <1>1, <1>5, <2>1 DEF TravelInv, NotYet
<1>6. CASE form = "browser" /\ val \in Payloads /\ first = val
  BY <1>1, <1>6 DEF TravelInv, Sent
<1> QED BY <1>2, <1>3, <1>4, <1>5, <1>6 DEF Init

LEMMA RandomKeeps == ASSUME TravelInv, Random PROVE TravelInv'
<1>1. cap \in Capacities /\ form = "new"
  BY DEF TravelInv, Random
<1>2. first = NoId
  BY <1>1 DEF TravelInv, NotYet, Accepted, Sent
<1>3. PICK ch \in 0..15 : Accept(FromStr(cap, [i \in 1..64 |-> ch]))
  BY DEF Random
<1>4. [i \in 1..64 |-> ch] \in Seq(Character)
  <2>1. ch \in Character
    BY Digits
  <2> QED BY <2>1
<1>5. PICK s \in Seq(Character) : s = [i \in 1..64 |-> ch]
  BY <1>4
<1>6. Good(cap, FromStr(cap, s))
  BY <1>1, CapIs, FromStrType
<1> QED BY <1>1, <1>2, <1>3, <1>5, <1>6, FirstAccepted

LEMMA TryFromKeeps == ASSUME TravelInv, TryFrom PROVE TravelInv'
<1>1. cap \in Capacities /\ cap \in Nat \ {0} /\ form = "text" /\ Accept(FromStr(cap, val))
  BY CapIs DEF TravelInv, TryFrom
<1>2. CASE NotYet
  <2>1. first = NoId /\ val \in Text
    BY <1>1, <1>2 DEF NotYet
  <2>2. Good(cap, FromStr(cap, val))
    BY <1>1, <2>1, FromStrType DEF Text
  <2> QED BY <1>1, <2>1, <2>2, FirstAccepted
<1>3. CASE Accepted
  <2>1. first \in Identifier(cap) /\ Spells(val, first)
    BY <1>1, <1>3 DEF Accepted
  <2>2. \E x \in Identifier(cap) : FromStr(cap, val) = Ok(x) /\ Eq(x, first)
    BY <1>1, <2>1, FromStrSpelled
  <2> QED BY <1>1, <2>1, <2>2, AcceptedAgain
<1> QED BY <1>1, <1>2, <1>3 DEF TravelInv, Sent

LEMMA FromRequestPartsKeeps == ASSUME TravelInv, FromRequestParts PROVE TravelInv'
<1> DEFINE r == IF val.header # <<>> THEN ExtractFromHeader(val.header[1]) ELSE ExtractFromQuery(val.query)
<1>1. cap \in Capacities /\ cap \in Nat \ {0} /\ form = "request" /\ Accept(r)
  BY CapIs DEF TravelInv, FromRequestParts
<1>2. CASE NotYet
  <2>1. first = NoId /\ val \in Request
    BY <1>1, <1>2 DEF NotYet
  <2>2. val.header \in Seq(Text) /\ val.query \in Seq(Parameter)
    BY <2>1, RequestIs
  <2>3. val.header # <<>> => val.header[1] \in Text
    BY <2>2
  <2>4. Good(cap, r)
    BY <1>1, <2>2, <2>3, HeaderType, QueryType
  <2> HIDE DEF r
  <2> QED BY <1>1, <2>1, <2>4, FirstAccepted
<1>3. CASE Accepted
  <2>1. first \in Identifier(cap) /\ val \in Request /\ val.header = <<>>
    BY <1>1, <1>3 DEF Accepted
  <2>2. PICK i \in DOMAIN val.query : Carries(val.query, i, first)
    BY <1>1, <1>3 DEF Accepted
  <2>3. val.query \in Seq(Parameter)
    BY <2>1, RequestIs
  <2>4. r = ExtractFromQuery(val.query)
    BY <2>1
  <2> HIDE DEF r
  <2>5. \/ r = Error("empty_query") /\ first.size = 0
        \/ \E x \in Identifier(cap) : r = Ok(x) /\ Eq(x, first)
    BY <1>1, <2>1, <2>2, <2>3, <2>4, QueryCarries
  <2>6. Refusal(r) \/ \E x \in Identifier(cap) : r = Ok(x) /\ Eq(x, first)
    BY <2>5 DEF Refusal
  <2> QED BY <1>1, <2>1, <2>6, AcceptedAgain
<1> QED BY <1>1, <1>2, <1>3 DEF TravelInv, Sent

LEMMA Rejected ==
    ASSUME NEW r, NEW k, NEW S, \E x \in Identifier(S) : r = Ok(x) /\ Eq(x, first)
    PROVE  \E x \in Identifier(S) : RejectErrors(r, k) = Ok(x) /\ Eq(x, first)
BY RejectsNoOk

(* Bytes, which visit_bytes and visit_seq read alike if there are not too  *)
(* many of them.                                                           *)
LEMMA BytesKeep ==
    ASSUME TravelInv, form = "wire", NEW r, Accept(RejectErrors(r, "Deserialize")),
           \/ r = FromBytes(cap, val)
           \/ r = Deserialize(cap, val)
    PROVE  TravelInv'
<1>1. cap \in Capacities /\ cap \in Nat \ {0}
  BY CapIs DEF TravelInv
<1>2. CASE NotYet
  <2>1. first = NoId /\ val \in Seq(Byte)
    BY <1>2 DEF NotYet
  <2>2. Good(cap, FromBytes(cap, val))
    BY <1>1, <2>1, FromBytesType
  <2>3. Good(cap, r)
    BY <2>2, RefusalsAreGood DEF Deserialize
  <2>4. Good(cap, RejectErrors(r, "Deserialize"))
    BY <2>3, RejectedIsGood
  <2> QED BY <1>1, <2>1, <2>4, FirstAccepted
<1>3. CASE Accepted
  <2>1. first \in Identifier(cap) /\ val = Write(first) /\ Len(val) <= 1 + cap
    BY <1>3 DEF Accepted
  <2>2. r = FromBytes(cap, Write(first))
    <3>1. ~(Len(val) > 1 + cap)
      <4>1. val \in Seq(Byte)
        BY <1>1, <2>1, WriteIs
      <4>2. PICK l \in Nat : l = Len(val)
        BY <4>1
      <4> QED BY <1>1, <2>1, <4>2
    <3> QED BY <2>1, <3>1 DEF Deserialize
  <2>3. \/ cap >= 256 /\ first.size > cap % 256 /\ \E k : r = Error(k)
        \/ \E x \in Identifier(cap) : r = Ok(x) /\ Eq(x, first)
    BY <1>1, <2>1, <2>2, FromBytesWritten
  <2>4. CASE cap >= 256 /\ first.size > cap % 256 /\ \E k : r = Error(k)
    <3>1. RejectErrors(r, "Deserialize") = Error("Deserialize")
      BY <2>4, ErrorIs DEF RejectErrors, Reject
    <3>2. Refusal(RejectErrors(r, "Deserialize"))
      BY <1>1, <2>4, <3>1 DEF Refusal
    <3> QED BY <1>1, <2>1, <3>2, AcceptedAgain
  <2>5. CASE \E x \in Identifier(cap) : r = Ok(x) /\ Eq(x, first)
    <3>1. \E x \in Identifier(cap) : RejectErrors(r, "Deserialize") = Ok(x) /\ Eq(x, first)
      BY <2>5, Rejected
    <3> QED BY <1>1, <2>1, <3>1, AcceptedAgain
  <2> QED BY <2>3, <2>4, <2>5
<1> QED BY <1>2, <1>3 DEF TravelInv, Sent

LEMMA VisitsKeep == ASSUME TravelInv, VisitBytes \/ VisitSeq PROVE TravelInv'
<1>1. CASE VisitBytes
  <2>1. PICK r : r = FromBytes(cap, val)
    OBVIOUS
  <2>2. form = "wire" /\ Accept(RejectErrors(r, "Deserialize"))
    BY <1>1, <2>1 DEF VisitBytes
  <2> QED BY <2>1, <2>2, BytesKeep
<1>2. CASE VisitSeq
  <2>1. PICK r : r = Deserialize(cap, val)
    OBVIOUS
  <2>2. form = "wire" /\ Accept(RejectErrors(r, "Deserialize"))
    BY <1>2, <2>1 DEF VisitSeq
  <2> QED BY <2>1, <2>2, BytesKeep
<1> QED BY <1>1, <1>2

-----------------------------------------------------------------------------
LEMMA HeldId ==
    ASSUME TravelInv, form = "id"
    PROVE  cap \in Capacities /\ cap \in Nat \ {0} /\ first \in Identifier(cap)
           /\ val \in Identifier(cap) /\ Eq(val, first)
BY CapIs DEF TravelInv, NotYet, Accepted, Sent

LEMMA ToTextKeeps == ASSUME TravelInv, ToText PROVE TravelInv'
<1>1. form = "id" /\ Become("text", Ok(Display(val)))
  BY DEF ToText
<1>2. form' = "text" /\ val' = Display(val) /\ cap' = cap /\ first' = first
  BY <1>1, Becomes
<1>3. Spells(Display(val), first)
  BY <1>1, HeldId, DisplaySpells, SpellsEqual
<1>4. Accepted'
  BY <1>1, <1>2, <1>3, HeldId DEF Accepted
<1> QED BY <1>1, <1>2, <1>4, HeldId DEF TravelInv

LEMMA ToRequestKeeps == ASSUME TravelInv, ToRequest PROVE TravelInv'
<1>1. PICK t : t = Display(val)
  OBVIOUS
<1>2. PICK q : q = <<Pair("peer_id", t)>>
  OBVIOUS
<1>3. form = "id" /\ Become("request", Ok([header |-> <<>>, query |-> q]))
  BY <1>1, <1>2 DEF ToRequest
<1>4. form' = "request" /\ val' = [header |-> <<>>, query |-> q] /\ cap' = cap /\ first' = first
  BY <1>3, Becomes
<1>5. Spells(t, first)
  BY <1>1, <1>3, HeldId, DisplaySpells, SpellsEqual
<1>6. t \in Seq(HexChar)
  BY <1>5 DEF Spells
<1>7. q \in Seq(Parameter) /\ 1 \in DOMAIN q /\ Carries(q, 1, first)
  BY <1>2, <1>3, <1>5, <1>6, HeldId, PlainCarries
<1>8. val' \in Request /\ val'.header = <<>> /\ val'.query = q
  <2>1. <<>> \in Seq(Text)
    OBVIOUS
  <2> QED BY <1>4, <1>7, <2>1 DEF Request
<1>9. \E i \in DOMAIN val'.query : Carries(val'.query, i, first')
  BY <1>4, <1>7, <1>8
<1>10. Accepted'
  BY <1>3, <1>4, <1>8, <1>9, HeldId DEF Accepted
<1> QED BY <1>3, <1>4, <1>10, HeldId DEF TravelInv

LEMMA ToWireKeeps == ASSUME TravelInv, ToWire PROVE TravelInv'
<1>1. form = "id" /\ Become("wire", Serialize(cap, val))
  BY DEF ToWire
<1>2. cap \in Capacities /\ cap \in Nat \ {0} /\ first \in Identifier(cap)
      /\ val \in Identifier(cap) /\ Eq(val, first)
  BY <1>1, HeldId
<1>3. Write(val) = Write(first) /\ val.size = first.size
  BY <1>2, EqualWrite, EqSays
<1>4. CASE Serialize(cap, val) = Ok(Write(val)) /\ Len(Write(val)) <= 1 + cap
  <2>1. form' = "wire" /\ val' = Write(val) /\ cap' = cap /\ first' = first
    BY <1>1, <1>4, Becomes
  <2>2. Accepted'
    BY <1>2, <1>3, <1>4, <2>1 DEF Accepted
  <2> QED BY <1>2, <2>1, <2>2 DEF TravelInv
<1>5. CASE Serialize(cap, val) = Error("Serialize") /\ val.size = cap /\ cap >= 128
  <2>1. form' = "error" /\ val' = "Serialize" /\ cap' = cap /\ first' = first
    BY <1>1, <1>5, BecomesError
  <2>2. RefusedId'
    BY <1>3, <1>5, <2>1 DEF RefusedId
  <2>3. Accepted'
    BY <1>2, <2>1, <2>2 DEF Accepted
  <2> QED BY <1>2, <2>1, <2>3 DEF TravelInv
<1> QED BY <1>2, <1>4, <1>5, SerializeCases

LEMMA CapitaliseKeeps == ASSUME TravelInv, Capitalise PROVE TravelInv'
<1>1. form = "text" /\ Become("text", Ok(Capitals(val))) /\ cap \in Capacities
  BY DEF Capitalise, TravelInv
<1>2. form' = "text" /\ val' = Capitals(val) /\ cap' = cap /\ first' = first
  BY <1>1, Becomes
<1>3. CASE NotYet
  <2>1. first = NoId /\ val \in Text
    BY <1>1, <1>3 DEF NotYet
  <2>2. Capitals(val) \in Text
    BY <2>1, CapitalsAt DEF Text
  <2>3. NotYet'
    BY <1>2, <2>1, <2>2 DEF NotYet
  <2> QED BY <1>1, <1>2, <2>3 DEF TravelInv
<1>4. CASE Accepted
  <2>1. first \in Identifier(cap) /\ Spells(val, first)
    BY <1>1, <1>4 DEF Accepted
  <2>2. Spells(Capitals(val), first)
    BY <1>1, <2>1, CapIs, CapitalsSpell
  <2>3. Accepted'
    BY <1>2, <2>1, <2>2 DEF Accepted
  <2> QED BY <1>1, <1>2, <2>3 DEF TravelInv
<1> QED BY <1>1, <1>3, <1>4 DEF TravelInv, Sent

(* A request that keeps its form: it needs only stay a request, and carry  *)
(* the identifier if it did.                                               *)
LEMMA RequestKeeps ==
    ASSUME TravelInv, AsSent, NEW query \in Seq(Parameter),
           Become("request", Ok([val EXCEPT !.query = query])),
           Accepted /\ (\E i \in DOMAIN val.query : Carries(val.query, i, first))
             => \E i \in DOMAIN query : Carries(query, i, first)
    PROVE  TravelInv'
<1>1. PICK r : r = [val EXCEPT !.query = query]
  OBVIOUS
<1>2. form = "request" /\ val.header = <<>> /\ cap \in Capacities
  BY DEF AsSent, TravelInv
<1>3. val \in Request
  BY <1>2 DEF TravelInv, NotYet, Accepted, Sent
<1>4. r \in Request /\ r.header = <<>> /\ r.query = query
  BY <1>1, <1>2, <1>3 DEF Request
<1>5. form' = "request" /\ val' = r /\ cap' = cap /\ first' = first
  BY <1>1, Becomes
<1>6. CASE NotYet
  <2>1. NotYet'
    BY <1>4, <1>5, <1>6 DEF NotYet
  <2> QED BY <1>2, <1>5, <2>1 DEF TravelInv
<1>7. CASE Accepted
  <2>1. first \in Identifier(cap) /\ \E i \in DOMAIN val.query : Carries(val.query, i, first)
    BY <1>2, <1>7 DEF Accepted
  <2>2. \E i \in DOMAIN query : Carries(query, i, first)
    BY <1>7, <2>1
  <2>3. \E i \in DOMAIN val'.query : Carries(val'.query, i, first')
    BY <1>4, <1>5, <2>2
  <2>4. Accepted'
    BY <1>4, <1>5, <2>1, <2>3 DEF Accepted
  <2> QED BY <1>2, <1>5, <2>4 DEF TravelInv
<1> QED BY <1>2, <1>6, <1>7 DEF TravelInv, Sent

LEMMA AsSentIs ==
    ASSUME TravelInv, AsSent
    PROVE  /\ cap \in Capacities /\ val.query \in Seq(Parameter) /\ Len(val.query) = 1
           /\ val.query[1].value \in Seq(Character) /\ form = "request"
           /\ DOMAIN val.query = {1}
<1>1. cap \in Capacities /\ form = "request" /\ Len(val.query) = 1
  BY DEF AsSent, TravelInv
<1>2. val \in Request
  BY <1>1 DEF TravelInv, NotYet, Accepted, Sent
<1>3. PICK q : q = val.query
  OBVIOUS
<1>4. q \in Seq(Parameter) /\ Len(q) = 1
  BY <1>1, <1>2, <1>3, RequestIs
<1>5. DOMAIN q = {1}
  BY <1>4
<1>6. q[1].value \in Seq(Character)
  BY <1>4, <1>5, ParameterIs DEF Text
<1> QED BY <1>1, <1>3, <1>4, <1>5, <1>6

LEMMA AddParametersKeeps == ASSUME TravelInv, AddParameters PROVE TravelInv'
<1>1. PICK key \in {"other", "none"} :
        Become("request", Ok([val EXCEPT !.query = Around(key, val.query)]))
  BY DEF AddParameters, Around
<1>2. AsSent /\ key \in Keys /\ key # "peer_id"
  BY DEF AddParameters, Keys
<1>3. val.query \in Seq(Parameter) /\ Len(val.query) = 1
  BY <1>2, AsSentIs
<1>4. Around(key, val.query) \in Seq(Parameter)
  BY <1>2, <1>3, AroundIs
<1>5. ASSUME NEW i \in DOMAIN val.query, Carries(val.query, i, first)
      PROVE  \E k \in DOMAIN Around(key, val.query) : Carries(Around(key, val.query), k, first)
  BY <1>2, <1>3, <1>5, AroundCarries
<1> QED BY <1>1, <1>2, <1>4, <1>5, RequestKeeps

(* An escape in place of a digit.                                          *)
LEMMA EscapeKeeps ==
    ASSUME TravelInv, AsSent, NEW text \in Text,
           Become("request", Ok([val EXCEPT !.query[1].value = text])),
           \A t \in Seq(HexChar) :
               Accepted /\ Spells(t, first) /\ Encodes(val.query[1].value, t) => Encodes(text, t)
    PROVE  TravelInv'
<1>1. PICK query : query = val.query
  OBVIOUS
<1>2. query \in Seq(Parameter) /\ Len(query) = 1
  BY <1>1, AsSentIs
<1>3. Rewritten(query, text) \in Seq(Parameter)
  BY <1>2, RewrittenIs
<1>4. Become("request", Ok([val EXCEPT !.query = Rewritten(query, text)]))
  BY <1>1 DEF Rewritten
<1>5. ASSUME Accepted, NEW i \in DOMAIN query, Carries(query, i, first)
      PROVE  \E k \in DOMAIN Rewritten(query, text) : Carries(Rewritten(query, text), k, first)
  <2>1. \A t \in Seq(HexChar) : Spells(t, first) /\ Encodes(query[1].value, t) => Encodes(text, t)
    BY <1>1, <1>5
  <2>2. 1 \in DOMAIN Rewritten(query, text) /\ Carries(Rewritten(query, text), 1, first)
    BY <1>2, <1>5, <2>1, RewrittenCarries
  <2> QED BY <2>2
<1> QED BY <1>1, <1>3, <1>4, <1>5, RequestKeeps

LEMMA EscapeFirstKeeps == ASSUME TravelInv, EscapeFirst PROVE TravelInv'
<1>1. PICK v : v = val.query[1].value
  OBVIOUS
<1>2. AsSent /\ v # <<>> /\ v[1] \in HexChar
      /\ Become("request", Ok([val EXCEPT !.query[1].value = EscapeOf(v[1]) \o Tail(v)]))
  BY <1>1 DEF EscapeFirst
<1>3. v \in Seq(Character)
  BY <1>1, <1>2, AsSentIs
<1>4. PICK text : text = EscapeOf(v[1]) \o Tail(v)
  OBVIOUS
<1>5. text \in Text
  BY <1>2, <1>3, <1>4, FirstEscaped DEF Text
<1>6. \A t \in Seq(HexChar) : Encodes(v, t) => Encodes(text, t)
  BY <1>2, <1>3, <1>4, FirstEscapedEncodes
<1> QED BY <1>1, <1>2, <1>4, <1>5, <1>6, EscapeKeeps

LEMMA SpelledIsEven ==
    ASSUME NEW S \in Nat \ {0}, NEW id \in Identifier(S), NEW t \in Seq(HexChar), Spells(t, id)
    PROVE  Len(t) # 1
<1>1. PICK n \in 0..255 : n = id.size
  BY IdentifierIs
<1>2. Len(t) = 2 * n
  BY <1>1 DEF Spells
<1>3. 2 * n # 1
  OBVIOUS
<1> QED BY <1>2, <1>3

LEMMA EscapeLastKeeps == ASSUME TravelInv, EscapeLast PROVE TravelInv'
<1>1. PICK v : v = val.query[1].value
  OBVIOUS
<1>2. /\ AsSent /\ v # <<>> /\ v[Len(v)] \in HexChar /\ Escapes(v) \subseteq {1}
      /\ Become("request", Ok([val EXCEPT !.query[1].value =
                   SubSeq(v, 1, Len(v) - 1) \o EscapeOf(v[Len(v)])]))
  BY <1>1 DEF EscapeLast
<1>3. v \in Seq(Character)
  BY <1>1, <1>2, AsSentIs
<1>4. PICK text : text = SubSeq(v, 1, Len(v) - 1) \o EscapeOf(v[Len(v)])
  OBVIOUS
<1>5. text \in Text
  BY <1>2, <1>3, <1>4, LastEscaped DEF Text
<1>6. \A t \in Seq(HexChar) : Accepted /\ Spells(t, first) /\ Encodes(v, t) => Encodes(text, t)
  <2> TAKE t \in Seq(HexChar)
  <2> HAVE Accepted /\ Spells(t, first) /\ Encodes(v, t)
  <2>1. cap \in Nat \ {0} /\ first \in Identifier(cap)
    BY CapIs DEF TravelInv, Accepted
  <2>2. Len(t) # 1
    BY <2>1, SpelledIsEven
  <2> QED BY <1>2, <1>3, <1>4, <2>2, LastEscapedEncodes
<1> QED BY <1>1, <1>2, <1>4, <1>5, <1>6, EscapeKeeps

LEMMA SentIs == ASSUME TravelInv, form \in {"browser", "event", "json"} PROVE cap \in Capacities /\ Sent
BY DEF TravelInv, NotYet, Accepted

LEMMA FromBrowserKeeps == ASSUME TravelInv, FromBrowser PROVE TravelInv'
<1>1. form = "browser" /\ cap \in Capacities /\ Sent
  BY SentIs DEF FromBrowser
<1>2. (val = first \/ val = Bare(first)) /\ first \in Payloads
  BY <1>1 DEF Sent
<1>3. Become("event", Ok(EventOf(first)))
  BY <1>2, LeavesBrowser, BareIsTheSame DEF FromBrowser
<1>4. form' = "event" /\ val' = EventOf(first) /\ cap' = cap /\ first' = first
  BY <1>3, Becomes
<1>5. val' = EventOf(first')
  BY <1>4
<1>6. Sent'
  BY <1>2, <1>4, <1>5 DEF Sent
<1> QED BY <1>1, <1>4, <1>6 DEF TravelInv

LEMMA ForwardKeeps == ASSUME TravelInv, Forward PROVE TravelInv'
<1>1. form = "event" /\ cap \in Capacities /\ Sent /\ Become("json", Ok(ToJson(val)))
  BY SentIs DEF Forward
<1>2. val = EventOf(first) /\ first \in Payloads
  BY <1>1 DEF Sent
<1>3. form' = "json" /\ val' = ToJson(EventOf(first)) /\ cap' = cap /\ first' = first
  BY <1>1, <1>2, Becomes
<1>4. val' = ToJson(EventOf(first'))
  BY <1>3
<1>5. Sent'
  BY <1>2, <1>3, <1>4 DEF Sent
<1> QED BY <1>1, <1>3, <1>5 DEF TravelInv

LEMMA ReceiveKeeps == ASSUME TravelInv, Receive PROVE TravelInv'
<1>1. form = "json" /\ cap \in Capacities /\ Sent /\ Become("event", Ok(FromJson(val)))
  BY SentIs DEF Receive
<1>2. val = ToJson(EventOf(first)) /\ first \in Payloads
  BY <1>1 DEF Sent
<1>3. form' = "event" /\ val' = EventOf(first) /\ cap' = cap /\ first' = first
  BY <1>1, <1>2, Becomes, EventReturns
<1>4. val' = EventOf(first')
  BY <1>3
<1>5. Sent'
  BY <1>2, <1>3, <1>4 DEF Sent
<1> QED BY <1>1, <1>3, <1>5 DEF TravelInv

LEMMA ToBrowserKeeps == ASSUME TravelInv, ToBrowser PROVE TravelInv'
<1>1. form = "event" /\ cap \in Capacities /\ Sent /\ Become("browser", Returned(val))
  BY SentIs DEF ToBrowser, Returned
<1>2. val = EventOf(first) /\ first \in Payloads
  BY <1>1 DEF Sent
<1>3. CASE Returned(val) = Ok(Bare(first))
  <2>1. form' = "browser" /\ val' = Bare(first) /\ cap' = cap /\ first' = first
    BY <1>1, <1>3, Becomes
  <2>2. Sent'
    BY <1>2, <2>1 DEF Sent
  <2> QED BY <1>1, <2>1, <2>2 DEF TravelInv
<1>4. CASE Returned(val) = Error("EndOfCandidates") /\ first.candidate = Null
  <2>1. form' = "error" /\ val' = "EndOfCandidates" /\ cap' = cap /\ first' = first
    BY <1>1, <1>4, BecomesError
  <2>2. Sent'
    BY <1>2, <1>4, <2>1 DEF Sent, RefusedPayload
  <2> QED BY <1>1, <2>1, <2>2 DEF TravelInv
<1>5. CASE Returned(val) = Error("JsError") /\ first.sdpMid = Null /\ first.sdpMLineIndex = Null
  <2>1. form' = "error" /\ val' = "JsError" /\ cap' = cap /\ first' = first
    BY <1>1, <1>5, BecomesError
  <2>2. Sent'
    BY <1>2, <1>5, <2>1 DEF Sent, RefusedPayload
  <2> QED BY <1>1, <2>1, <2>2 DEF TravelInv
<1> QED BY <1>2, <1>3, <1>4, <1>5, EntersBrowser

-----------------------------------------------------------------------------
LEMMA TravelStep == TravelInv /\ [Next]_vars => TravelInv'
<1> SUFFICES ASSUME TravelInv, [Next]_vars PROVE TravelInv'
  OBVIOUS
<1>1. CASE UNCHANGED vars
  BY <1>1 DEF vars, TravelInv, NotYet, Accepted, Sent, RefusedId, RefusedPayload
<1>2. CASE Random
  BY <1>2, RandomKeeps
<1>3. CASE TryFrom
  BY <1>3, TryFromKeeps
<1>4. CASE FromRequestParts
  BY <1>4, FromRequestPartsKeeps
<1>5. CASE VisitBytes \/ VisitSeq
  BY <1>5, VisitsKeep
<1>6. CASE ToText
  BY <1>6, ToTextKeeps
<1>7. CASE ToRequest
  BY <1>7, ToRequestKeeps
<1>8. CASE ToWire
  BY <1>8, ToWireKeeps
<1>9. CASE Capitalise
  BY <1>9, CapitaliseKeeps
<1>10. CASE AddParameters
  BY <1>10, AddParametersKeeps
<1>11. CASE EscapeFirst
  BY <1>11, EscapeFirstKeeps
<1>12. CASE EscapeLast
  BY <1>12, EscapeLastKeeps
<1>13. CASE FromBrowser
  BY <1>13, FromBrowserKeeps
<1>14. CASE Forward
  BY <1>14, ForwardKeeps
<1>15. CASE Receive
  BY <1>15, ReceiveKeeps
<1>16. CASE ToBrowser
  BY <1>16, ToBrowserKeeps
<1> QED
  BY <1>1, <1>2, <1>3, <1>4, <1>5, <1>6, <1>7, <1>8, <1>9, <1>10, <1>11, <1>12, <1>13, <1>14,
     <1>15, <1>16 DEF Next

LEMMA TravelAlways == Spec => []TravelInv
BY TravelInit, TravelStep, PTL DEF Spec

(* For every capacity, every text, request and byte string a client may    *)
(* come with, and every sequence of conversions between the forms of       *)
(* sf-peer-id and extract_peer_id.rs: whoever parses the identifier        *)
(* afterwards has the one that was accepted.                               *)
THEOREM IdentifiersSurvive == Spec => []SameIdentifier
<1>1. TravelInv => SameIdentifier
  <2> SUFFICES ASSUME TravelInv, form = "id" PROVE Eq(val, first) /\ (cap < 256 => OrdEqual(val, first))
    BY DEF SameIdentifier
  <2> QED BY HeldId, EqIsOrdEqual
<1> QED BY <1>1, TravelAlways, PTL

(* Descriptions reach the other browser as the one made them, whatever     *)
(* their contents, and candidates with all but their usernameFragment      *)
(* (sdp.rs, sdp_type.rs, ice.rs).                                          *)
THEOREM PayloadsSurvive == Spec => []SamePayload
<1>1. TravelInv => SamePayload
  <2> SUFFICES ASSUME TravelInv, form = "browser" PROVE val = first \/ val = Bare(first)
    BY DEF SamePayload, Bare
  <2> QED BY SentIs DEF Sent
<1> QED BY <1>1, TravelAlways, PTL

(* No conversion of an accepted identifier fails but for the three reasons,*)
(* whatever the capacity, and none of a payload but for the two others;    *)
(* none panics.                                                            *)
THEOREM OnlyTheseRefusals == Spec => []NeverRefused
<1>1. TravelInv => NeverRefused
  <2> SUFFICES ASSUME TravelInv, first # NoId
               PROVE  form # "panic" /\ (form = "error" => RefusedId \/ RefusedPayload)
    BY DEF NeverRefused, RefusedId, RefusedPayload
  <2> QED BY DEF TravelInv, NotYet, Accepted, Sent
<1> QED BY <1>1, TravelAlways, PTL
=============================================================================
