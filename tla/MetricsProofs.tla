--------------------------- MODULE MetricsProofs ---------------------------
(***************************************************************************)
(* Proofs about Histogram and Metrics, for every number of threads,        *)
(* readers, observations and calls, all values, amounts and buckets, and   *)
(* every set of labels.                                                    *)
(*                                                                         *)
(* The model computes with folds over sequences and sums over sets. What a *)
(* fold amounts to is a chain of its steps, from the first element on; what*)
(* such a chain preserves follows by induction, which needs no more than   *)
(* that every set of naturals has a least element.                         *)
(***************************************************************************)
EXTENDS Metrics, FiniteSetTheorems, SequenceTheorems, WellFoundedInduction, TLAPS

-----------------------------------------------------------------------------
(* Induction, and folds as chains of steps.                                *)
LEMMA Least == ASSUME NEW A \in SUBSET Nat, A # {} PROVE \E n \in A : \A m \in A : n <= m
<1> DEFINE R == OpToRel(<, Nat)
<1>1. IsWellFoundedOn(R, Nat)
  BY NatLessThanWellFounded
<1>2. \A x, y \in Nat : x < y => <<x, y>> \in R
  BY DEF OpToRel
<1> HIDE DEF R
<1>3. PICK n \in A : \A y \in A : ~ (<<y, n>> \in R)
  BY <1>1, WFMin
<1>4. SUFFICES \A m \in A : n <= m
  OBVIOUS
<1>5. TAKE m \in A
<1>6. n \in Nat /\ m \in Nat
  OBVIOUS
<1>7. ~(m < n)
  BY <1>2, <1>3, <1>6
<1> QED BY <1>6, <1>7

(* Induction over a set of numbers.                                        *)
LEMMA Upto ==
    ASSUME NEW n \in Nat, NEW A, 0 \in A, \A i \in 1..n : i - 1 \in A => i \in A
    PROVE  0..n \subseteq A
<1> DEFINE B == 0..n \ A
<1>1. SUFFICES ASSUME B # {} PROVE FALSE
  OBVIOUS
<1>2. B \in SUBSET Nat
  OBVIOUS
<1>4. PICK i \in B : \A m \in B : i <= m
  <2> HIDE DEF B
  <2> QED BY <1>1, <1>2, Least
<1>3. i \in 1..n /\ i - 1 \in 0..n /\ i - 1 \notin B
  BY <1>4
<1> QED BY <1>3

LEMMA Every ==
    ASSUME NEW A, 0 \in A, \A i \in Nat : i \in A => i + 1 \in A
    PROVE  Nat \subseteq A
<1>1. SUFFICES ASSUME NEW n \in Nat PROVE n \in A
  OBVIOUS
<1>2. \A i \in 1..n : i - 1 \in A => i \in A
  <2> TAKE i \in 1..n
  <2>1. i - 1 \in Nat /\ (i - 1) + 1 = i
    OBVIOUS
  <2> QED BY <2>1
<1>3. 0..n \subseteq A
  BY <1>2, Upto
<1> QED BY <1>3

LEMMA MaxOfUpto == ASSUME NEW n \in Nat, NEW s \in SUBSET (1..n), n \in s PROVE Max(s) = n
<1>1. \A y \in s : y \in Int /\ n >= y
  OBVIOUS
<1>2. \A x \in s : (\A y \in s : x >= y) => x = n
  BY <1>1
<1> QED BY <1>1, <1>2 DEF Max

LEMMA MaxOfSome == ASSUME NEW n \in Nat, NEW s \in SUBSET (1..n), s # {}
                   PROVE  Max(s) \in s /\ \A y \in s : y <= Max(s)
<1> DEFINE B == {m \in Nat : \A y \in s : y <= m}
<1>1. B \in SUBSET Nat /\ n \in B
  OBVIOUS
<1>2. PICK m \in B : \A k \in B : m <= k
  <2> HIDE DEF B
  <2> QED BY <1>1, Least
<1>3. m \in s
  <2>1. SUFFICES ASSUME m \notin s PROVE FALSE
    OBVIOUS
  <2>2. m # 0
    <3>1. PICK y \in s : TRUE
      OBVIOUS
    <3>2. y \in 1..n /\ y <= m
      BY <1>2
    <3> QED BY <3>2
  <2>3. m - 1 \in Nat /\ \A y \in s : y <= m - 1
    BY <1>2, <2>1, <2>2
  <2> QED BY <1>2, <2>3
<1>4. \A y \in s : m >= y
  BY <1>2
<1> QED BY <1>3, <1>4 DEF Max

(* The folds *)
Unwinds(it, base, n, G) ==
    \A s \in SUBSET (1..n) : it[s] = IF s = {} THEN base ELSE G[<<it[s \ {Max(s)}], Max(s)>>]

LEMMA FoldExists ==
    ASSUME NEW V, NEW base \in V, NEW n \in Nat, NEW G \in [V \X (1..n) -> V]
    PROVE  \E it \in [SUBSET (1..n) -> V] : Unwinds(it, base, n, G)
<1> DEFINE Eq(it, s) == it[s] = IF s = {} THEN base ELSE G[<<it[s \ {Max(s)}], Max(s)>>]
           Has(m) == \E it \in [SUBSET (1..m) -> V] : \A s \in SUBSET (1..m) : Eq(it, s)
           A == {m \in 0..n : Has(m)}
<1>1. 0 \in A
  <2>1. \A s \in SUBSET (1..0) : s = {}
    OBVIOUS
  <2> DEFINE none == [s \in SUBSET (1..0) |-> base]
  <2>2. none \in [SUBSET (1..0) -> V] /\ \A s \in SUBSET (1..0) : Eq(none, s)
    BY <2>1
  <2>3. Has(0)
    <3> HIDE DEF none, Eq
    <3> QED BY <2>2
  <2> HIDE DEF Has
  <2> QED BY <2>3
<1>2. ASSUME NEW m \in 1..n, m - 1 \in A PROVE m \in A
  <2>1. PICK it \in [SUBSET (1..m-1) -> V] : \A s \in SUBSET (1..m-1) : Eq(it, s)
    BY <1>2
  <2> DEFINE new == [s \in SUBSET (1..m) |-> IF m \in s THEN G[<<it[s \ {m}], m>>] ELSE it[s]]
  <2>2. \A s \in SUBSET (1..m) : s \ {m} \in SUBSET (1..m-1) /\ (m \notin s => s \in SUBSET (1..m-1))
    OBVIOUS
  <2>3. new \in [SUBSET (1..m) -> V]
    BY <2>2
  <2>4. ASSUME NEW s \in SUBSET (1..m) PROVE Eq(new, s)
    <3>1. CASE m \in s
      <4>1. Max(s) = m
        BY <3>1, MaxOfUpto
      <4>2. new[s \ {m}] = it[s \ {m}]
        BY <2>2
      <4> QED BY <3>1, <4>1, <4>2
    <3>2. CASE m \notin s
      <4>1. s \in SUBSET (1..m-1)
        BY <2>2, <3>2
      <4>2. new[s] = it[s]
        BY <3>2
      <4>3. CASE s = {}
        BY <4>1, <4>2, <4>3, <2>1
      <4>4. CASE s # {}
        <5>1. new[s \ {Max(s)}] = it[s \ {Max(s)}]
          BY <3>2
        <5> QED BY <4>1, <4>2, <4>4, <5>1, <2>1
      <4> QED BY <4>3, <4>4
    <3> QED BY <3>1, <3>2
  <2> HIDE DEF new, Eq
  <2> QED BY <2>3, <2>4
<1>3. n \in A
  <2> HIDE DEF A
  <2> QED BY <1>1, <1>2, Upto
<1> QED BY <1>3 DEF Unwinds

LEMMA IntervalFacts ==
    ASSUME NEW n \in Nat, NEW i \in 1..n
    PROVE  /\ 1..i \in SUBSET (1..n) /\ 1..i # {} /\ Max(1..i) = i
           /\ (1..i) \ {i} = 1..(i - 1) /\ i - 1 \in 0..n
<1>1. i \in Nat /\ 1..i \in SUBSET (1..i) /\ i \in 1..i
  OBVIOUS
<1>2. Max(1..i) = i
  BY <1>1, MaxOfUpto
<1> QED BY <1>1, <1>2

LEMMA SomeFacts ==
    ASSUME NEW n \in Nat, NEW S \in SUBSET (1..n), S # {}
    PROVE  Max(S) \in 1..n /\ S \ {Max(S)} \in SUBSET (1..n)
BY MaxOfSome

(* What a fold computes, one element after the other: f is the function    *)
(* the fold chooses.                                                       *)
Follows(f, V, base, n, G) ==
    /\ f[{}] = base
    /\ \A i \in 1..n : f[1..(i - 1)] \in V => f[1..i] = G[<<f[1..(i - 1)], i>>]

Chain(c, base, n, G) == c[0] = base /\ \A i \in 1..n : c[i] = G[<<c[i - 1], i>>]

ComesTo(v, V, base, n, G) == \E c \in [0..n -> V] : Chain(c, base, n, G) /\ c[n] = v

LEMMA FoldSteps ==
    ASSUME NEW V, NEW base \in V, NEW n \in Nat, NEW G \in [V \X (1..n) -> V],
           NEW f, Follows(f, V, base, n, G)
    PROVE  ComesTo(f[1..n], V, base, n, G)
<1> DEFINE A == {i \in 0..n : f[1..i] \in V}
           c == [i \in 0..n |-> f[1..i]]
<1>1. 1..0 = {}
  OBVIOUS
<1>2. 0 \in A
  BY <1>1 DEF Follows
<1>3. ASSUME NEW i \in 1..n, i - 1 \in A PROVE i \in A
  <2>1. f[1..(i - 1)] \in V /\ i \in 1..n /\ i \in 0..n
    BY <1>3
  <2>2. f[1..i] = G[<<f[1..(i - 1)], i>>]
    BY <2>1 DEF Follows
  <2> QED BY <2>1, <2>2
<1>4. 0..n \subseteq A
  <2> HIDE DEF A
  <2> QED BY <1>2, <1>3, Upto
<1>5. c \in [0..n -> V]
  BY <1>4
<1>6. ASSUME NEW i \in 1..n PROVE c[i] = G[<<c[i - 1], i>>]
  <2>1. i - 1 \in 0..n /\ i \in 0..n
    OBVIOUS
  <2>2. f[1..(i - 1)] \in V
    BY <1>4, <2>1
  <2> QED BY <2>1, <2>2 DEF Follows
<1>7. c[0] = base /\ c[n] = f[1..n]
  BY <1>1 DEF Follows
<1>8. Chain(c, base, n, G)
  BY <1>6, <1>7 DEF Chain
<1> HIDE DEF c
<1> QED BY <1>5, <1>7, <1>8 DEF ComesTo

(***************************************************************************)
(* The sum of the values of some observations, whichever way they are      *)
(* chosen.                                                                 *)
(***************************************************************************)
SumOf(obs, T) == MapThenSumSet(LAMBDA n : obs[n].value, T)

Some(s) == CHOOSE x \in s : TRUE

Sums(it, obs, T) ==
    \A s \in SUBSET T : it[s] = IF s = {} THEN 0 ELSE obs[Some(s)].value + it[s \ {Some(s)}]

LEMMA SomeIsIn == ASSUME NEW s, s # {} PROVE Some(s) \in s
BY DEF Some

LEMMA FinitePart ==
    ASSUME NEW T, IsFiniteSet(T), NEW s \in SUBSET T
    PROVE  /\ IsFiniteSet(s) /\ Cardinality(s) \in Nat
           /\ \A x \in s : Cardinality(s \ {x}) = Cardinality(s) - 1
           /\ s = {} <=> Cardinality(s) = 0
BY FS_Subset, FS_CardinalityType, FS_EmptySet, FS_RemoveElement

LEMMA SumsExist ==
    ASSUME NEW obs, NEW T, IsFiniteSet(T), \A x \in T : obs[x].value \in Int
    PROVE  \E it \in [SUBSET T -> Int] : Sums(it, obs, T)
<1> DEFINE Small(m) == {s \in SUBSET T : Cardinality(s) <= m}
           Eq(it, s) == it[s] = IF s = {} THEN 0 ELSE obs[Some(s)].value + it[s \ {Some(s)}]
           Has(m) == \E it \in [Small(m) -> Int] : \A s \in Small(m) : Eq(it, s)
           A == {m \in Nat : Has(m)}
<1>1. 0 \in A
  <2>1. \A s \in Small(0) : s = {}
    BY FinitePart
  <2> DEFINE none == [s \in Small(0) |-> 0]
  <2>2. none \in [Small(0) -> Int] /\ \A s \in Small(0) : Eq(none, s)
    BY <2>1
  <2>3. Has(0)
    <3> HIDE DEF none, Eq, Small
    <3> QED BY <2>2
  <2> HIDE DEF Has
  <2> QED BY <2>3
<1>2. ASSUME NEW m \in Nat, m \in A PROVE m + 1 \in A
  <2>1. PICK it \in [Small(m) -> Int] : \A s \in Small(m) : Eq(it, s)
    BY <1>2
  <2> DEFINE new == [s \in Small(m + 1) |->
                       IF s \in Small(m) THEN it[s] ELSE obs[Some(s)].value + it[s \ {Some(s)}]]
  <2>2. \A s \in Small(m + 1) : s # {} => Some(s) \in T /\ s \ {Some(s)} \in Small(m)
    BY FinitePart, SomeIsIn
  <2>3. \A s \in Small(m + 1) : s \notin Small(m) => s # {}
    BY FinitePart
  <2>4. \A s \in Small(m) : s \in Small(m + 1)
    BY FinitePart
  <2>5. new \in [Small(m + 1) -> Int]
    <3> HIDE DEF Small
    <3> QED BY <2>2, <2>3
  <2>6. ASSUME NEW s \in Small(m + 1) PROVE Eq(new, s)
    <3> HIDE DEF Small
    <3>1. s # {} => new[s \ {Some(s)}] = it[s \ {Some(s)}]
      BY <2>2, <2>4
    <3> QED BY <2>1, <2>2, <2>3, <3>1
  <2>7. Has(m + 1)
    <3> HIDE DEF new, Eq, Small
    <3> QED BY <2>5, <2>6
  <2> HIDE DEF Has
  <2> QED BY <2>7
<1>3. Cardinality(T) \in A
  <2>1. Cardinality(T) \in Nat
    BY FS_CardinalityType
  <2> HIDE DEF A
  <2> QED BY <1>1, <1>2, <2>1, Every
<1>4. PICK it \in [Small(Cardinality(T)) -> Int] : \A s \in Small(Cardinality(T)) : Eq(it, s)
  BY <1>3
<1>5. Small(Cardinality(T)) = SUBSET T
  BY FS_Subset
<1> QED BY <1>4, <1>5 DEF Sums

LEMMA SumsAgree ==
    ASSUME NEW T, IsFiniteSet(T), NEW U, NEW V, T \subseteq U, T \subseteq V,
           NEW obs, NEW other, \A x \in T : obs[x].value = other[x].value,
           NEW f, NEW g, Sums(f, obs, U), Sums(g, other, V)
    PROVE  f[T] = g[T]
<1> DEFINE A == {m \in Nat : \A s \in SUBSET T : Cardinality(s) = m => f[s] = g[s]}
<1>1. 0 \in A
  BY FinitePart DEF Sums
<1>2. ASSUME NEW m \in Nat, m \in A PROVE m + 1 \in A
  <2>1. SUFFICES ASSUME NEW s \in SUBSET T, Cardinality(s) = m + 1 PROVE f[s] = g[s]
    OBVIOUS
  <2>2. s # {} /\ Some(s) \in s
    BY <2>1, FinitePart, SomeIsIn
  <2>3. s \ {Some(s)} \in SUBSET T /\ Cardinality(s \ {Some(s)}) = m
    BY <2>1, <2>2, FinitePart
  <2>4. f[s \ {Some(s)}] = g[s \ {Some(s)}]
    BY <1>2, <2>3
  <2> QED BY <2>2, <2>4 DEF Sums
<1>3. Cardinality(T) \in A
  <2>1. Cardinality(T) \in Nat
    BY FS_CardinalityType
  <2> HIDE DEF A
  <2> QED BY <1>1, <1>2, <2>1, Every
<1> QED BY <1>3

(* Any element may be taken out first.                                     *)
Splits(f, obs, s) == \A x \in s : f[s] = obs[x].value + f[s \ {x}]

LEMMA SumsStep ==
    ASSUME NEW T, NEW obs, NEW f,
           f \in [SUBSET T -> Int], IsFiniteSet(T), \A y \in T : obs[y].value \in Int, Sums(f, obs, T)
    PROVE  Splits(f, obs, T)
<1> DEFINE A == {m \in Nat : \A s \in SUBSET T : Cardinality(s) = m =>
                    \A y \in s : f[s] = obs[y].value + f[s \ {y}]}
<1>1. 0 \in A
  BY FinitePart
<1>2. ASSUME NEW m \in Nat, m \in A PROVE m + 1 \in A
  <2>1. SUFFICES ASSUME NEW s \in SUBSET T, Cardinality(s) = m + 1, NEW y \in s
                 PROVE  f[s] = obs[y].value + f[s \ {y}]
    OBVIOUS
  <2> DEFINE z == Some(s)
  <2>2. z \in s
    BY SomeIsIn
  <2>3. f[s] = obs[z].value + f[s \ {z}]
    BY <2>2 DEF Sums
  <2>4. CASE y = z
    BY <2>3, <2>4
  <2>5. CASE y # z
    <3>1. /\ s \ {z} \in SUBSET T /\ Cardinality(s \ {z}) = m /\ y \in s \ {z}
          /\ s \ {y} \in SUBSET T /\ Cardinality(s \ {y}) = m /\ z \in s \ {y}
      BY <2>1, <2>2, <2>5, FinitePart
    <3>2. f[s \ {z}] = obs[y].value + f[(s \ {z}) \ {y}]
      BY <1>2, <3>1
    <3>3. f[s \ {y}] = obs[z].value + f[(s \ {y}) \ {z}]
      BY <1>2, <3>1
    <3>4. (s \ {y}) \ {z} = (s \ {z}) \ {y}
      OBVIOUS
    <3>5. f[(s \ {z}) \ {y}] \in Int /\ obs[y].value \in Int /\ obs[z].value \in Int
      BY <2>2
    <3> DEFINE rest == f[(s \ {z}) \ {y}]
               vy == obs[y].value
               vz == obs[z].value
    <3>6. f[s] = vz + (vy + rest) /\ f[s \ {y}] = vz + rest
      BY <2>3, <3>2, <3>3, <3>4
    <3>7. f[s] = vy + f[s \ {y}]
      <4>1. vy \in Int /\ vz \in Int /\ rest \in Int
        BY <3>5
      <4> HIDE DEF rest, vy, vz
      <4> QED BY <3>6, <4>1
    <3> QED BY <3>7
  <2> QED BY <2>4, <2>5
<1>3. Cardinality(T) \in A
  <2>1. Cardinality(T) \in Nat
    BY FS_CardinalityType
  <2> HIDE DEF A
  <2> QED BY <1>1, <1>2, <2>1, Every
<1> QED BY <1>3 DEF Splits

LEMMA SumOfIs ==
    ASSUME NEW obs, NEW T, IsFiniteSet(T), \A x \in T : obs[x].value \in Int
    PROVE  \E it \in [SUBSET T -> Int] : Sums(it, obs, T) /\ SumOf(obs, T) = it[T]
<1> DEFINE Folds(it) == it = [s \in SUBSET T |->
                                IF s = {} THEN 0
                                ELSE obs[CHOOSE x \in s : TRUE].value + it[s \ {CHOOSE x \in s : TRUE}]]
           chosen == CHOOSE it : Folds(it)
<1>1. SumOf(obs, T) = chosen[T]
  BY Zenon DEF SumOf, MapThenSumSet, MapThenFoldSet
<1>2. PICK it \in [SUBSET T -> Int] : Sums(it, obs, T)
  BY SumsExist
<1>3. Folds(it)
  BY <1>2 DEF Sums, Some
<1>4. Folds(chosen)
  <2> HIDE DEF Folds
  <2> QED BY <1>3
<1> HIDE DEF chosen
<1>5. Sums(chosen, obs, T)
  BY <1>4 DEF Sums, Some
<1>6. chosen[T] = it[T]
  BY <1>2, <1>5, SumsAgree
<1> QED BY <1>1, <1>2, <1>6

LEMMA SumOfType ==
    ASSUME NEW obs, NEW T, IsFiniteSet(T), \A x \in T : obs[x].value \in Int
    PROVE  SumOf(obs, T) \in Int
<1>1. PICK it \in [SUBSET T -> Int] : Sums(it, obs, T) /\ SumOf(obs, T) = it[T]
  BY SumOfIs
<1> QED BY <1>1

LEMMA SumOfNone == ASSUME NEW obs PROVE SumOf(obs, {}) = 0
<1>1. IsFiniteSet({})
  BY FS_EmptySet
<1>2. PICK it \in [SUBSET {} -> Int] : Sums(it, obs, {}) /\ SumOf(obs, {}) = it[{}]
  BY <1>1, SumOfIs
<1> QED BY <1>2 DEF Sums

LEMMA SumOfSame ==
    ASSUME NEW T, IsFiniteSet(T), NEW obs, NEW other, \A x \in T : obs[x].value \in Int,
           \A x \in T : obs[x].value = other[x].value
    PROVE  SumOf(obs, T) = SumOf(other, T)
<1>1. PICK it \in [SUBSET T -> Int] : Sums(it, obs, T) /\ SumOf(obs, T) = it[T]
  BY SumOfIs
<1>2. PICK jt \in [SUBSET T -> Int] : Sums(jt, other, T) /\ SumOf(other, T) = jt[T]
  BY SumOfIs
<1> QED BY <1>1, <1>2, SumsAgree

LEMMA SumOfMore ==
    ASSUME NEW T, IsFiniteSet(T), NEW x, x \notin T, NEW obs,
           \A y \in T \cup {x} : obs[y].value \in Int
    PROVE  SumOf(obs, T \cup {x}) = SumOf(obs, T) + obs[x].value
<1> DEFINE U == T \cup {x}
<1>1. IsFiniteSet(U) /\ T \in SUBSET U /\ x \in U /\ U \ {x} = T
       /\ \A y \in U : obs[y].value \in Int
  BY FS_AddElement
<1>2. PICK it \in [SUBSET U -> Int] : Sums(it, obs, U) /\ SumOf(obs, U) = it[U]
  BY <1>1, SumOfIs
<1>3. PICK jt \in [SUBSET T -> Int] : Sums(jt, obs, T) /\ SumOf(obs, T) = jt[T]
  BY SumOfIs
<1> HIDE DEF U
<1>4. it[U] = obs[x].value + it[T]
  <2>1. it[U] = obs[x].value + it[U \ {x}]
    <3>1. IsFiniteSet(U) /\ x \in U /\ Sums(it, obs, U)
      BY <1>1, <1>2
    <3>2. \A y \in U : obs[y].value \in Int
      BY <1>1
    <3>3. Splits(it, obs, U)
      BY <3>1, <3>2, SumsStep
    <3> QED BY <3>1, <3>3 DEF Splits
  <2> QED BY <1>1, <2>1
<1>5. it[T] = jt[T]
  BY <1>1, <1>2, <1>3, SumsAgree
<1>6. it[T] \in Int /\ obs[x].value \in Int
  BY <1>1
<1>7. SumOf(obs, U) = SumOf(obs, T) + obs[x].value
  BY <1>2, <1>3, <1>4, <1>5, <1>6
<1> QED BY <1>7 DEF U

-----------------------------------------------------------------------------
(* The steps of the folds over sequences, and what they amount to.         *)
InsertBefore(acc, x) == InsertAt(acc, 1 + Cardinality({i \in DOMAIN acc : ~Before(x, acc[i])}), x)
Retain(acc, x)       == IF IsFinite(x) THEN Append(acc, x) ELSE acc
Add1(acc, x)         == IF acc # <<>> /\ acc[Len(acc)] = x THEN acc ELSE Append(acc, x)
Plus1(acc, x)        == acc + x

LEMMA SortedIsChain ==
    ASSUME NEW V, NEW s, Len(s) \in Nat, DOMAIN s = 1..Len(s), <<>> \in V,
           \A a \in V : \A i \in 1..Len(s) : InsertBefore(a, s[i]) \in V
    PROVE  \E c \in [0..Len(s) -> V] :
             /\ c[0] = <<>> /\ \A i \in 1..Len(s) : c[i] = InsertBefore(c[i - 1], s[i])
             /\ Sorted(s, Before) = c[Len(s)]
<1> DEFINE n == Len(s)
           G == [p \in V \X (1..n) |-> InsertBefore(p[1], s[p[2]])]
           Folds(it) == it = [S \in SUBSET DOMAIN s |->
                                IF S = {} THEN <<>> ELSE InsertBefore(it[S \ {Max(S)}], s[Max(S)])]
           chosen == CHOOSE it : Folds(it)
<1>1. Sorted(s, Before) = chosen[1..n]
  BY Zenon DEF Sorted, FoldLeft, MapThenFoldSet, Insert, InsertBefore
<1>2. G \in [V \X (1..n) -> V]
  OBVIOUS
<1>3. PICK it \in [SUBSET (1..n) -> V] : Unwinds(it, <<>>, n, G)
  <2> HIDE DEF G
  <2> QED BY <1>2, FoldExists
<1>4. Folds(it)
  <2>1. \A S \in SUBSET (1..n) : it[S] = IF S = {} THEN <<>> ELSE InsertBefore(it[S \ {Max(S)}], s[Max(S)])
    BY <1>3, SomeFacts DEF Unwinds
  <2> QED BY <2>1
<1>5. Folds(chosen)
  <2> HIDE DEF Folds
  <2> QED BY <1>4
<1> HIDE DEF chosen
<1>6. chosen[{}] = <<>>
  BY <1>5
<1>7. ASSUME NEW i \in 1..n PROVE chosen[1..i] = InsertBefore(chosen[1..(i - 1)], s[i])
  <2>1. /\ 1..i \in SUBSET (1..n) /\ 1..i # {} /\ Max(1..i) = i
        /\ (1..i) \ {i} = 1..(i - 1)
    BY IntervalFacts
  <2>2. \A S \in SUBSET (1..n) : S # {} => chosen[S] = InsertBefore(chosen[S \ {Max(S)}], s[Max(S)])
    BY <1>5
  <2> QED BY <2>1, <2>2
<1>8. PICK c \in [0..n -> V] : Chain(c, <<>>, n, G) /\ c[n] = chosen[1..n]
  <2>1. Follows(chosen, V, <<>>, n, G)
    BY <1>6, <1>7 DEF Follows
  <2>2. ComesTo(chosen[1..n], V, <<>>, n, G)
    <3> HIDE DEF G
    <3> QED BY <1>2, <2>1, FoldSteps
  <2> QED BY <2>2 DEF ComesTo
<1>9. \A i \in 1..n : c[i] = InsertBefore(c[i - 1], s[i])
  BY <1>8, IntervalFacts DEF Chain
<1> QED BY <1>1, <1>8, <1>9 DEF Chain

LEMMA RetainIsChain ==
    ASSUME NEW V, NEW s, Len(s) \in Nat, DOMAIN s = 1..Len(s), <<>> \in V,
           \A a \in V : \A i \in 1..Len(s) : Retain(a, s[i]) \in V
    PROVE  \E c \in [0..Len(s) -> V] :
             /\ c[0] = <<>> /\ \A i \in 1..Len(s) : c[i] = Retain(c[i - 1], s[i])
             /\ RetainFinite(s) = c[Len(s)]
<1> DEFINE n == Len(s)
           G == [p \in V \X (1..n) |-> Retain(p[1], s[p[2]])]
           Folds(it) == it = [S \in SUBSET DOMAIN s |->
                                IF S = {} THEN <<>> ELSE Retain(it[S \ {Max(S)}], s[Max(S)])]
           chosen == CHOOSE it : Folds(it)
<1>1. RetainFinite(s) = chosen[1..n]
  BY Zenon DEF RetainFinite, FoldLeft, MapThenFoldSet, Retain
<1>2. G \in [V \X (1..n) -> V]
  OBVIOUS
<1>3. PICK it \in [SUBSET (1..n) -> V] : Unwinds(it, <<>>, n, G)
  <2> HIDE DEF G
  <2> QED BY <1>2, FoldExists
<1>4. Folds(it)
  <2>1. \A S \in SUBSET (1..n) : it[S] = IF S = {} THEN <<>> ELSE Retain(it[S \ {Max(S)}], s[Max(S)])
    BY <1>3, SomeFacts DEF Unwinds
  <2> QED BY <2>1
<1>5. Folds(chosen)
  <2> HIDE DEF Folds
  <2> QED BY <1>4
<1> HIDE DEF chosen
<1>6. chosen[{}] = <<>>
  BY <1>5
<1>7. ASSUME NEW i \in 1..n PROVE chosen[1..i] = Retain(chosen[1..(i - 1)], s[i])
  <2>1. /\ 1..i \in SUBSET (1..n) /\ 1..i # {} /\ Max(1..i) = i
        /\ (1..i) \ {i} = 1..(i - 1)
    BY IntervalFacts
  <2>2. \A S \in SUBSET (1..n) : S # {} => chosen[S] = Retain(chosen[S \ {Max(S)}], s[Max(S)])
    BY <1>5
  <2> QED BY <2>1, <2>2
<1>8. PICK c \in [0..n -> V] : Chain(c, <<>>, n, G) /\ c[n] = chosen[1..n]
  <2>1. Follows(chosen, V, <<>>, n, G)
    BY <1>6, <1>7 DEF Follows
  <2>2. ComesTo(chosen[1..n], V, <<>>, n, G)
    <3> HIDE DEF G
    <3> QED BY <1>2, <2>1, FoldSteps
  <2> QED BY <2>2 DEF ComesTo
<1>9. \A i \in 1..n : c[i] = Retain(c[i - 1], s[i])
  BY <1>8, IntervalFacts DEF Chain
<1> QED BY <1>1, <1>8, <1>9 DEF Chain

LEMMA DedupIsChain ==
    ASSUME NEW V, NEW s, Len(s) \in Nat, DOMAIN s = 1..Len(s), <<>> \in V,
           \A a \in V : \A i \in 1..Len(s) : Add1(a, s[i]) \in V
    PROVE  \E c \in [0..Len(s) -> V] :
             /\ c[0] = <<>> /\ \A i \in 1..Len(s) : c[i] = Add1(c[i - 1], s[i])
             /\ Dedup(s) = c[Len(s)]
<1> DEFINE n == Len(s)
           G == [p \in V \X (1..n) |-> Add1(p[1], s[p[2]])]
           Folds(it) == it = [S \in SUBSET DOMAIN s |->
                                IF S = {} THEN <<>> ELSE Add1(it[S \ {Max(S)}], s[Max(S)])]
           chosen == CHOOSE it : Folds(it)
<1>1. Dedup(s) = chosen[1..n]
  BY Zenon DEF Dedup, FoldLeft, MapThenFoldSet, Add1, Last
<1>2. G \in [V \X (1..n) -> V]
  OBVIOUS
<1>3. PICK it \in [SUBSET (1..n) -> V] : Unwinds(it, <<>>, n, G)
  <2> HIDE DEF G
  <2> QED BY <1>2, FoldExists
<1>4. Folds(it)
  <2>1. \A S \in SUBSET (1..n) : it[S] = IF S = {} THEN <<>> ELSE Add1(it[S \ {Max(S)}], s[Max(S)])
    BY <1>3, SomeFacts DEF Unwinds
  <2> QED BY <2>1
<1>5. Folds(chosen)
  <2> HIDE DEF Folds
  <2> QED BY <1>4
<1> HIDE DEF chosen
<1>6. chosen[{}] = <<>>
  BY <1>5
<1>7. ASSUME NEW i \in 1..n PROVE chosen[1..i] = Add1(chosen[1..(i - 1)], s[i])
  <2>1. /\ 1..i \in SUBSET (1..n) /\ 1..i # {} /\ Max(1..i) = i
        /\ (1..i) \ {i} = 1..(i - 1)
    BY IntervalFacts
  <2>2. \A S \in SUBSET (1..n) : S # {} => chosen[S] = Add1(chosen[S \ {Max(S)}], s[Max(S)])
    BY <1>5
  <2> QED BY <2>1, <2>2
<1>8. PICK c \in [0..n -> V] : Chain(c, <<>>, n, G) /\ c[n] = chosen[1..n]
  <2>1. Follows(chosen, V, <<>>, n, G)
    BY <1>6, <1>7 DEF Follows
  <2>2. ComesTo(chosen[1..n], V, <<>>, n, G)
    <3> HIDE DEF G
    <3> QED BY <1>2, <2>1, FoldSteps
  <2> QED BY <2>2 DEF ComesTo
<1>9. \A i \in 1..n : c[i] = Add1(c[i - 1], s[i])
  BY <1>8, IntervalFacts DEF Chain
<1> QED BY <1>1, <1>8, <1>9 DEF Chain

LEMMA TotalIsChain ==
    ASSUME NEW V, NEW s, Len(s) \in Nat, DOMAIN s = 1..Len(s), 0 \in V,
           \A a \in V : \A i \in 1..Len(s) : Plus1(a, s[i]) \in V
    PROVE  \E c \in [0..Len(s) -> V] :
             /\ c[0] = 0 /\ \A i \in 1..Len(s) : c[i] = Plus1(c[i - 1], s[i])
             /\ Total(s) = c[Len(s)]
<1> DEFINE n == Len(s)
           G == [p \in V \X (1..n) |-> Plus1(p[1], s[p[2]])]
           Folds(it) == it = [S \in SUBSET DOMAIN s |->
                                IF S = {} THEN 0 ELSE Plus1(it[S \ {Max(S)}], s[Max(S)])]
           chosen == CHOOSE it : Folds(it)
<1>1. Total(s) = chosen[1..n]
  BY Zenon DEF Total, FoldLeft, MapThenFoldSet, Plus1
<1>2. G \in [V \X (1..n) -> V]
  OBVIOUS
<1>3. PICK it \in [SUBSET (1..n) -> V] : Unwinds(it, 0, n, G)
  <2> HIDE DEF G
  <2> QED BY <1>2, FoldExists
<1>4. Folds(it)
  <2>1. \A S \in SUBSET (1..n) : it[S] = IF S = {} THEN 0 ELSE Plus1(it[S \ {Max(S)}], s[Max(S)])
    BY <1>3, SomeFacts DEF Unwinds
  <2> QED BY <2>1
<1>5. Folds(chosen)
  <2> HIDE DEF Folds
  <2> QED BY <1>4
<1> HIDE DEF chosen
<1>6. chosen[{}] = 0
  BY <1>5
<1>7. ASSUME NEW i \in 1..n PROVE chosen[1..i] = Plus1(chosen[1..(i - 1)], s[i])
  <2>1. /\ 1..i \in SUBSET (1..n) /\ 1..i # {} /\ Max(1..i) = i
        /\ (1..i) \ {i} = 1..(i - 1)
    BY IntervalFacts
  <2>2. \A S \in SUBSET (1..n) : S # {} => chosen[S] = Plus1(chosen[S \ {Max(S)}], s[Max(S)])
    BY <1>5
  <2> QED BY <2>1, <2>2
<1>8. PICK c \in [0..n -> V] : Chain(c, 0, n, G) /\ c[n] = chosen[1..n]
  <2>1. Follows(chosen, V, 0, n, G)
    BY <1>6, <1>7 DEF Follows
  <2>2. ComesTo(chosen[1..n], V, 0, n, G)
    <3> HIDE DEF G
    <3> QED BY <1>2, <2>1, FoldSteps
  <2> QED BY <2>2 DEF ComesTo
<1>9. \A i \in 1..n : c[i] = Plus1(c[i - 1], s[i])
  BY <1>8, IntervalFacts DEF Chain
<1> QED BY <1>1, <1>8, <1>9 DEF Chain

-----------------------------------------------------------------------------
(* What labels are filed under, and what the calls amount to, one after the*)
(* other.                                                                  *)
InsertNamed(acc, x) == InsertAt(acc, 1 + Cardinality({i \in DOMAIN acc : ~(x.name < acc[i].name)}), x)

TheirValue(S, s) == FoldLeft(LAMBDA value, op : IF op.labels = S THEN Meant(value, op) ELSE value, 0, s)
AfterOp(S, value, op) == IF op.labels = S THEN Meant(value, op) ELSE value

TheirSteps(V, S, s) ==
    \E c \in [0..Len(s) -> V] :
        /\ c[0] = 0 /\ \A i \in 1..Len(s) : c[i] = AfterOp(S, c[i - 1], s[i])
        /\ TheirValue(S, s) = c[Len(s)]

LEMMA LabelKeyIsChain ==
    ASSUME NEW V, NEW s, Len(s) \in Nat, DOMAIN s = 1..Len(s), <<>> \in V,
           \A a \in V : \A i \in 1..Len(s) : InsertNamed(a, s[i]) \in V
    PROVE  \E c \in [0..Len(s) -> V] :
             /\ c[0] = <<>> /\ \A i \in 1..Len(s) : c[i] = InsertNamed(c[i - 1], s[i])
             /\ LabelKey(s) = c[Len(s)]
<1> DEFINE n == Len(s)
           G == [p \in V \X (1..n) |-> InsertNamed(p[1], s[p[2]])]
           Folds(it) == it = [S \in SUBSET DOMAIN s |->
                                IF S = {} THEN <<>> ELSE InsertNamed(it[S \ {Max(S)}], s[Max(S)])]
           chosen == CHOOSE it : Folds(it)
<1>1. LabelKey(s) = chosen[1..n]
  BY Zenon DEF LabelKey, Sorted, FoldLeft, MapThenFoldSet, Insert, InsertNamed
<1>2. G \in [V \X (1..n) -> V]
  OBVIOUS
<1>3. PICK it \in [SUBSET (1..n) -> V] : Unwinds(it, <<>>, n, G)
  <2> HIDE DEF G
  <2> QED BY <1>2, FoldExists
<1>4. Folds(it)
  <2>1. \A S \in SUBSET (1..n) : it[S] = IF S = {} THEN <<>> ELSE InsertNamed(it[S \ {Max(S)}], s[Max(S)])
    BY <1>3, SomeFacts DEF Unwinds
  <2> QED BY <2>1
<1>5. Folds(chosen)
  <2> HIDE DEF Folds
  <2> QED BY <1>4
<1> HIDE DEF chosen
<1>6. chosen[{}] = <<>>
  BY <1>5
<1>7. ASSUME NEW i \in 1..n PROVE chosen[1..i] = InsertNamed(chosen[1..(i - 1)], s[i])
  <2>1. /\ 1..i \in SUBSET (1..n) /\ 1..i # {} /\ Max(1..i) = i
        /\ (1..i) \ {i} = 1..(i - 1)
    BY IntervalFacts
  <2>2. \A S \in SUBSET (1..n) : S # {} => chosen[S] = InsertNamed(chosen[S \ {Max(S)}], s[Max(S)])
    BY <1>5
  <2> QED BY <2>1, <2>2
<1>8. PICK c \in [0..n -> V] : Chain(c, <<>>, n, G) /\ c[n] = chosen[1..n]
  <2>1. Follows(chosen, V, <<>>, n, G)
    BY <1>6, <1>7 DEF Follows
  <2>2. ComesTo(chosen[1..n], V, <<>>, n, G)
    <3> HIDE DEF G
    <3> QED BY <1>2, <2>1, FoldSteps
  <2> QED BY <2>2 DEF ComesTo
<1>9. \A i \in 1..n : c[i] = InsertNamed(c[i - 1], s[i])
  BY <1>8, IntervalFacts DEF Chain
<1> QED BY <1>1, <1>8, <1>9 DEF Chain

LEMMA TheirValueIsChain ==
    ASSUME NEW V, NEW S, NEW s, Len(s) \in Nat, DOMAIN s = 1..Len(s), 0 \in V,
           \A a \in V : \A i \in 1..Len(s) : AfterOp(S, a, s[i]) \in V
    PROVE  TheirSteps(V, S, s)
<1> DEFINE n == Len(s)
           G == [p \in V \X (1..n) |-> AfterOp(S, p[1], s[p[2]])]
           Folds(it) == it = [P \in SUBSET DOMAIN s |->
                                IF P = {} THEN 0 ELSE AfterOp(S, it[P \ {Max(P)}], s[Max(P)])]
           chosen == CHOOSE it : Folds(it)
<1>1. TheirValue(S, s) = chosen[1..n]
  BY Zenon DEF TheirValue, FoldLeft, MapThenFoldSet, AfterOp
<1>2. G \in [V \X (1..n) -> V]
  OBVIOUS
<1>3. PICK it \in [SUBSET (1..n) -> V] : Unwinds(it, 0, n, G)
  <2> HIDE DEF G
  <2> QED BY <1>2, FoldExists
<1>4. Folds(it)
  <2>1. \A P \in SUBSET (1..n) : it[P] = IF P = {} THEN 0 ELSE AfterOp(S, it[P \ {Max(P)}], s[Max(P)])
    BY <1>3, SomeFacts DEF Unwinds
  <2> QED BY <2>1
<1>5. Folds(chosen)
  <2> HIDE DEF Folds
  <2> QED BY <1>4
<1> HIDE DEF chosen
<1>6. chosen[{}] = 0
  BY <1>5
<1>7. ASSUME NEW i \in 1..n PROVE chosen[1..i] = AfterOp(S, chosen[1..(i - 1)], s[i])
  <2>1. /\ 1..i \in SUBSET (1..n) /\ 1..i # {} /\ Max(1..i) = i
        /\ (1..i) \ {i} = 1..(i - 1)
    BY IntervalFacts
  <2>2. \A P \in SUBSET (1..n) : P # {} => chosen[P] = AfterOp(S, chosen[P \ {Max(P)}], s[Max(P)])
    BY <1>5
  <2> QED BY <2>1, <2>2
<1>8. PICK c \in [0..n -> V] : Chain(c, 0, n, G) /\ c[n] = chosen[1..n]
  <2>1. Follows(chosen, V, 0, n, G)
    BY <1>6, <1>7 DEF Follows
  <2>2. ComesTo(chosen[1..n], V, 0, n, G)
    <3> HIDE DEF G
    <3> QED BY <1>2, <2>1, FoldSteps
  <2> QED BY <2>2 DEF ComesTo
<1>9. \A i \in 1..n : c[i] = AfterOp(S, c[i - 1], s[i])
  BY <1>8, IntervalFacts DEF Chain
<1> QED BY <1>1, <1>8, <1>9 DEF Chain, TheirSteps

(* The sums of the first elements.                                         *)
LEMMA TotalSteps ==
    ASSUME NEW s \in Seq(Int)
    PROVE  \E c \in [0..Len(s) -> Int] :
             /\ c[0] = 0 /\ \A i \in 1..Len(s) : c[i] = c[i - 1] + s[i]
             /\ Total(s) = c[Len(s)]
<1>1. Len(s) \in Nat /\ DOMAIN s = 1..Len(s) /\ 0 \in Int
  OBVIOUS
<1>2. \A a \in Int : \A i \in 1..Len(s) : Plus1(a, s[i]) \in Int
  BY DEF Plus1
<1>3. PICK c \in [0..Len(s) -> Int] :
        /\ c[0] = 0 /\ \A i \in 1..Len(s) : c[i] = Plus1(c[i - 1], s[i])
        /\ Total(s) = c[Len(s)]
  BY <1>1, <1>2, TotalIsChain
<1> QED BY <1>3 DEF Plus1

LEMMA TotalOfMore ==
    ASSUME NEW s \in Seq(Nat), NEW t \in Seq(Nat), Len(s) = Len(t),
           \A i \in 1..Len(s) : s[i] <= t[i]
    PROVE  Total(s) \in Nat /\ Total(s) <= Total(t)
<1>1. s \in Seq(Int) /\ t \in Seq(Int) /\ Len(s) \in Nat
  OBVIOUS
<1>2. PICK c \in [0..Len(s) -> Int] :
        /\ c[0] = 0 /\ \A i \in 1..Len(s) : c[i] = c[i - 1] + s[i]
        /\ Total(s) = c[Len(s)]
  BY <1>1, TotalSteps
<1>3. PICK d \in [0..Len(t) -> Int] :
        /\ d[0] = 0 /\ \A i \in 1..Len(t) : d[i] = d[i - 1] + t[i]
        /\ Total(t) = d[Len(t)]
  BY <1>1, TotalSteps
<1> DEFINE A == {i \in 0..Len(s) : c[i] \in Nat /\ c[i] <= d[i]}
<1>4. 0 \in A
  BY <1>1, <1>2, <1>3
<1>5. \A i \in 1..Len(s) : i - 1 \in A => i \in A
  <2> TAKE i \in 1..Len(s)
  <2>1. i - 1 \in 0..Len(s) /\ s[i] \in Nat /\ t[i] \in Nat /\ s[i] <= t[i] /\ i \in 1..Len(t)
    BY <1>1
  <2>2. c[i] = c[i - 1] + s[i] /\ d[i] = d[i - 1] + t[i] /\ d[i - 1] \in Int /\ c[i - 1] \in Int
    BY <1>2, <1>3, <2>1
  <2> QED BY SMTT(30), <1>1, <2>1, <2>2
<1>6. Len(s) \in A
  <2>1. 0..Len(s) \subseteq A
    <3> HIDE DEF A
    <3> QED BY <1>1, <1>4, <1>5, Upto
  <2> QED BY <1>1, <2>1
<1> QED BY <1>2, <1>3, <1>6

(* A finite set cut up by a function.                                      *)
LEMMA TotalOfParts ==
    ASSUME NEW s \in Seq(Nat), NEW S, IsFiniteSet(S), NEW part,
           \A x \in S : part[x] \in 1..Len(s),
           \A i \in 1..Len(s) : s[i] = Cardinality({x \in S : part[x] = i})
    PROVE  Total(s) = Cardinality(S)
<1>1. s \in Seq(Int) /\ Len(s) \in Nat
  OBVIOUS
<1>2. PICK c \in [0..Len(s) -> Int] :
        /\ c[0] = 0 /\ \A i \in 1..Len(s) : c[i] = c[i - 1] + s[i]
        /\ Total(s) = c[Len(s)]
  BY <1>1, TotalSteps
<1> DEFINE Low(i) == {x \in S : part[x] <= i}
           Here(i) == {x \in S : part[x] = i}
           A == {i \in 0..Len(s) : c[i] = Cardinality(Low(i))}
<1>3. 0 \in A
  <2>1. Low(0) = {}
    BY <1>1
  <2>2. c[0] = Cardinality(Low(0))
    BY <1>2, <2>1, FS_EmptySet
  <2> QED BY <1>1, <2>2
<1>4. ASSUME NEW i \in 1..Len(s), i - 1 \in A PROVE i \in A
  <2>1. Low(i) = Low(i - 1) \cup Here(i) /\ Low(i - 1) \cap Here(i) = {}
    BY <1>1
  <2>2. IsFiniteSet(Low(i - 1)) /\ IsFiniteSet(Here(i))
    BY FS_Subset
  <2>3. /\ Cardinality(Low(i - 1)) \in Nat /\ Cardinality(Here(i)) \in Nat
        /\ Cardinality(Low(i)) = Cardinality(Low(i - 1)) + Cardinality(Here(i)) - Cardinality({})
    <3> HIDE DEF Low, Here
    <3>1. Cardinality(Low(i - 1)) \in Nat /\ Cardinality(Here(i)) \in Nat
      BY <2>2, FS_CardinalityType
    <3>2. Cardinality(Low(i - 1) \cup Here(i))
            = Cardinality(Low(i - 1)) + Cardinality(Here(i)) - Cardinality(Low(i - 1) \cap Here(i))
      BY <2>2, FS_Union
    <3> QED BY <2>1, <3>1, <3>2
  <2>4. Cardinality({}) = 0
    BY FS_EmptySet
  <2>5. c[i - 1] = Cardinality(Low(i - 1)) /\ s[i] = Cardinality(Here(i)) /\ c[i] = c[i - 1] + s[i]
    BY <1>1, <1>2, <1>4
  <2>6. c[i] = Cardinality(Low(i))
    <3> HIDE DEF Low, Here
    <3> QED BY <2>3, <2>4, <2>5
  <2> QED BY <2>6
<1>5. Len(s) \in A
  <2>1. 0..Len(s) \subseteq A
    <3> HIDE DEF A
    <3> QED BY <1>1, <1>3, <1>4, Upto
  <2> QED BY <1>1, <2>1
<1>6. Low(Len(s)) = S
  BY <1>1
<1> QED BY <1>2, <1>5, <1>6

-----------------------------------------------------------------------------
(* Buckets.                                                                *)
LEMMA InitialSegment ==
    ASSUME NEW n \in Nat, NEW A \in SUBSET (1..n), \A i \in A : \A j \in 1..i : j \in A
    PROVE  Cardinality(A) \in 0..n /\ A = 1..Cardinality(A)
<1>1. CASE A = {}
  BY <1>1, FS_EmptySet
<1>2. CASE A # {}
  <2>1. Max(A) \in A /\ \A y \in A : y <= Max(A)
    BY <1>2, MaxOfSome
  <2>2. A = 1..Max(A) /\ Max(A) \in 1..n
    <3>1. Max(A) \in 1..n
      BY <2>1
    <3>2. \A y \in A : y \in 1..Max(A)
      BY <2>1
    <3>3. \A y \in 1..Max(A) : y \in A
      BY <2>1
    <3> QED BY <3>1, <3>2, <3>3
  <2>3. Cardinality(1..Max(A)) = Max(A)
    BY <2>2, FS_Interval
  <2> QED BY <2>2, <2>3
<1> QED BY <1>1, <1>2

LEMMA BucketIndexIsRight ==
    ASSUME NEW b \in Seq(Int), NEW v \in Int, NEW i \in BucketIndex(b, v)
    PROVE  i \in 1..Len(b) + 1 /\ (Increasing(b) => InBucket(b, i, v))
<1>1. Len(b) \in Nat /\ DOMAIN b = 1..Len(b) /\ \A j \in 1..Len(b) : b[j] \in Int
  OBVIOUS
<1>2. CASE ~Increasing(b)
  BY <1>2 DEF BucketIndex
<1>3. CASE Increasing(b)
  <2> DEFINE A == {j \in DOMAIN b : b[j] < v}
  <2>1. \A j \in A : \A k \in 1..j : k \in A
    <3> TAKE j \in A
    <3> TAKE k \in 1..j
    <3>1. k \in 1..Len(b) /\ j \in 1..Len(b) /\ b[j] < v
      BY <1>1
    <3>2. k = j \/ b[k] < b[j]
      BY <1>1, <1>3, <3>1 DEF Increasing
    <3> QED BY <1>1, <3>1, <3>2
  <2>2. Cardinality(A) \in 0..Len(b) /\ A = 1..Cardinality(A)
    <3>1. A \in SUBSET (1..Len(b))
      BY <1>1
    <3> HIDE DEF A
    <3> QED BY <1>1, <2>1, <3>1, InitialSegment
  <2>3. i = 1 + Cardinality(A)
    BY <1>3 DEF BucketIndex
  <2>4. \A j \in 1..Len(b) : b[j] < v <=> j <= i - 1
    BY <1>1, <2>2, <2>3
  <2>5. i \in 1..Len(b) + 1
    BY <1>1, <2>2, <2>3
  <2> QED BY <1>1, <2>4, <2>5 DEF InBucket
<1> QED BY <1>2, <1>3

LEMMA OneBucket ==
    ASSUME NEW b \in Seq(Int), Increasing(b), NEW v \in Int,
           NEW i \in 1..Len(b) + 1, NEW j \in 1..Len(b) + 1, InBucket(b, i, v), InBucket(b, j, v)
    PROVE  i = j
<1>1. Len(b) \in Nat /\ DOMAIN b = 1..Len(b) /\ \A k \in 1..Len(b) : b[k] \in Int
  OBVIOUS
<1>2. ASSUME NEW k \in 1..Len(b) + 1, NEW l \in 1..Len(b) + 1, InBucket(b, k, v), InBucket(b, l, v)
      PROVE  ~(k < l)
  <2>1. SUFFICES ASSUME k < l PROVE FALSE
    OBVIOUS
  <2>2. k \in 1..Len(b) /\ l - 1 \in 1..Len(b) /\ k <= l - 1
    BY <1>1, <2>1
  <2>3. v <= b[k] /\ b[l - 1] < v
    BY <1>1, <1>2, <2>1, <2>2 DEF InBucket
  <2>4. b[k] <= b[l - 1]
    <3>4. \A m, o \in 1..Len(b) : m < o => b[m] < b[o]
      BY <1>1 DEF Increasing
    <3>3. \A m \in 1..Len(b) : k <= m => k = m \/ b[k] < b[m]
      BY <2>2, <3>4
    <3>1. k = l - 1 \/ b[k] < b[l - 1]
      BY <2>2, <3>3
    <3>2. b[k] \in Int /\ b[l - 1] \in Int
      BY <1>1, <2>2
    <3> QED BY <3>1, <3>2
  <2> QED BY <1>1, <2>2, <2>3, <2>4
<1> QED BY <1>1, <1>2

-----------------------------------------------------------------------------
(* Sorting by insertion, for a relation that says which elements are less. *)
Weak(Lt, W) ==
    \A a, b, c \in W : /\ <<a, b>> \in Lt => <<b, a>> \notin Lt
                       /\ <<a, b>> \in Lt /\ <<c, b>> \notin Lt => <<a, c>> \in Lt

InOrderOf(Lt, s) == \A i, j \in DOMAIN s : i < j => <<s[j], s[i]>> \notin Lt

Place(Lt, s, x) == 1 + Cardinality({i \in DOMAIN s : <<x, s[i]>> \notin Lt})

Places(s) == 1..Len(s) + 1

(* r is s with x inserted at p.                                            *)
Inserted(r, s, p, x, W) ==
    /\ r \in Seq(W) /\ Len(r) = Len(s) + 1
    /\ \A j \in 1..Len(s) + 1 : r[j] = IF j < p THEN s[j] ELSE IF j = p THEN x ELSE s[j - 1]

LEMMA PlaceIsThere ==
    ASSUME NEW W, NEW Lt, NEW s \in Seq(W), NEW x
    PROVE  Place(Lt, s, x) \in Places(s)
<1> DEFINE A == {i \in DOMAIN s : <<x, s[i]>> \notin Lt}
<1>1. Len(s) \in Nat /\ A \in SUBSET (1..Len(s)) /\ Cardinality(1..Len(s)) = Len(s) /\ IsFiniteSet(1..Len(s))
  <2>1. Len(s) \in Nat /\ A \in SUBSET (1..Len(s))
    OBVIOUS
  <2>2. 1 \in Int /\ Len(s) \in Int
    BY <2>1
  <2>3. IsFiniteSet(1..Len(s)) /\ Cardinality(1..Len(s)) = IF 1 > Len(s) THEN 0 ELSE Len(s) - 1 + 1
    BY <2>2, FS_Interval
  <2> HIDE DEF A
  <2> QED BY <2>1, <2>3
<1>2. IsFiniteSet(A) /\ Cardinality(A) <= Len(s)
  <2> HIDE DEF A
  <2> QED BY <1>1, FS_Subset
<1>3. Cardinality(A) \in Nat
  <2> HIDE DEF A
  <2> QED BY <1>2, FS_CardinalityType
<1>4. Place(Lt, s, x) = 1 + Cardinality(A)
  BY DEF Place
<1> HIDE DEF A
<1> QED BY <1>1, <1>2, <1>3, <1>4 DEF Places

LEMMA InsertAtIs ==
    ASSUME NEW W, NEW s \in Seq(W), NEW x \in W, NEW p \in Places(s)
    PROVE  Inserted(InsertAt(s, p, x), s, p, x, W)
<1>1. Len(s) \in Nat /\ p \in 1..Len(s) + 1 /\ \A i \in 1..Len(s) : s[i] \in W
  BY DEF Places
<1> DEFINE f == SubSeq(s, 1, p - 1)
           l == SubSeq(s, p, Len(s))
<1>2. /\ f \in Seq(W) /\ Len(f) = p - 1
      /\ \A i \in 1..p - 1 : f[i] = s[i]
  <2>1. \A i \in 1..p - 1 : s[i] \in W
    BY <1>1
  <2> QED BY <1>1, <2>1, SubSeqProperties
<1>3. /\ l \in Seq(W) /\ Len(l) = Len(s) - p + 1
      /\ \A i \in 1..Len(s) - p + 1 : l[i] = s[p + i - 1]
  <2>1. \A i \in p..Len(s) : s[i] \in W
    BY <1>1
  <2> QED BY <1>1, <2>1, SubSeqProperties
<1>4. <<x>> \in Seq(W) /\ Len(<<x>>) = 1 /\ <<x>>[1] = x
  OBVIOUS
<1> HIDE DEF f, l
<1> DEFINE g == f \o <<x>>
<1>5. /\ g \in Seq(W) /\ Len(g) = p
      /\ \A i \in 1..p : g[i] = IF i < p THEN s[i] ELSE x
  BY <1>1, <1>2, <1>4, ConcatProperties
<1> HIDE DEF g
<1> DEFINE r == g \o l
<1>6. /\ r \in Seq(W) /\ Len(r) = Len(s) + 1
      /\ \A i \in 1..Len(s) + 1 : r[i] = IF i <= p THEN g[i] ELSE l[i - p]
  <2>1. /\ r \in Seq(W) /\ Len(r) = Len(g) + Len(l)
        /\ \A i \in 1..Len(g) + Len(l) : r[i] = IF i <= Len(g) THEN g[i] ELSE l[i - Len(g)]
    BY <1>3, <1>5, ConcatProperties
  <2>2. Len(g) + Len(l) = Len(s) + 1
    BY <1>1, <1>3, <1>5
  <2> QED BY <1>5, <2>1, <2>2
<1>7. r = InsertAt(s, p, x)
  BY DEF f, l, g, InsertAt
<1> HIDE DEF r
<1>8. ASSUME NEW j \in 1..Len(s) + 1
      PROVE  r[j] = IF j < p THEN s[j] ELSE IF j = p THEN x ELSE s[j - 1]
  <2>1. CASE j <= p
    BY <1>1, <1>5, <1>6, <2>1
  <2>2. CASE j > p
    <3>1. j - p \in 1..Len(s) - p + 1 /\ p + (j - p) - 1 = j - 1
      BY <1>1, <2>2
    <3>2. r[j] = l[j - p]
      BY <1>1, <1>6, <2>2
    <3>3. l[j - p] = s[p + (j - p) - 1]
      BY <1>3, <3>1
    <3> QED BY <1>1, <2>2, <3>1, <3>2, <3>3
  <2> QED BY <1>1, <2>1, <2>2
<1> QED BY <1>6, <1>7, <1>8 DEF Inserted

LEMMA InsertKeepsOrder ==
    ASSUME NEW W, NEW Lt, Weak(Lt, W), NEW s \in Seq(W), InOrderOf(Lt, s), NEW x \in W,
           NEW r, r = InsertAt(s, Place(Lt, s, x), x)
    PROVE  InOrderOf(Lt, r) /\ ToSet(r) = ToSet(s) \cup {x}
<1> DEFINE p == Place(Lt, s, x)
           A == {i \in DOMAIN s : <<x, s[i]>> \notin Lt}
<1>1. Len(s) \in Nat /\ DOMAIN s = 1..Len(s) /\ \A i \in 1..Len(s) : s[i] \in W
  OBVIOUS
<1>2. p \in 1..Len(s) + 1
  BY PlaceIsThere DEF Places
<1>3. p = 1 + Cardinality(A)
  BY DEF Place
<1>4. A = 1..p - 1
  <2>1. A \in SUBSET (1..Len(s))
    BY <1>1
  <2>2. \A i \in A : \A j \in 1..i : j \in A
    <3> TAKE i \in A
    <3> TAKE j \in 1..i
    <3>1. j \in 1..Len(s) /\ i \in 1..Len(s) /\ s[i] \in W /\ s[j] \in W /\ <<x, s[i]>> \notin Lt
      BY <1>1
    <3>2. j = i \/ <<s[i], s[j]>> \notin Lt
      BY <1>1, <3>1 DEF InOrderOf
    <3>3. <<x, s[j]>> \notin Lt
      BY <3>1, <3>2 DEF Weak
    <3> QED BY <1>1, <3>1, <3>3
  <2>3. A = 1..Cardinality(A) /\ Cardinality(A) \in Nat
    <3> HIDE DEF A
    <3> QED BY <1>1, <2>1, <2>2, InitialSegment
  <2>4. p - 1 = Cardinality(A)
    BY <1>3, <2>3
  <2> HIDE DEF A, p
  <2> QED BY <2>3, <2>4
<1>5. ASSUME NEW i \in 1..Len(s) PROVE <<x, s[i]>> \notin Lt <=> i < p
  <2>1. i \in A <=> i \in 1..p - 1
    BY <1>4
  <2>2. i \in A <=> <<x, s[i]>> \notin Lt
    BY <1>1
  <2> QED BY <1>1, <1>2, <2>1, <2>2
<1> HIDE DEF A, p
<1>6. /\ r \in Seq(W) /\ Len(r) = Len(s) + 1
      /\ \A j \in 1..Len(s) + 1 : r[j] = IF j < p THEN s[j] ELSE IF j = p THEN x ELSE s[j - 1]
  <2>1. r = InsertAt(s, p, x)
    BY DEF p
  <2>2. p \in Places(s)
    BY <1>2 DEF Places
  <2>3. Inserted(r, s, p, x, W)
    BY <2>1, <2>2, InsertAtIs
  <2> QED BY <2>3 DEF Inserted
<1>7. DOMAIN r = 1..Len(s) + 1
  BY <1>6
<1>8. ASSUME NEW i \in 1..Len(s) + 1, NEW j \in 1..Len(s) + 1, i < j
      PROVE  <<r[j], r[i]>> \notin Lt
  <2>1. CASE j < p
    <3>1. r[i] = s[i] /\ r[j] = s[j] /\ i \in 1..Len(s) /\ j \in 1..Len(s)
      BY <1>1, <1>2, <1>6, <1>8, <2>1
    <3> QED BY <1>1, <1>8, <3>1 DEF InOrderOf
  <2>2. CASE j = p
    <3>1. r[i] = s[i] /\ r[j] = x /\ i \in 1..Len(s) /\ i < p
      BY <1>1, <1>2, <1>6, <1>8, <2>2
    <3> QED BY <1>5, <3>1
  <2>3. CASE j > p
    <3>1. r[j] = s[j - 1] /\ j - 1 \in 1..Len(s) /\ ~(j - 1 < p)
      BY <1>1, <1>2, <1>6, <2>3
    <3>2. <<x, s[j - 1]>> \in Lt
      BY <1>5, <3>1
    <3>3. CASE i < p
      <4>1. r[i] = s[i] /\ i \in 1..Len(s) /\ i < j - 1
        BY <1>1, <1>2, <1>6, <2>3, <3>3
      <4> QED BY <1>1, <3>1, <4>1 DEF InOrderOf
    <3>4. CASE i = p
      <4>1. r[i] = x
        BY <1>2, <1>6, <3>4
      <4> QED BY <1>1, <3>1, <3>2, <4>1 DEF Weak
    <3>5. CASE i > p
      <4>1. r[i] = s[i - 1] /\ i - 1 \in 1..Len(s) /\ i - 1 < j - 1
        BY <1>1, <1>2, <1>6, <1>8, <3>5
      <4> QED BY <1>1, <3>1, <4>1 DEF InOrderOf
    <3> QED BY <1>2, <3>3, <3>4, <3>5
  <2> QED BY <1>2, <2>1, <2>2, <2>3
<1>9. InOrderOf(Lt, r)
  BY <1>7, <1>8 DEF InOrderOf
<1>10. ASSUME NEW y PROVE y \in ToSet(r) <=> y \in ToSet(s) \cup {x}
  <2>1. ASSUME NEW j \in 1..Len(s) + 1 PROVE r[j] \in ToSet(s) \cup {x}
    <3>1. j < p => j \in 1..Len(s)
      BY <1>1, <1>2
    <3>2. j > p => j - 1 \in 1..Len(s)
      BY <1>1, <1>2
    <3>3. r[j] = x \/ \E i \in 1..Len(s) : r[j] = s[i]
      BY <1>2, <1>6, <3>1, <3>2
    <3> QED BY <1>1, <3>3 DEF ToSet
  <2>2. ASSUME NEW i \in 1..Len(s) PROVE \E j \in 1..Len(s) + 1 : r[j] = s[i]
    <3>1. CASE i < p
      BY <1>1, <1>6, <3>1
    <3>2. CASE ~(i < p)
      <4>1. i + 1 \in 1..Len(s) + 1 /\ r[i + 1] = s[(i + 1) - 1] /\ (i + 1) - 1 = i
        BY <1>1, <1>2, <1>6, <3>2
      <4> QED BY <4>1
    <3> QED BY <3>1, <3>2
  <2>3. r[p] = x
    BY <1>2, <1>6
  <2>4. y \in ToSet(r) => y \in ToSet(s) \cup {x}
    BY <1>7, <2>1 DEF ToSet
  <2>5. y \in ToSet(s) \cup {x} => y \in ToSet(r)
    BY <1>1, <1>2, <1>7, <2>2, <2>3 DEF ToSet
  <2> QED BY <2>4, <2>5
<1> QED BY <1>9, <1>10

-----------------------------------------------------------------------------
(* What the buckets are that come of a request.                            *)
Finite   == Int \cup {Inf}
Bound    == Int \cup {Inf, NaN}
LessThan == {p \in Finite \X Finite : Before(p[1], p[2])}

LEMMA BeforeIsWeak == Weak(LessThan, Finite)
BY ValuesAssumption DEF Weak, LessThan, Finite, Before

LEMMA SortedIs ==
    ASSUME NEW s \in Seq(Finite)
    PROVE  /\ Sorted(s, Before) \in Seq(Finite)
           /\ InOrderOf(LessThan, Sorted(s, Before))
           /\ ToSet(Sorted(s, Before)) = ToSet(s)
<1> DEFINE V == Seq(Finite)
<1>1. Len(s) \in Nat /\ DOMAIN s = 1..Len(s) /\ <<>> \in V /\ \A i \in 1..Len(s) : s[i] \in Finite
  OBVIOUS
<1>2. ASSUME NEW a \in V, NEW x \in Finite
      PROVE  InsertBefore(a, x) = InsertAt(a, Place(LessThan, a, x), x)
  <2>1. \A i \in DOMAIN a : ~Before(x, a[i]) <=> <<x, a[i]>> \notin LessThan
    BY DEF LessThan
  <2>2. {i \in DOMAIN a : ~Before(x, a[i])} = {i \in DOMAIN a : <<x, a[i]>> \notin LessThan}
    BY <2>1
  <2> QED BY <2>2 DEF InsertBefore, Place
<1>3. \A a \in V : \A i \in 1..Len(s) : InsertBefore(a, s[i]) \in V
  BY <1>1, <1>2, PlaceIsThere, InsertAtIs DEF Inserted
<1>4. PICK c \in [0..Len(s) -> V] :
        /\ c[0] = <<>> /\ \A i \in 1..Len(s) : c[i] = InsertBefore(c[i - 1], s[i])
        /\ Sorted(s, Before) = c[Len(s)]
  <2> HIDE DEF V
  <2> QED BY <1>1, <1>3, SortedIsChain
<1> DEFINE A == {i \in 0..Len(s) : InOrderOf(LessThan, c[i]) /\ ToSet(c[i]) = {s[j] : j \in 1..i}}
<1>5. 0 \in A
  BY <1>1, <1>4 DEF InOrderOf, ToSet
<1>6. ASSUME NEW i \in 1..Len(s), i - 1 \in A PROVE i \in A
  <2>1. i - 1 \in 0..Len(s) /\ i \in 0..Len(s) /\ s[i] \in Finite /\ c[i - 1] \in V
    BY <1>1
  <2>2. c[i] = InsertAt(c[i - 1], Place(LessThan, c[i - 1], s[i]), s[i])
    BY <1>2, <1>4, <2>1
  <2>3. InOrderOf(LessThan, c[i - 1]) /\ ToSet(c[i - 1]) = {s[j] : j \in 1..i - 1}
    BY <1>6
  <2>4. InOrderOf(LessThan, c[i]) /\ ToSet(c[i]) = ToSet(c[i - 1]) \cup {s[i]}
    BY <2>1, <2>2, <2>3, BeforeIsWeak, InsertKeepsOrder
  <2>5. {s[j] : j \in 1..i} = {s[j] : j \in 1..i - 1} \cup {s[i]}
    <3>1. 1..i = (1..i - 1) \cup {i}
      BY <1>1
    <3> QED BY <3>1
  <2> QED BY <2>1, <2>3, <2>4, <2>5
<1>7. 0..Len(s) \subseteq A
  <2> HIDE DEF A
  <2> QED BY <1>1, <1>5, <1>6, Upto
<1>8. Len(s) \in A /\ c[Len(s)] \in V
  BY <1>1, <1>7
<1> QED BY <1>1, <1>4, <1>8 DEF ToSet

LEMMA ToSetOfAppend ==
    ASSUME NEW W, NEW s \in Seq(W), NEW x
    PROVE  ToSet(Append(s, x)) = ToSet(s) \cup {x}
<1>1. /\ Len(s) \in Nat /\ DOMAIN s = 1..Len(s) /\ DOMAIN Append(s, x) = 1..Len(s) + 1
      /\ \A i \in 1..Len(s) : Append(s, x)[i] = s[i]
      /\ Append(s, x)[Len(s) + 1] = x
  OBVIOUS
<1>2. 1..Len(s) + 1 = (1..Len(s)) \cup {Len(s) + 1}
  BY <1>1
<1> HIDE DEF ToSet
<1>3. ASSUME NEW y PROVE y \in ToSet(Append(s, x)) <=> y \in ToSet(s) \cup {x}
  <2>1. y \in ToSet(Append(s, x)) <=> \E i \in 1..Len(s) + 1 : y = Append(s, x)[i]
    BY <1>1 DEF ToSet
  <2>2. y \in ToSet(s) <=> \E i \in 1..Len(s) : y = s[i]
    BY <1>1 DEF ToSet
  <2> QED BY <1>1, <1>2, <2>1, <2>2
<1> QED BY <1>3

Rising(s) == \A i, j \in DOMAIN s : i < j => s[i] <= s[j]

LEMMA AppendToOrdered ==
    ASSUME NEW s \in Seq(Int), NEW x \in Int
    PROVE  /\ Rising(s) /\ (\A y \in ToSet(s) : y <= x) => Rising(Append(s, x))
           /\ Increasing(s) /\ (\A y \in ToSet(s) : y < x) => Increasing(Append(s, x))
<1> DEFINE r == Append(s, x)
<1>1. /\ Len(s) \in Nat /\ DOMAIN s = 1..Len(s) /\ DOMAIN r = 1..Len(s) + 1
      /\ \A i \in 1..Len(s) : r[i] = s[i] /\ s[i] \in ToSet(s)
      /\ r[Len(s) + 1] = x
  BY DEF ToSet
<1> HIDE DEF r
<1>2. ASSUME NEW i \in 1..Len(s) + 1, NEW j \in 1..Len(s) + 1, i < j
      PROVE  \/ j = Len(s) + 1 /\ r[j] = x /\ r[i] \in ToSet(s)
             \/ /\ i \in DOMAIN s /\ j \in DOMAIN s /\ r[i] = s[i] /\ r[j] = s[j]
  BY <1>1, <1>2
<1>3. Rising(s) /\ (\A y \in ToSet(s) : y <= x) => Rising(r)
  BY <1>1, <1>2 DEF Rising
<1>4. Increasing(s) /\ (\A y \in ToSet(s) : y < x) => Increasing(r)
  BY <1>1, <1>2 DEF Increasing
<1> QED BY <1>3, <1>4 DEF r

LEMMA FiniteBounds == \A x \in Bound : (IsFinite(x) <=> x \in Int) /\ (x # NaN => x \in Finite)
BY ValuesAssumption DEF Bound, Finite, IsFinite

LEMMA RetainFiniteIs ==
    ASSUME NEW s \in Seq(Bound)
    PROVE  /\ RetainFinite(s) \in Seq(Int)
           /\ ToSet(RetainFinite(s)) = {x \in ToSet(s) : IsFinite(x)}
           /\ s \in Seq(Finite) /\ InOrderOf(LessThan, s) => Rising(RetainFinite(s))
<1> DEFINE V == Seq(Int)
           Kept(i) == {x \in {s[j] : j \in 1..i} : IsFinite(x)}
<1>1. Len(s) \in Nat /\ DOMAIN s = 1..Len(s) /\ <<>> \in V /\ \A i \in 1..Len(s) : s[i] \in Bound
  OBVIOUS
<1>2. \A a \in V : \A i \in 1..Len(s) : Retain(a, s[i]) \in V
  <2> TAKE a \in V
  <2> TAKE i \in 1..Len(s)
  <2>1. IsFinite(s[i]) => s[i] \in Int
    BY <1>1, FiniteBounds
  <2> QED BY <2>1 DEF Retain
<1>3. PICK c \in [0..Len(s) -> V] :
        /\ c[0] = <<>> /\ \A i \in 1..Len(s) : c[i] = Retain(c[i - 1], s[i])
        /\ RetainFinite(s) = c[Len(s)]
  <2> HIDE DEF V
  <2> QED BY <1>1, <1>2, RetainIsChain
<1> DEFINE Good(i) == /\ ToSet(c[i]) = Kept(i)
                      /\ s \in Seq(Finite) /\ InOrderOf(LessThan, s) => Rising(c[i])
           A == {i \in 0..Len(s) : Good(i)}
<1>4. 0 \in A
  BY <1>1, <1>3 DEF Rising, ToSet
<1>5. ASSUME NEW i \in 1..Len(s), i - 1 \in A PROVE i \in A
  <2>1. i - 1 \in 0..Len(s) /\ i \in 0..Len(s) /\ s[i] \in Bound /\ c[i - 1] \in V
    BY <1>1
  <2>2. {s[j] : j \in 1..i} = {s[j] : j \in 1..i - 1} \cup {s[i]}
    <3>1. 1..i = (1..i - 1) \cup {i}
      BY <1>1
    <3> QED BY <3>1
  <2>3. Good(i - 1)
    BY <1>5
  <2>4. CASE ~IsFinite(s[i])
    <3>1. c[i] = c[i - 1]
      BY <1>3, <2>4 DEF Retain
    <3>2. Kept(i) = Kept(i - 1)
      BY <2>2, <2>4
    <3>3. Good(i)
      <4> HIDE DEF Kept
      <4> QED BY <2>3, <3>1, <3>2
    <3> QED BY <2>1, <3>3
  <2>5. CASE IsFinite(s[i])
    <3>1. c[i] = Append(c[i - 1], s[i]) /\ s[i] \in Int
      BY <1>1, <1>3, <2>5, FiniteBounds DEF Retain
    <3>2. ToSet(c[i]) = ToSet(c[i - 1]) \cup {s[i]}
      BY <2>1, <3>1, ToSetOfAppend
    <3>3. Kept(i) = Kept(i - 1) \cup {s[i]}
      BY <2>2, <2>5
    <3>4. ASSUME s \in Seq(Finite), InOrderOf(LessThan, s) PROVE Rising(c[i])
      <4>1. ASSUME NEW y \in ToSet(c[i - 1]) PROVE y <= s[i]
        <5>1. PICK j \in 1..i - 1 : y = s[j]
          BY <2>3
        <5>2. IsFinite(y) /\ y \in Bound /\ j \in DOMAIN s /\ i \in DOMAIN s /\ j < i
          BY <1>1, <2>3, <5>1
        <5>3. y \in Int
          BY <5>2, FiniteBounds
        <5>4. <<s[i], s[j]>> \notin LessThan
          BY <3>4, <5>2 DEF InOrderOf
        <5>5. s[i] \in Finite /\ s[j] \in Finite
          BY <3>1, <5>1, <5>3 DEF Finite
        <5>6. ~Before(s[i], s[j])
          BY <5>4, <5>5 DEF LessThan
        <5> QED BY <3>1, <5>1, <5>3, <5>6, ValuesAssumption DEF Before
      <4>2. Rising(c[i - 1])
        BY <2>3, <3>4
      <4> QED BY <2>1, <3>1, <4>1, <4>2, AppendToOrdered
    <3>5. Good(i)
      <4> HIDE DEF Kept
      <4> QED BY <2>3, <3>2, <3>3, <3>4
    <3> QED BY <2>1, <3>5
  <2> QED BY <2>4, <2>5
<1>6. 0..Len(s) \subseteq A
  <2> HIDE DEF A
  <2> QED BY <1>1, <1>4, <1>5, Upto
<1>7. Good(Len(s)) /\ c[Len(s)] \in V
  <2>1. Len(s) \in A
    <3> HIDE DEF A
    <3> QED BY <1>1, <1>6
  <2>2. c[Len(s)] \in V
    BY <1>1
  <2> HIDE DEF Good
  <2> QED BY <2>1, <2>2
<1>8. Kept(Len(s)) = {x \in ToSet(s) : IsFinite(x)}
  BY <1>1 DEF ToSet
<1> QED BY <1>3, <1>7, <1>8

LEMMA LastIsMost ==
    ASSUME NEW s \in Seq(Int), Increasing(s), NEW k \in DOMAIN s
    PROVE  s[k] <= s[Len(s)]
<1>1. Len(s) \in Nat /\ DOMAIN s = 1..Len(s) /\ k \in 1..Len(s) /\ Len(s) \in 1..Len(s)
  OBVIOUS
<1>2. s[k] \in Int /\ s[Len(s)] \in Int
  BY <1>1
<1>3. k = Len(s) \/ k < Len(s)
  BY <1>1
<1>4. k = Len(s) \/ s[k] < s[Len(s)]
  BY <1>1, <1>3 DEF Increasing
<1> QED BY <1>2, <1>4

LEMMA DedupIs ==
    ASSUME NEW s \in Seq(Int)
    PROVE  /\ Dedup(s) \in Seq(Int)
           /\ Rising(s) => Increasing(Dedup(s)) /\ ToSet(Dedup(s)) = ToSet(s)
<1> DEFINE V == Seq(Int)
           Seen(i) == {s[j] : j \in 1..i}
<1>1. Len(s) \in Nat /\ DOMAIN s = 1..Len(s) /\ <<>> \in V /\ \A i \in 1..Len(s) : s[i] \in Int
  OBVIOUS
<1>2. \A a \in V : \A i \in 1..Len(s) : Add1(a, s[i]) \in V
  BY <1>1 DEF Add1
<1>3. PICK c \in [0..Len(s) -> V] :
        /\ c[0] = <<>> /\ \A i \in 1..Len(s) : c[i] = Add1(c[i - 1], s[i])
        /\ Dedup(s) = c[Len(s)]
  <2> HIDE DEF V
  <2> QED BY <1>1, <1>2, DedupIsChain
<1>4. Dedup(s) \in V
  BY <1>1, <1>3
<1>5. ASSUME Rising(s) PROVE Increasing(Dedup(s)) /\ ToSet(Dedup(s)) = ToSet(s)
  <2> DEFINE Good(i) == /\ ToSet(c[i]) = Seen(i) /\ Increasing(c[i])
                        /\ i > 0 => c[i] # <<>> /\ c[i][Len(c[i])] = s[i]
             A == {i \in 0..Len(s) : Good(i)}
  <2>1. 0 \in A
    BY <1>1, <1>3 DEF Increasing, ToSet
  <2>2. ASSUME NEW i \in 1..Len(s), i - 1 \in A PROVE i \in A
    <3>0. i - 1 \in 0..Len(s) /\ i \in 0..Len(s)
      BY <1>1
    <3>1. i - 1 \in 0..Len(s) /\ i \in 0..Len(s) /\ s[i] \in Int /\ c[i - 1] \in V
      BY <1>1, <3>0
    <3>2. Seen(i) = Seen(i - 1) \cup {s[i]}
      <4>1. 1..i = (1..i - 1) \cup {i}
        BY <1>1
      <4> QED BY <4>1
    <3>3. Good(i - 1)
      BY <2>2
    <3> DEFINE a == c[i - 1]
    <3>4. Len(a) \in Nat /\ DOMAIN a = 1..Len(a) /\ (a # <<>> => Len(a) \in DOMAIN a)
      BY <3>1
    <3>5. CASE a # <<>> /\ a[Len(a)] = s[i]
      <4>1. c[i] = a
        BY <1>3, <3>5 DEF Add1
      <4>2. s[i] \in ToSet(a)
        BY <3>4, <3>5 DEF ToSet
      <4>3. Good(i)
        <5> HIDE DEF Seen
        <5> QED BY <3>2, <3>3, <3>5, <4>1, <4>2
      <4> QED BY <3>1, <4>3
    <3>6. CASE ~(a # <<>> /\ a[Len(a)] = s[i])
      <4>1. c[i] = Append(a, s[i])
        BY <1>3, <3>6 DEF Add1
      <4>2. ToSet(c[i]) = ToSet(a) \cup {s[i]}
        BY <3>1, <4>1, ToSetOfAppend
      <4>3. ASSUME NEW y \in ToSet(a) PROVE y < s[i]
        <5>1. PICK k \in DOMAIN a : y = a[k]
          BY DEF ToSet
        <5>2. a # <<>> /\ k \in 1..Len(a) /\ Len(a) \in 1..Len(a) /\ a[k] \in Int /\ a[Len(a)] \in Int
          BY <3>1, <3>4
        <5>3. a[k] <= a[Len(a)]
          <6>1. Increasing(a) /\ k \in DOMAIN a /\ a \in Seq(Int)
            BY <3>1, <3>3
          <6> HIDE DEF a
          <6> QED BY <6>1, LastIsMost
        <5>4. i - 1 > 0
          <6>1. SUFFICES ASSUME i - 1 = 0 PROVE FALSE
            BY <3>1
          <6>2. Seen(i - 1) = {}
            BY <6>1
          <6> QED BY <3>3, <6>2
        <5>5. a[Len(a)] = s[i - 1]
          BY <3>3, <5>4
        <5>6. i - 1 \in DOMAIN s /\ i \in DOMAIN s /\ i - 1 < i /\ s[i - 1] \in Int
          BY <1>1, <5>4
        <5>7. s[i - 1] <= s[i]
          BY <1>5, <5>6 DEF Rising
        <5>8. a[Len(a)] # s[i]
          BY <3>6, <5>2
        <5> HIDE DEF a
        <5> QED BY SMTT(30), <3>1, <5>1, <5>2, <5>3, <5>5, <5>6, <5>7, <5>8
      <4>4. Increasing(c[i])
        BY <3>1, <3>3, <4>1, <4>3, AppendToOrdered
      <4>5. c[i] # <<>> /\ c[i][Len(c[i])] = s[i]
        BY <3>1, <4>1
      <4>6. Good(i)
        <5> HIDE DEF Seen
        <5> QED BY <3>2, <3>3, <4>2, <4>4, <4>5
      <4> QED BY <3>1, <4>6
    <3> QED BY <3>5, <3>6
  <2>3. 0..Len(s) \subseteq A
    <3> HIDE DEF A
    <3> QED BY <1>1, <2>1, <2>2, Upto
  <2>4. Good(Len(s))
    BY <1>1, <2>3
  <2> QED BY <1>1, <1>3, <2>4 DEF ToSet
<1> QED BY <1>4, <1>5

LEMMA BucketsAre ==
    ASSUME NEW request \in Requests, NEW b \in Buckets(request)
    PROVE  LET first == IF request = NoBuckets THEN DefaultBuckets ELSE request
           IN  /\ b \in Seq(Int)
               /\ NaN \notin ToSet(first) =>
                    Increasing(b) /\ ToSet(b) = {x \in ToSet(first) : IsFinite(x)}
<1> DEFINE first == IF request = NoBuckets THEN DefaultBuckets ELSE request
<1>1. first \in Seq(Bound)
  <2>1. DefaultBuckets \in Seq(Int)
    BY DEF DefaultBuckets
  <2>2. DefaultBuckets \in Seq(Bound)
    BY <2>1 DEF Bound
  <2> QED BY <2>2, ValuesAssumption DEF Bound
<1>2. PICK t \in Sorts(first) : b = Dedup(RetainFinite(t))
  BY DEF Buckets
<1> HIDE DEF first
<1>3. CASE NaN \in ToSet(first)
  <2>1. PICK p \in Bijection(DOMAIN first, DOMAIN first) : t = [i \in DOMAIN first |-> first[p[i]]]
    BY <1>3 DEF Sorts
  <2>2. p \in [DOMAIN first -> DOMAIN first]
    BY DEF Bijection, Injection
  <2>3. DOMAIN first = 1..Len(first) /\ Len(first) \in Nat /\ \A i \in DOMAIN first : first[i] \in Bound
    BY <1>1
  <2>4. t \in [1..Len(first) -> Bound]
    BY <2>1, <2>2, <2>3
  <2>5. t \in Seq(Bound)
    BY <2>3, <2>4
  <2>6. RetainFinite(t) \in Seq(Int)
    BY <2>5, RetainFiniteIs
  <2>7. b \in Seq(Int)
    BY <1>2, <2>6, DedupIs
  <2> QED BY <1>3, <2>7 DEF first
<1>4. CASE NaN \notin ToSet(first)
  <2>1. first \in Seq(Finite)
    <3>1. DOMAIN first = 1..Len(first) /\ Len(first) \in Nat /\ \A i \in DOMAIN first : first[i] \in Bound
      BY <1>1
    <3>2. \A i \in DOMAIN first : first[i] # NaN
      BY <1>4 DEF ToSet
    <3>3. \A i \in DOMAIN first : first[i] \in Finite
      BY <3>1, <3>2, FiniteBounds
    <3>4. first \in [1..Len(first) -> Finite]
      BY <1>1, <3>1, <3>3
    <3> QED BY <3>1, <3>4
  <2>2. t = Sorted(first, Before)
    BY <1>4 DEF Sorts
  <2>3. t \in Seq(Finite) /\ InOrderOf(LessThan, t) /\ ToSet(t) = ToSet(first)
    BY <2>1, <2>2, SortedIs
  <2>4. t \in Seq(Bound)
    BY <2>3 DEF Finite, Bound
  <2>5. /\ RetainFinite(t) \in Seq(Int) /\ Rising(RetainFinite(t))
        /\ ToSet(RetainFinite(t)) = {x \in ToSet(first) : IsFinite(x)}
    BY <2>3, <2>4, RetainFiniteIs
  <2>6. b \in Seq(Int) /\ Increasing(b) /\ ToSet(b) = {x \in ToSet(first) : IsFinite(x)}
    BY <1>2, <2>5, DedupIs
  <2> QED BY <2>6 DEF first
<1> QED BY <1>3, <1>4

-----------------------------------------------------------------------------
(* The invariant of the histograms. At most one storage is ever made, and  *)
(* every handle, of a thread or of its timer, has the atomics that are     *)
(* filed there for its labels.                                             *)
Handle  == [storage : {0, 1}, cell : Nat, key : Keys \cup {None}]
Timer   == [histogram : Handle, observed : BOOLEAN]
Recorded == [key : Keys, value : Int, by : {"caller", "timer"}]
Atomic  == [counts : Seq(Nat), sum : Int, count : Nat]

buckets  == storages[1].buckets
FiledFor == storages[1].data

HistogramTypes ==
    /\ registered \in {0, 1} /\ Len(storages) = registered
    /\ storages \in Seq([buckets : Seq(Int), data : [Keys -> Nat]])
    /\ cells \in Seq(Atomic)
    /\ observed \in Seq(Recorded)
    /\ handle \in [Threads -> Handle]
    /\ timer \in [Threads -> Timer \cup {None}]
    /\ reading = [r \in Readers |-> reading[r]]
    /\ timers \in Nat

NothingYet ==
    registered = 0 => observed = <<>> /\ cells = <<>> /\ flying = {} /\ \A r \in Readers : reading[r] = Idle

FirstBuckets ==
    registered = 1 => asked \in Requests /\ buckets \in Buckets(asked)

OwnCells ==
    registered = 1 =>
        /\ \A k \in Keys : FiledFor[k] \in 0..Len(cells)
        /\ \A k, l \in Keys : FiledFor[k] = FiledFor[l] /\ FiledFor[k] # 0 => k = l
        /\ \A c \in DOMAIN cells : Len(cells[c].counts) = Len(buckets) + 1

IsFiled(h) ==
    h.cell # 0 => registered = 1 /\ h.storage = 1 /\ h.key \in Keys /\ h.cell = FiledFor[h.key]

HandlesFiledToo ==
    \A t \in Threads :
        /\ handle[t].storage = 1 => registered = 1
        /\ IsFiled(handle[t])
        /\ timer[t] # None => timer[t].histogram.cell # 0 /\ IsFiled(timer[t].histogram)

Shape == HistogramTypes /\ NothingYet /\ FirstBuckets /\ OwnCells /\ HandlesFiledToo

(* A timer that has not observed yet, and those that have.                 *)
Pending == {t \in Threads : timer[t] # None /\ ~timer[t].observed}
ByTimer == {n \in DOMAIN observed : observed[n].by = "timer"}

TimersCount == IsFiniteSet(Pending) /\ timers = Cardinality(Pending) + Cardinality(ByTimer)

(* part is the bucket of each observation: BucketIndex leaves it open when *)
(* the buckets are in no order, and it is nowhere to be seen once the      *)
(* addition has taken effect.                                              *)
Addition(part, n, p) ==
    [obs |-> n, part |-> p, cell |-> FiledFor[observed[n].key], bucket |-> part[n]]

PartsAreRight(part) ==
    /\ part \in [DOMAIN observed -> 1..Len(buckets) + 1]
    /\ \A n \in DOMAIN observed :
         /\ Increasing(buckets) => InBucket(buckets, part[n], observed[n].value)
         /\ FiledFor[observed[n].key] # 0

FlyingIsRight(part) ==
    \A f \in flying : \E n \in DOMAIN observed, p \in Part : f = Addition(part, n, p)

In(part, S, i) == {n \in S : part[n] = i}

CellAccounts(part, k) ==
    LET c == cells[FiledFor[k]] IN
    /\ c.count = Cardinality(Landed(k, "count"))
    /\ c.sum = SumOf(observed, Landed(k, "sum"))
    /\ \A i \in DOMAIN c.counts : c.counts[i] = Cardinality(In(part, Landed(k, "bucket"), i))

Snapshot ==
    [cell : Nat, key : Keys, settled : SUBSET Nat, counts : Seq(Nat \cup {None}),
     sum : Int \cup {None}, count : Nat \cup {None}]

ReaderAccounts(part, r) ==
    LET rd == reading[r] IN
    reading[r] # Idle =>
        /\ rd \in Snapshot
        /\ rd.cell = FiledFor[rd.key] /\ rd.cell # 0 /\ Len(rd.counts) = Len(buckets) + 1
        /\ rd.settled \subseteq Settled(rd.key)
        /\ rd.count # None => rd.count \in Cardinality(rd.settled)..Cardinality(Of(rd.key))
        /\ \A i \in DOMAIN rd.counts : rd.counts[i] # None =>
             rd.counts[i] \in Cardinality(In(part, rd.settled, i))..Cardinality(In(part, Of(rd.key), i))
        /\ rd.sum # None =>
             \E T \in SUBSET Of(rd.key) : rd.settled \subseteq T /\ rd.sum = SumOf(observed, T)

Accounts(part) ==
    /\ PartsAreRight(part) /\ FlyingIsRight(part)
    /\ \A k \in Keys : FiledFor[k] # 0 => CellAccounts(part, k)
    /\ \A r \in Readers : ReaderAccounts(part, r)

AllAccounted == registered = 1 => \E part \in [DOMAIN observed -> 1..Len(buckets) + 1] : Accounts(part)

HistogramInv == Shape /\ TimersCount /\ AllAccounted

-----------------------------------------------------------------------------
(* What the steps have in common.                                          *)
LEMMA ObservedSets ==
    ASSUME HistogramTypes
    PROVE  /\ Len(observed) \in Nat /\ DOMAIN observed = 1..Len(observed)
           /\ IsFiniteSet(DOMAIN observed)
           /\ \A n \in DOMAIN observed : observed[n].key \in Keys /\ observed[n].value \in Int
<1>1. Len(observed) \in Nat /\ DOMAIN observed = 1..Len(observed)
  BY DEF HistogramTypes
<1>2. IsFiniteSet(1..Len(observed))
  BY <1>1, FS_Interval
<1>3. \A n \in DOMAIN observed : observed[n] \in Recorded
  BY DEF HistogramTypes
<1> QED BY <1>1, <1>2, <1>3 DEF Recorded

LEMMA Subsets ==
    ASSUME NEW T, IsFiniteSet(T), NEW S, S \subseteq T
    PROVE  /\ IsFiniteSet(S) /\ Cardinality(S) \in Nat /\ Cardinality(T) \in Nat
           /\ Cardinality(S) <= Cardinality(T)
BY FS_Subset, FS_CardinalityType

LEMMA OneMore ==
    ASSUME NEW S, IsFiniteSet(S), NEW x, x \notin S
    PROVE  Cardinality(S \cup {x}) = Cardinality(S) + 1 /\ IsFiniteSet(S \cup {x})
BY FS_AddElement

LEMMA LandedSets ==
    ASSUME HistogramTypes, NEW k, NEW p \in Part
    PROVE  /\ Settled(k) \subseteq Landed(k, p) /\ Landed(k, p) \subseteq Of(k)
           /\ Of(k) \subseteq DOMAIN observed
           /\ IsFiniteSet(Of(k)) /\ IsFiniteSet(Landed(k, p)) /\ IsFiniteSet(Settled(k))
<1>1. /\ Settled(k) \subseteq Landed(k, p) /\ Landed(k, p) \subseteq Of(k)
      /\ Of(k) \subseteq DOMAIN observed
  BY DEF Settled, Landed, Of
<1>2. IsFiniteSet(DOMAIN observed)
  BY ObservedSets
<1>3. IsFiniteSet(Of(k))
  BY <1>1, <1>2, Subsets
<1>4. IsFiniteSet(Landed(k, p))
  BY <1>1, <1>3, Subsets
<1>5. IsFiniteSet(Settled(k))
  BY <1>1, <1>4, Subsets
<1> QED BY <1>1, <1>3, <1>4, <1>5

LEMMA SameAccounts ==
    ASSUME AllAccounted, UNCHANGED <<registered, storages, cells, flying, reading, observed>>
    PROVE  AllAccounted'
<1> SUFFICES ASSUME registered' = 1
             PROVE  \E part \in [DOMAIN observed' -> 1..Len(buckets)' + 1] : Accounts(part)'
  BY DEF AllAccounted
<1>1. PICK part \in [DOMAIN observed -> 1..Len(buckets) + 1] : Accounts(part)
  BY DEF AllAccounted
<1>2. buckets' = buckets /\ FiledFor' = FiledFor
  BY DEF buckets, FiledFor
<1>3. PartsAreRight(part)' /\ FlyingIsRight(part)'
  BY <1>1, <1>2 DEF Accounts, PartsAreRight, FlyingIsRight, Addition
<1>4. /\ \A k : Of(k)' = Of(k) /\ Settled(k)' = Settled(k)
      /\ \A k, p : Landed(k, p)' = Landed(k, p)
  BY DEF Of, Landed, Settled
<1>5. \A k \in Keys : FiledFor'[k] # 0 => CellAccounts(part, k)'
  BY <1>1, <1>2, <1>4 DEF Accounts, CellAccounts
<1>6. \A r \in Readers : ReaderAccounts(part, r)'
  BY <1>1, <1>2, <1>4 DEF Accounts, ReaderAccounts, Snapshot
<1> QED BY <1>1, <1>2, <1>3, <1>5, <1>6 DEF Accounts

LEMMA HistogramInit == Init => HistogramInv
<1> SUFFICES ASSUME Init PROVE HistogramInv
  OBVIOUS
<1> USE DEF Init
<1>1. Shape
  <2>1. HistogramTypes
    BY DEF HistogramTypes, Handle, NoHandle
  <2>2. NothingYet /\ FirstBuckets /\ OwnCells
    BY DEF NothingYet, FirstBuckets, OwnCells
  <2>3. HandlesFiledToo
    BY DEF HandlesFiledToo, IsFiled, NoHandle
  <2> QED BY <2>1, <2>2, <2>3 DEF Shape
<1>2. TimersCount
  <2>1. Pending = {} /\ ByTimer = {}
    BY DEF Pending, ByTimer
  <2> QED BY <2>1, FS_EmptySet DEF TimersCount
<1>3. AllAccounted
  BY DEF AllAccounted
<1> QED BY <1>1, <1>2, <1>3 DEF HistogramInv

-----------------------------------------------------------------------------
(* Registrations and handles.                                              *)
LEMMA OnlyOne ==
    ASSUME NEW W, NEW s \in Seq(W), Len(s) = 1
    PROVE  s[1] \in W /\ s = <<s[1]>> /\ \A x : [s EXCEPT ![1] = x] = <<x>>
<1>1. DOMAIN s = {1} /\ s[1] \in W
  OBVIOUS
<1>2. s = [i \in {1} |-> s[1]]
  BY <1>1
<1>3. \A x : <<x>> = [i \in {1} |-> x]
  OBVIOUS
<1>4. \A x : [s EXCEPT ![1] = x] = [i \in {1} |-> x]
  BY <1>1
<1>5. <<s[1]>> = [i \in {1} |-> s[1]]
  BY <1>3
<1>6. s = <<s[1]>>
  BY <1>2, <1>5
<1>7. \A x : [s EXCEPT ![1] = x] = <<x>>
  BY <1>3, <1>4
<1> QED BY Zenon, <1>1, <1>6, <1>7

LEMMA Refiled ==
    ASSUME NEW b, NEW d, NEW e
    PROVE  [[buckets |-> b, data |-> d] EXCEPT !.data = e] = [buckets |-> b, data |-> e]
OBVIOUS

LEMMA Rehandled ==
    ASSUME NEW h \in Handle, NEW x, NEW k
    PROVE  [[h EXCEPT !.cell = x] EXCEPT !.key = k] = [storage |-> h.storage, cell |-> x, key |-> k]
<1>1. h = [storage |-> h.storage, cell |-> h.cell, key |-> h.key]
  BY DEF Handle
<1>2. \A a, b, c : [[storage |-> a, cell |-> b, key |-> c] EXCEPT !.cell = x] = [storage |-> a, cell |-> x, key |-> c]
  OBVIOUS
<1>3. \A a, b, c : [[storage |-> a, cell |-> b, key |-> c] EXCEPT !.key = k] = [storage |-> a, cell |-> b, key |-> k]
  OBVIOUS
<1>4. [h EXCEPT !.cell = x] = [storage |-> h.storage, cell |-> x, key |-> h.key]
  BY <1>1, <1>2
<1>5. [[h EXCEPT !.cell = x] EXCEPT !.key = k]
          = [[storage |-> h.storage, cell |-> x, key |-> h.key] EXCEPT !.key = k]
  BY <1>4
<1>6. [[storage |-> h.storage, cell |-> x, key |-> h.key] EXCEPT !.key = k]
          = [storage |-> h.storage, cell |-> x, key |-> k]
  BY <1>3
<1> QED BY <1>5, <1>6

LEMMA ShapeFacts ==
    ASSUME Shape
    PROVE  /\ registered = 0 => storages = <<>>
           /\ registered = 1 =>
                /\ storages = <<[buckets |-> buckets, data |-> FiledFor]>>
                /\ buckets \in Seq(Int) /\ FiledFor \in [Keys -> Nat]
                /\ Len(buckets) \in Nat
<1>0. /\ registered \in {0, 1} /\ Len(storages) = registered
      /\ storages \in Seq([buckets : Seq(Int), data : [Keys -> Nat]])
  BY DEF Shape, HistogramTypes
<1>1. CASE registered = 1
  <2>1. Len(storages) = 1 /\ storages[1] \in [buckets : Seq(Int), data : [Keys -> Nat]]
    BY <1>0, <1>1, OnlyOne
  <2>2. storages[1] = [buckets |-> buckets, data |-> FiledFor]
    BY <2>1 DEF buckets, FiledFor
  <2>3. storages = <<storages[1]>>
    BY <1>0, <2>1, OnlyOne
  <2> QED BY <1>1, <2>1, <2>2, <2>3
<1>2. CASE registered = 0
  BY <1>0, <1>2
<1> QED BY <1>0, <1>1, <1>2

LEMMA RegisterShape ==
    ASSUME HistogramInv, NEW t \in Threads, NEW request \in Requests, Register(t, request)
    PROVE  Shape'
<1> USE DEF HistogramInv, Shape
<1>1. CASE registered = 0
  <2>1. PICK b \in Buckets(request) :
          storages' = Append(storages, [buckets |-> b, data |-> [k \in Keys |-> 0]])
    BY <1>1 DEF Register
  <2>2. b \in Seq(Int)
    BY BucketsAre
  <2>3. storages' = <<[buckets |-> b, data |-> [k \in Keys |-> 0]]>> /\ registered' = 1 /\ asked' = request
    BY <1>1, <2>1, ShapeFacts DEF Register
  <2>4. buckets' = b /\ FiledFor' = [k \in Keys |-> 0]
    BY <2>3 DEF buckets, FiledFor
  <2>5. handle' \in [Threads -> Handle] /\ \A u \in Threads : handle'[u].cell = handle[u].cell
    BY <2>3 DEF Register, HistogramTypes, Handle
  <2>6. HistogramTypes'
    <3>1. storages' \in Seq([buckets : Seq(Int), data : [Keys -> Nat]]) /\ Len(storages') = registered'
      BY <2>2, <2>3
    <3> QED BY <2>3, <2>5, <3>1 DEF Register, HistogramTypes
  <2>7. NothingYet'
    BY <2>3 DEF NothingYet
  <2>8. FirstBuckets'
    BY <2>1, <2>3, <2>4 DEF FirstBuckets
  <2>9. OwnCells'
    BY <1>1, <2>4 DEF OwnCells, NothingYet, Register, HistogramTypes
  <2>10. HandlesFiledToo'
    BY <1>1, <2>3, <2>5 DEF HandlesFiledToo, IsFiled, Register
  <2> QED BY <2>6, <2>7, <2>8, <2>9, <2>10
<1>2. CASE registered = 1
  <2>1. UNCHANGED <<registered, storages, cells, timer, flying, reading, observed, timers, asked>>
    BY <1>2 DEF Register
  <2>2. /\ handle' \in [Threads -> Handle]
        /\ \A u \in Threads : handle'[u].cell = handle[u].cell /\ handle'[u].key = handle[u].key
        /\ \A u \in Threads : handle'[u].cell # 0 => handle'[u].storage = handle[u].storage
    BY <1>2, <2>1 DEF Register, HistogramTypes, Handle, NoHandle
  <2>3. buckets' = buckets /\ FiledFor' = FiledFor
    BY <2>1 DEF buckets, FiledFor
  <2>4. HistogramTypes'
    BY <2>1, <2>2 DEF HistogramTypes
  <2>5. NothingYet' /\ FirstBuckets' /\ OwnCells'
    BY <2>1, <2>3 DEF NothingYet, FirstBuckets, OwnCells
  <2>6. HandlesFiledToo'
    BY <1>2, <2>1, <2>2, <2>3 DEF HandlesFiledToo, IsFiled
  <2> QED BY <2>4, <2>5, <2>6
<1> QED BY <1>1, <1>2 DEF HistogramTypes

LEMMA RegisterKeeps ==
    ASSUME HistogramInv, NEW t \in Threads, NEW request \in Requests, Register(t, request)
    PROVE  HistogramInv'
<1>1. Shape'
  BY RegisterShape
<1>2. TimersCount'
  BY DEF HistogramInv, TimersCount, Pending, ByTimer, Register
<1>3. CASE registered = 1
  <2>1. UNCHANGED <<registered, storages, cells, flying, reading, observed>>
    BY <1>3 DEF Register
  <2> QED BY <1>1, <1>2, <2>1, SameAccounts DEF HistogramInv
<1>4. CASE registered = 0
  <2> storages = <<>>
    BY <1>4, ShapeFacts DEF HistogramInv
  <2>1. /\ observed' = <<>> /\ flying' = {} /\ \A r \in Readers : reading'[r] = Idle
        /\ FiledFor' = [k \in Keys |-> 0]
    BY <1>4 DEF HistogramInv, Shape, NothingYet, Register, FiledFor
  <2>2. DOMAIN observed' = {}
    BY <2>1
  <2>3. PICK part : part = [n \in {} |-> 1]
    OBVIOUS
  <2>4. part \in [DOMAIN observed' -> 1..Len(buckets)' + 1]
    BY <2>2, <2>3
  <2>5. Accounts(part)'
    <3>1. PartsAreRight(part)'
      BY <2>2, <2>4 DEF PartsAreRight
    <3>2. FlyingIsRight(part)'
      BY <2>1 DEF FlyingIsRight
    <3>3. \A k \in Keys : FiledFor'[k] = 0
      BY <2>1
    <3>4. \A r \in Readers : ReaderAccounts(part, r)'
      BY <2>1 DEF ReaderAccounts
    <3> QED BY <3>1, <3>2, <3>3, <3>4 DEF Accounts
  <2>6. AllAccounted'
    BY <2>4, <2>5 DEF AllAccounted
  <2> QED BY <1>1, <1>2, <2>6 DEF HistogramInv
<1> QED BY <1>3, <1>4 DEF HistogramInv, Shape, HistogramTypes

LEMMA NewHandleFacts ==
    ASSUME HistogramInv, NEW t \in Threads, NEW k \in Keys, NewHandle(t, k)
    PROVE  /\ registered = 1 /\ handle[t].storage = 1
           /\ IF FiledFor[k] = 0
              THEN /\ cells' = Append(cells, Atomics(buckets))
                   /\ FiledFor' = [FiledFor EXCEPT ![k] = Len(cells) + 1]
              ELSE cells' = cells /\ FiledFor' = FiledFor
           /\ buckets' = buckets
           /\ storages' = <<[buckets |-> buckets, data |-> FiledFor']>>
           /\ handle' = [handle EXCEPT ![t] = [storage |-> 1, cell |-> FiledFor'[k], key |-> k]]
           /\ FiledFor \in [Keys -> Nat] /\ Len(cells) \in Nat
<1>1. handle[t] \in Handle /\ handle[t].storage # 0 /\ (handle[t].storage = 1 => registered = 1)
  BY DEF HistogramInv, Shape, HistogramTypes, HandlesFiledToo, NewHandle
<1>2. registered = 1 /\ handle[t].storage = 1
  BY <1>1 DEF Handle
<1>3. /\ storages = <<[buckets |-> buckets, data |-> FiledFor]>>
      /\ FiledFor \in [Keys -> Nat] /\ Len(cells) \in Nat
  BY <1>2, ShapeFacts DEF HistogramInv, Shape, HistogramTypes
<1> DEFINE one == storages[1]
<1>4. one = [buckets |-> buckets, data |-> FiledFor]
  BY <1>3
<1>5. /\ IF FiledFor[k] = 0
         THEN /\ cells' = Append(cells, Atomics(buckets))
              /\ storages' = [storages EXCEPT ![1] = [one EXCEPT !.data = [one.data EXCEPT ![k] = Len(cells')]]]
         ELSE UNCHANGED <<cells, storages>>
      /\ handle' = [handle EXCEPT ![t].cell = storages'[1].data[k], ![t].key = k]
  BY <1>2 DEF NewHandle, buckets, FiledFor
<1>6. handle' = [handle EXCEPT ![t] = [storage |-> 1, cell |-> FiledFor'[k], key |-> k]]
  <2>1. \A x : [[handle[t] EXCEPT !.cell = x] EXCEPT !.key = k] = [storage |-> 1, cell |-> x, key |-> k]
    BY <1>1, <1>2, Rehandled
  <2>2. handle \in [Threads -> Handle]
    BY DEF HistogramInv, Shape, HistogramTypes
  <2> DEFINE x == storages'[1].data[k]
  <2>3. handle' = [handle EXCEPT ![t] = [[handle[t] EXCEPT !.cell = x] EXCEPT !.key = k]]
    BY <1>5, <2>2
  <2>4. x = FiledFor'[k]
    BY DEF FiledFor
  <2> HIDE DEF x
  <2> QED BY <2>1, <2>3, <2>4
<1>7. CASE FiledFor[k] = 0
  <2>1. cells' = Append(cells, Atomics(buckets)) /\ Len(cells') = Len(cells) + 1
    BY <1>5, <1>7 DEF HistogramInv, Shape, HistogramTypes
  <2> DEFINE e == [FiledFor EXCEPT ![k] = Len(cells) + 1]
             new == [one EXCEPT !.data = [one.data EXCEPT ![k] = Len(cells')]]
  <2>2. storages' = [storages EXCEPT ![1] = new]
    BY <1>5, <1>7
  <2>3. new = [buckets |-> buckets, data |-> e]
    BY <1>4, <2>1, Refiled
  <2>4. storages' = <<[buckets |-> buckets, data |-> e]>>
    <3> HIDE DEF new, e
    <3> QED BY <1>3, <2>2, <2>3
  <2>5. storages'[1] = [buckets |-> buckets, data |-> e]
    BY <2>4
  <2>6. buckets' = buckets /\ FiledFor' = e
    <3> HIDE DEF e
    <3> QED BY <2>5 DEF buckets, FiledFor
  <2> QED BY <1>2, <1>3, <1>6, <1>7, <2>1, <2>4, <2>6
<1>8. CASE FiledFor[k] # 0
  <2>1. UNCHANGED <<cells, storages>>
    BY <1>5, <1>8
  <2>2. buckets' = buckets /\ FiledFor' = FiledFor
    BY <2>1 DEF buckets, FiledFor
  <2> QED BY <1>2, <1>3, <1>6, <1>8, <2>1, <2>2
<1> QED BY <1>7, <1>8

LEMMA NewHandleShape ==
    ASSUME HistogramInv, NEW t \in Threads, NEW k \in Keys, NewHandle(t, k)
    PROVE  Shape'
<1>1. /\ registered = 1 /\ handle[t].storage = 1
      /\ buckets' = buckets
      /\ storages' = <<[buckets |-> buckets, data |-> FiledFor']>>
      /\ handle' = [handle EXCEPT ![t] = [storage |-> 1, cell |-> FiledFor'[k], key |-> k]]
      /\ FiledFor \in [Keys -> Nat] /\ Len(cells) \in Nat
  BY NewHandleFacts
<1>2. UNCHANGED <<registered, timer, flying, reading, asked, observed, timers>>
  BY DEF NewHandle
<1>3. /\ cells \in Seq(Atomic) /\ buckets \in Seq(Int) /\ Len(buckets) \in Nat
      /\ handle \in [Threads -> Handle]
  BY <1>1, ShapeFacts DEF HistogramInv, Shape, HistogramTypes
<1>4. /\ FiledFor' \in [Keys -> Nat] /\ FiledFor'[k] # 0
      /\ \A l \in Keys : FiledFor[l] # 0 => FiledFor'[l] = FiledFor[l]
  <2>1. CASE FiledFor[k] = 0
    <3>1. FiledFor' = [FiledFor EXCEPT ![k] = Len(cells) + 1]
      BY <2>1, NewHandleFacts
    <3> QED BY <1>1, <2>1, <3>1
  <2>2. CASE FiledFor[k] # 0
    <3>1. FiledFor' = FiledFor
      BY <2>2, NewHandleFacts
    <3> QED BY <1>1, <2>2, <3>1
  <2> QED BY <2>1, <2>2
<1>5. cells' \in Seq(Atomic) /\ OwnCells'
  <2>1. CASE FiledFor[k] = 0
    <3>1. cells' = Append(cells, Atomics(buckets)) /\ FiledFor' = [FiledFor EXCEPT ![k] = Len(cells) + 1]
      BY <2>1, NewHandleFacts
    <3>2. Atomics(buckets) \in Atomic /\ Len(Atomics(buckets).counts) = Len(buckets) + 1
      BY <1>3 DEF Atomics, Atomic
    <3>3. cells' \in Seq(Atomic) /\ Len(cells') = Len(cells) + 1 /\ DOMAIN cells' = 1..Len(cells) + 1
      BY <1>3, <3>1, <3>2
    <3>4. \A c \in DOMAIN cells' : Len(cells'[c].counts) = Len(buckets) + 1
      BY <1>1, <1>3, <3>1, <3>2, <3>3 DEF HistogramInv, Shape, OwnCells
    <3>5. \A l \in Keys : FiledFor[l] \in 0..Len(cells)
      BY <1>1 DEF HistogramInv, Shape, OwnCells
    <3>6. \A l \in Keys : FiledFor'[l] \in 0..Len(cells')
      BY <1>1, <3>1, <3>3, <3>5
    <3>7. \A l, m \in Keys : FiledFor[l] = FiledFor[m] /\ FiledFor[l] # 0 => l = m
      BY <1>1 DEF HistogramInv, Shape, OwnCells
    <3>8. \A l, m \in Keys : FiledFor'[l] = FiledFor'[m] /\ FiledFor'[l] # 0 => l = m
      BY <1>1, <3>1, <3>5, <3>7
    <3> QED BY <1>1, <3>3, <3>4, <3>6, <3>8 DEF OwnCells
  <2>2. CASE FiledFor[k] # 0
    <3>1. cells' = cells /\ FiledFor' = FiledFor
      BY <2>2, NewHandleFacts
    <3> QED BY <1>1, <1>2, <1>3, <3>1 DEF HistogramInv, Shape, OwnCells
  <2> QED BY <2>1, <2>2
<1>6. HistogramTypes'
  <2>1. storages' \in Seq([buckets : Seq(Int), data : [Keys -> Nat]]) /\ Len(storages') = registered'
    BY <1>1, <1>2, <1>3, <1>4
  <2>2. [storage |-> 1, cell |-> FiledFor'[k], key |-> k] \in Handle
    BY <1>4 DEF Handle
  <2>3. handle' \in [Threads -> Handle]
    BY <1>1, <1>3, <2>2
  <2> QED BY <1>2, <1>5, <2>1, <2>3 DEF HistogramInv, Shape, HistogramTypes
<1>7. NothingYet' /\ FirstBuckets'
  BY <1>1, <1>2 DEF HistogramInv, Shape, NothingYet, FirstBuckets
<1>8. HandlesFiledToo'
  <2>1. ASSUME NEW h, IsFiled(h) PROVE IsFiled(h)'
    BY <1>1, <1>2, <1>4, <2>1 DEF IsFiled
  <2> SUFFICES ASSUME NEW u \in Threads
               PROVE  /\ handle'[u].storage = 1 => registered' = 1
                      /\ IsFiled(handle[u])'
                      /\ timer'[u] # None => timer'[u].histogram.cell # 0 /\ IsFiled(timer[u].histogram)'
    BY DEF HandlesFiledToo
  <2>2. IsFiled(handle[u])'
    <3>1. CASE u = t
      BY <1>1, <1>2, <1>3, <3>1 DEF IsFiled
    <3>2. CASE u # t
      <4>1. PICK h : h = handle[u]
        OBVIOUS
      <4>2. handle'[u] = h /\ IsFiled(h)
        BY <1>1, <1>3, <3>2, <4>1 DEF HistogramInv, Shape, HandlesFiledToo
      <4>3. IsFiled(h)'
        BY <2>1, <4>2
      <4> QED BY <4>2, <4>3 DEF IsFiled
    <3> QED BY <3>1, <3>2
  <2>3. timer'[u] # None => timer'[u].histogram.cell # 0 /\ IsFiled(timer[u].histogram)'
    <3>1. PICK h : h = timer[u].histogram
      OBVIOUS
    <3>2. timer[u] # None => h.cell # 0 /\ IsFiled(h)
      BY <3>1 DEF HistogramInv, Shape, HandlesFiledToo
    <3>3. timer'[u] # None => h.cell # 0 /\ IsFiled(h)'
      BY <1>2, <2>1, <3>2
    <3>4. timer'[u].histogram = h
      BY <1>2, <3>1
    <3> QED BY <3>3, <3>4 DEF IsFiled
  <2> QED BY <1>1, <1>2, <2>2, <2>3
<1> QED BY <1>5, <1>6, <1>7, <1>8 DEF Shape

(* New atomics are for labels of which nothing has been observed.          *)
LEMMA NewHandleKeeps ==
    ASSUME HistogramInv, NEW t \in Threads, NEW k \in Keys, NewHandle(t, k)
    PROVE  HistogramInv'
<1>1. Shape'
  BY NewHandleShape
<1>2. TimersCount'
  BY DEF HistogramInv, TimersCount, Pending, ByTimer, NewHandle
<1>3. /\ registered = 1 /\ registered' = 1 /\ buckets' = buckets
      /\ UNCHANGED <<timer, flying, reading, asked, observed, timers>>
      /\ FiledFor \in [Keys -> Nat] /\ Len(cells) \in Nat
  BY NewHandleFacts DEF NewHandle
<1>4. PICK part \in [DOMAIN observed -> 1..Len(buckets) + 1] : Accounts(part)
  BY <1>3 DEF HistogramInv, AllAccounted
<1>5. HistogramTypes
  BY DEF HistogramInv, Shape
<1>6. Accounts(part)'
  <2>1. CASE FiledFor[k] = 0
    <3>1. /\ cells' = Append(cells, Atomics(buckets)) /\ FiledFor' = [FiledFor EXCEPT ![k] = Len(cells) + 1]
          /\ cells \in Seq(Atomic)
      BY <1>5, <2>1, NewHandleFacts DEF HistogramTypes
    <3>2. /\ \A l \in Keys : FiledFor[l] # 0 => FiledFor'[l] = FiledFor[l] /\ cells'[FiledFor[l]] = cells[FiledFor[l]]
          /\ cells'[FiledFor'[k]] = Atomics(buckets)
      <4>1. \A l \in Keys : FiledFor[l] \in 0..Len(cells)
        BY <1>3 DEF HistogramInv, Shape, OwnCells
      <4>2. \A c \in 1..Len(cells) : cells'[c] = cells[c]
        BY <3>1
      <4>3. cells'[Len(cells) + 1] = Atomics(buckets)
        BY <1>3, <3>1
      <4> QED BY <1>3, <2>1, <3>1, <4>1, <4>2, <4>3
    <3>3. \A n \in DOMAIN observed : observed[n].key \in Keys /\ FiledFor[observed[n].key] # 0
      BY <1>4, <1>5, ObservedSets DEF Accounts, PartsAreRight
    <3>4. \A n \in DOMAIN observed : FiledFor'[observed[n].key] = FiledFor[observed[n].key]
      BY <3>2, <3>3
    <3>5. PartsAreRight(part)' /\ FlyingIsRight(part)'
      BY <1>3, <1>4, <3>3, <3>4 DEF Accounts, PartsAreRight, FlyingIsRight, Addition
    <3>6. \A l, p : Of(l)' = Of(l) /\ Landed(l, p)' = Landed(l, p) /\ Settled(l)' = Settled(l)
      BY <1>3 DEF Of, Landed, Settled
    <3>7. ASSUME NEW l \in Keys, FiledFor'[l] # 0
          PROVE  CellAccounts(part, l)'
      <4>1. CASE FiledFor[l] # 0
        <5>1. FiledFor'[l] = FiledFor[l] /\ cells'[FiledFor[l]] = cells[FiledFor[l]] /\ CellAccounts(part, l)
          BY <1>4, <3>2, <4>1 DEF Accounts
        <5> QED BY <1>3, <3>6, <5>1 DEF CellAccounts
      <4>2. CASE FiledFor[l] = 0
        <5>1. l = k
          BY <1>3, <3>1, <3>7, <4>2
        <5>2. cells'[FiledFor'[l]] = Atomics(buckets)
          BY <3>2, <5>1
        <5>3. \A p : Landed(l, p)' = {}
          BY <1>3, <3>3, <4>2 DEF Landed, Of
        <5>4. \A i : In(part, {}, i) = {}
          BY DEF In
        <5>5. /\ Atomics(buckets).count = 0 /\ Atomics(buckets).sum = 0
              /\ \A i \in DOMAIN Atomics(buckets).counts : Atomics(buckets).counts[i] = 0
          BY DEF Atomics
        <5>6. Cardinality({}) = 0 /\ SumOf(observed', {}) = 0
          BY FS_EmptySet, SumOfNone
        <5>7. cells'[FiledFor'[l]].count = Cardinality(Landed(l, "count")')
          BY <5>2, <5>3, <5>5, <5>6
        <5>8. cells'[FiledFor'[l]].sum = SumOf(observed', Landed(l, "sum")')
          BY <5>2, <5>3, <5>5, <5>6
        <5>9. \A i \in DOMAIN cells'[FiledFor'[l]].counts :
                cells'[FiledFor'[l]].counts[i] = Cardinality(In(part, Landed(l, "bucket")', i))
          BY <5>2, <5>3, <5>4, <5>5, <5>6
        <5> QED BY <5>7, <5>8, <5>9 DEF CellAccounts, In
      <4> QED BY <4>1, <4>2
    <3>8. ASSUME NEW r \in Readers
          PROVE  ReaderAccounts(part, r)'
      <4>1. reading[r] # Idle => FiledFor'[reading[r].key] = FiledFor[reading[r].key]
        BY <1>4, <3>2 DEF Accounts, ReaderAccounts, Snapshot
      <4> QED BY ZenonT(30), <1>3, <1>4, <3>6, <4>1 DEF Accounts, ReaderAccounts, Snapshot
    <3> QED BY <3>5, <3>7, <3>8 DEF Accounts
  <2>2. CASE FiledFor[k] # 0
    <3>1. cells' = cells /\ FiledFor' = FiledFor
      BY <2>2, NewHandleFacts
    <3>2. \A l, p : Of(l)' = Of(l) /\ Landed(l, p)' = Landed(l, p) /\ Settled(l)' = Settled(l)
      BY <1>3 DEF Of, Landed, Settled
    <3>3. PartsAreRight(part)' /\ FlyingIsRight(part)'
      BY <1>3, <1>4, <3>1 DEF Accounts, PartsAreRight, FlyingIsRight, Addition
    <3>4. \A l \in Keys : FiledFor'[l] # 0 => CellAccounts(part, l)'
      BY <1>3, <1>4, <3>1, <3>2 DEF Accounts, CellAccounts
    <3>5. \A r \in Readers : ReaderAccounts(part, r)'
      BY ZenonT(30), <1>3, <1>4, <3>1, <3>2 DEF Accounts, ReaderAccounts, Snapshot
    <3> QED BY <3>3, <3>4, <3>5 DEF Accounts
  <2> QED BY <2>1, <2>2
<1>7. AllAccounted'
  BY <1>3, <1>4, <1>6 DEF AllAccounted
<1> QED BY <1>1, <1>2, <1>7 DEF HistogramInv

-----------------------------------------------------------------------------
(* Observations.                                                           *)
LEMMA ObserveFacts ==
    ASSUME HistogramInv, NEW h, h.cell # 0, IsFiled(h), NEW v \in Values,
           NEW by \in {"caller", "timer"}, Observe(h, v, by)
    PROVE  /\ registered = 1 /\ h.key \in Keys /\ h.cell = FiledFor[h.key]
           /\ ~IsFinite(v) => observed' = observed /\ flying' = flying
           /\ IsFinite(v) =>
                /\ v \in Int
                /\ \E i \in BucketIndex(buckets, v) :
                     /\ observed' = Append(observed, [key |-> h.key, value |-> v, by |-> by])
                     /\ flying' = flying \cup
                          {[obs |-> Len(observed) + 1, part |-> p, cell |-> h.cell, bucket |-> i] : p \in Part}
<1>1. registered = 1 /\ h.storage = 1 /\ h.key \in Keys /\ h.cell = FiledFor[h.key]
  BY DEF IsFiled
<1>2. IsFinite(v) => v \in Int
  BY ValuesAssumption DEF IsFinite
<1>3. CASE IsFinite(v)
  <2>1. PICK i \in BucketIndex(buckets, v) :
           /\ observed' = Append(observed, [key |-> h.key, value |-> v, by |-> by])
           /\ flying' = flying \cup
                {[obs |-> Len(observed'), part |-> p, cell |-> h.cell, bucket |-> i] : p \in Part}
    BY <1>1, <1>3 DEF Observe, buckets
  <2>2. Len(observed') = Len(observed) + 1
    BY <1>1, <1>2, <1>3, <2>1 DEF HistogramInv, Shape, HistogramTypes
  <2> QED BY <1>1, <1>2, <1>3, <2>1, <2>2
<1>4. CASE ~IsFinite(v)
  BY <1>1, <1>4 DEF Observe
<1> QED BY <1>3, <1>4

LEMMA ObserveAccounts ==
    ASSUME HistogramInv, NEW h, h.cell # 0, IsFiled(h), NEW v \in Values,
           NEW by \in {"caller", "timer"}, Observe(h, v, by),
           UNCHANGED <<registered, storages, cells, reading>>
    PROVE  AllAccounted'
<1>1. /\ registered = 1 /\ h.key \in Keys /\ h.cell = FiledFor[h.key]
      /\ ~IsFinite(v) => observed' = observed /\ flying' = flying
  BY ObserveFacts
<1>2. CASE ~IsFinite(v)
  BY <1>1, <1>2, SameAccounts DEF HistogramInv
<1>3. CASE IsFinite(v)
  <2>1. PICK part \in [DOMAIN observed -> 1..Len(buckets) + 1] : Accounts(part)
    BY <1>1 DEF HistogramInv, AllAccounted
  <2> PICK m : m = Len(observed) + 1
    OBVIOUS
  <2>2. PICK i \in BucketIndex(buckets, v) :
          /\ observed' = Append(observed, [key |-> h.key, value |-> v, by |-> by])
          /\ flying' = flying \cup
               {[obs |-> m, part |-> p, cell |-> h.cell, bucket |-> i] : p \in Part}
    <3>1. PICK j \in BucketIndex(buckets, v) :
            /\ observed' = Append(observed, [key |-> h.key, value |-> v, by |-> by])
            /\ flying' = flying \cup
                 {[obs |-> Len(observed) + 1, part |-> p, cell |-> h.cell, bucket |-> j] : p \in Part}
      BY ZenonT(30), <1>3, ObserveFacts
    <3>2. flying' = flying \cup
            {[obs |-> m, part |-> p, cell |-> h.cell, bucket |-> j] : p \in Part}
      BY <3>1
    <3> QED BY Zenon, <3>1, <3>2
  <2>3. /\ HistogramTypes /\ buckets \in Seq(Int) /\ Len(buckets) \in Nat /\ v \in Int
        /\ buckets' = buckets /\ FiledFor' = FiledFor
    BY <1>1, <1>3, ObserveFacts, ShapeFacts DEF HistogramInv, Shape, buckets, FiledFor
  <2>4. i \in 1..Len(buckets) + 1 /\ (Increasing(buckets) => InBucket(buckets, i, v))
    BY <2>3, BucketIndexIsRight
  <2>5. /\ Len(observed) \in Nat /\ DOMAIN observed = 1..Len(observed)
        /\ \A n \in DOMAIN observed : observed[n].key \in Keys /\ observed[n].value \in Int
    BY <2>3, ObservedSets
  <2>6. /\ DOMAIN observed' = DOMAIN observed \cup {m} /\ m \notin DOMAIN observed
        /\ \A n \in DOMAIN observed : observed'[n] = observed[n]
        /\ observed'[m].key = h.key /\ observed'[m].value = v
    BY <2>2, <2>3, <2>5 DEF HistogramTypes
  <2>7. PICK next : next = [n \in DOMAIN observed \cup {m} |-> IF n = m THEN i ELSE part[n]]
    OBVIOUS
  <2>8. /\ next \in [DOMAIN observed' -> 1..Len(buckets)' + 1] /\ next[m] = i
        /\ \A n \in DOMAIN observed : next[n] = part[n]
    BY <2>1, <2>3, <2>4, <2>6, <2>7
  <2>9. PartsAreRight(next)'
    <3> SUFFICES ASSUME NEW n \in DOMAIN observed'
                 PROVE  /\ Increasing(buckets) => InBucket(buckets, next[n], observed'[n].value)
                        /\ FiledFor[observed'[n].key] # 0
      BY <2>3, <2>8 DEF PartsAreRight
    <3>1. CASE n = m
      BY <1>1, <2>4, <2>6, <2>8, <3>1
    <3>2. CASE n # m
      <4>1. n \in DOMAIN observed
        BY <2>6, <3>2
      <4> QED BY <2>1, <2>6, <2>8, <4>1 DEF Accounts, PartsAreRight
    <3> QED BY <3>1, <3>2
  <2>10. FlyingIsRight(next)'
    <3> SUFFICES ASSUME NEW f \in flying'
                 PROVE  \E n \in DOMAIN observed', p \in Part : f = Addition(next, n, p)'
      BY DEF FlyingIsRight
    <3>1. CASE f \in flying
      <4>1. PICK n \in DOMAIN observed, p \in Part : f = Addition(part, n, p)
        BY <2>1, <3>1 DEF Accounts, FlyingIsRight
      <4>2. f = Addition(next, n, p)' /\ n \in DOMAIN observed'
        BY <2>3, <2>6, <2>8, <4>1 DEF Addition
      <4> QED BY <4>2
    <3>2. CASE f \notin flying
      <4>1. PICK p \in Part : f = [obs |-> m, part |-> p, cell |-> h.cell, bucket |-> i]
        BY <2>2, <3>2
      <4>2. f = Addition(next, m, p)' /\ m \in DOMAIN observed'
        BY <1>1, <2>3, <2>6, <2>8, <4>1 DEF Addition
      <4> QED BY <4>2
    <3> QED BY <3>1, <3>2
  <2>11. /\ \A f \in flying' : f \in flying \/ f.obs = m
         /\ \A f \in flying : f.obs # m
         /\ \A p \in Part : \E f \in flying' : f.obs = m /\ f.part = p
    <3>1. \A f \in flying' : f \in flying \/ f.obs = m
      BY <2>2
    <3>2. \A f \in flying : f.obs \in DOMAIN observed
      BY <2>1 DEF Accounts, FlyingIsRight, Addition
    <3>3. ASSUME NEW p \in Part PROVE \E f \in flying' : f.obs = m /\ f.part = p
      <4> DEFINE f == [obs |-> m, part |-> p, cell |-> h.cell, bucket |-> i]
      <4>1. f \in flying' /\ f.obs = m /\ f.part = p
        BY <2>2
      <4> QED BY <4>1
    <3> QED BY <2>6, <3>1, <3>2, <3>3
  <2>12. ASSUME NEW k
         PROVE  /\ \A p \in Part : Landed(k, p)' = Landed(k, p)
                /\ Settled(k)' = Settled(k) /\ Of(k) \subseteq Of(k)'
    <3>1. Of(k) \subseteq Of(k)' /\ Of(k)' \subseteq Of(k) \cup {m} /\ m \notin Of(k)
      BY <2>6 DEF Of
    <3>2. flying \subseteq flying'
      BY <2>2
    <3>3. ASSUME NEW p \in Part PROVE Landed(k, p)' = Landed(k, p)
      BY <2>11, <3>1, <3>2 DEF Landed
    <3>4. Settled(k)' = Settled(k)
      <4>1. \E f \in flying' : f.obs = m
        BY <2>11 DEF Part
      <4> QED BY <2>11, <3>1, <3>2, <4>1 DEF Settled
    <3> QED BY <3>1, <3>3, <3>4
  <2>13. \A S \in SUBSET DOMAIN observed : \A j : In(next, S, j) = In(part, S, j)
    BY <2>8 DEF In
  <2>14. ASSUME NEW S \in SUBSET DOMAIN observed
         PROVE  SumOf(observed', S) = SumOf(observed, S)
    <3>1. IsFiniteSet(S)
      BY <2>3, ObservedSets, Subsets
    <3> QED BY <2>5, <2>6, <3>1, SumOfSame
  <2>15. ASSUME NEW k \in Keys, FiledFor'[k] # 0
         PROVE  CellAccounts(next, k)'
    <3>1. CellAccounts(part, k)
      BY <2>1, <2>3, <2>15 DEF Accounts
    <3>2. \A p \in Part : Landed(k, p) \in SUBSET DOMAIN observed
      BY DEF Landed, Of
    <3> QED BY <2>3, <2>12, <2>13, <2>14, <3>1, <3>2 DEF CellAccounts, Part
  <2>16. ASSUME NEW r \in Readers
         PROVE  ReaderAccounts(next, r)'
    <3> SUFFICES ASSUME reading[r] # Idle PROVE ReaderAccounts(next, r)'
      BY DEF ReaderAccounts
    <3>1. PICK rd : rd = reading[r]
      OBVIOUS
    <3>2. /\ rd \in Snapshot
          /\ rd.cell = FiledFor[rd.key] /\ rd.cell # 0 /\ Len(rd.counts) = Len(buckets) + 1
          /\ rd.settled \subseteq Settled(rd.key)
          /\ rd.count # None => rd.count \in Cardinality(rd.settled)..Cardinality(Of(rd.key))
          /\ \A j \in DOMAIN rd.counts : rd.counts[j] # None =>
               rd.counts[j] \in Cardinality(In(part, rd.settled, j))..Cardinality(In(part, Of(rd.key), j))
          /\ rd.sum # None =>
               \E T \in SUBSET Of(rd.key) : rd.settled \subseteq T /\ rd.sum = SumOf(observed, T)
      BY <2>1, <3>1 DEF Accounts, ReaderAccounts
    <3>3. /\ Of(rd.key) \in SUBSET DOMAIN observed /\ rd.settled \in SUBSET DOMAIN observed
          /\ Of(rd.key)' \in SUBSET DOMAIN observed'
      BY <3>2 DEF Of, Settled
    <3>4. IsFiniteSet(DOMAIN observed')
      <4>1. IsFiniteSet(DOMAIN observed)
        BY <2>3, ObservedSets
      <4>2. IsFiniteSet(DOMAIN observed \cup {m})
        BY <4>1, FS_AddElement
      <4> QED BY <2>6, <4>2
    <3>5. Cardinality(rd.settled) \in Nat /\ Cardinality(Of(rd.key)) \in Nat
          /\ Cardinality(Of(rd.key)') \in Nat /\ Cardinality(Of(rd.key)) <= Cardinality(Of(rd.key)')
      BY <2>3, <2>12, <3>3, <3>4, ObservedSets, Subsets
    <3>6. ASSUME NEW j
          PROVE  /\ In(next, rd.settled, j) = In(part, rd.settled, j)
                 /\ Cardinality(In(part, Of(rd.key), j)) \in Nat
                 /\ Cardinality(In(part, rd.settled, j)) \in Nat
                 /\ Cardinality(In(next, Of(rd.key)', j)) \in Nat
                 /\ Cardinality(In(part, Of(rd.key), j)) <= Cardinality(In(next, Of(rd.key)', j))
      <4>1. /\ In(next, rd.settled, j) = In(part, rd.settled, j)
            /\ In(next, Of(rd.key), j) = In(part, Of(rd.key), j)
        BY <2>13, <3>3
      <4>2. In(next, Of(rd.key), j) \subseteq In(next, Of(rd.key)', j)
        BY <2>12 DEF In
      <4>3. /\ In(next, Of(rd.key)', j) \subseteq DOMAIN observed'
            /\ In(part, rd.settled, j) \subseteq DOMAIN observed
        BY <3>3 DEF In
      <4>4. IsFiniteSet(In(next, Of(rd.key)', j))
        BY <3>4, <4>3, Subsets
      <4>5. Cardinality(In(part, rd.settled, j)) \in Nat
        BY <2>3, <4>3, ObservedSets, Subsets
      <4> QED BY <4>1, <4>2, <4>4, <4>5, Subsets
    <3>7. rd.settled \subseteq Settled(rd.key)'
      BY <2>12, <3>2
    <3>8. rd.count # None => rd.count \in Cardinality(rd.settled)..Cardinality(Of(rd.key)')
      BY <3>2, <3>5
    <3>9. ASSUME NEW j \in DOMAIN rd.counts, rd.counts[j] # None
          PROVE  rd.counts[j] \in Cardinality(In(next, rd.settled, j))..Cardinality(In(next, Of(rd.key)', j))
      BY <3>2, <3>6, <3>9
    <3>10. rd.sum # None =>
             \E T \in SUBSET Of(rd.key)' : rd.settled \subseteq T /\ rd.sum = SumOf(observed', T)
      <4> SUFFICES ASSUME rd.sum # None
                   PROVE  \E T \in SUBSET Of(rd.key)' : rd.settled \subseteq T /\ rd.sum = SumOf(observed', T)
        OBVIOUS
      <4>1. PICK T \in SUBSET Of(rd.key) : rd.settled \subseteq T /\ rd.sum = SumOf(observed, T)
        BY <3>2
      <4>2. T \in SUBSET Of(rd.key)' /\ T \in SUBSET DOMAIN observed
        BY <2>12, <3>3
      <4>3. SumOf(observed', T) = SumOf(observed, T)
        BY <2>14, <4>2
      <4> QED BY <4>1, <4>2, <4>3
    <3>11. reading'[r] = rd
      BY <3>1
    <3> QED BY <2>3, <3>2, <3>7, <3>8, <3>9, <3>10, <3>11 DEF ReaderAccounts, Snapshot, In
  <2>17. Accounts(next)'
    BY <2>9, <2>10, <2>15, <2>16 DEF Accounts
  <2> QED BY <2>8, <2>17 DEF AllAccounted
<1> QED BY <1>2, <1>3

LEMMA ObserveShape ==
    ASSUME HistogramInv, NEW h, h.cell # 0, IsFiled(h), NEW v \in Values,
           NEW by \in {"caller", "timer"}, Observe(h, v, by)
    PROVE  /\ observed' \in Seq(Recorded)
           /\ registered = 1
           /\ \/ observed' = observed
              \/ /\ Len(observed') = Len(observed) + 1 /\ Len(observed) \in Nat
                 /\ observed' = Append(observed, observed'[Len(observed) + 1])
                 /\ observed'[Len(observed) + 1].by = by
           /\ IsFinite(v) => observed' # observed
<1>1. /\ registered = 1 /\ h.key \in Keys
      /\ ~IsFinite(v) => observed' = observed /\ flying' = flying
      /\ IsFinite(v) => v \in Int
  BY ObserveFacts
<1>2. observed \in Seq(Recorded)
  BY DEF HistogramInv, Shape, HistogramTypes
<1>3. CASE IsFinite(v)
  <2>1. PICK rec : rec = [key |-> h.key, value |-> v, by |-> by]
    OBVIOUS
  <2>2. observed' = Append(observed, rec)
    BY <1>3, <2>1, ObserveFacts
  <2>3. rec \in Recorded /\ rec.by = by
    BY <1>1, <1>3, <2>1 DEF Recorded
  <2>4. /\ observed' \in Seq(Recorded) /\ Len(observed') = Len(observed) + 1 /\ Len(observed) \in Nat
        /\ observed'[Len(observed) + 1] = rec
    BY <1>2, <2>2, <2>3
  <2>5. observed' # observed
    BY <2>4
  <2> QED BY <1>1, <2>2, <2>3, <2>4, <2>5
<1>4. CASE ~IsFinite(v)
  BY <1>1, <1>2, <1>4
<1> QED BY <1>3, <1>4

(* What an observation leaves of the shape, whatever it does to the timers.*)
LEMMA ShapeOfMore ==
    ASSUME HistogramInv, registered = 1, observed' \in Seq(Recorded), timers' \in Nat,
           timer' \in [Threads -> Timer \cup {None}],
           UNCHANGED <<registered, storages, cells, handle, reading, asked>>,
           \A t \in Threads :
             timer'[t] # None => timer'[t].histogram.cell # 0 /\ IsFiled(timer'[t].histogram)
    PROVE  Shape'
<1>1. buckets' = buckets /\ FiledFor' = FiledFor
  BY DEF buckets, FiledFor
<1>2. HistogramTypes'
  BY DEF HistogramInv, Shape, HistogramTypes
<1>3. NothingYet' /\ FirstBuckets' /\ OwnCells'
  BY <1>1 DEF HistogramInv, Shape, NothingYet, FirstBuckets, OwnCells
<1>4. HandlesFiledToo'
  BY <1>1 DEF HistogramInv, Shape, HandlesFiledToo, IsFiled
<1> QED BY <1>2, <1>3, <1>4 DEF Shape

LEMMA FiledHandles ==
    ASSUME HistogramInv, NEW t \in Threads
    PROVE  /\ IsFiled(handle[t]) /\ handle[t] \in Handle
           /\ timer[t] # None =>
                timer[t] \in Timer /\ timer[t].histogram.cell # 0 /\ IsFiled(timer[t].histogram)
BY DEF HistogramInv, Shape, HistogramTypes, HandlesFiledToo

LEMMA ByTimerIs ==
    ASSUME HistogramTypes, NEW e, observed' = Append(observed, e)
    PROVE  IF e.by = "timer" THEN Cardinality(ByTimer') = Cardinality(ByTimer) + 1 ELSE ByTimer' = ByTimer
<1>1. Len(observed) \in Nat /\ DOMAIN observed = 1..Len(observed) /\ IsFiniteSet(DOMAIN observed)
  BY ObservedSets
<1>2. /\ DOMAIN observed' = DOMAIN observed \cup {Len(observed) + 1} /\ Len(observed) + 1 \notin DOMAIN observed
      /\ \A n \in DOMAIN observed : observed'[n] = observed[n]
      /\ observed'[Len(observed) + 1] = e
  BY <1>1 DEF HistogramTypes
<1>3. CASE e.by = "timer"
  <2>1. ByTimer' = ByTimer \cup {Len(observed) + 1} /\ Len(observed) + 1 \notin ByTimer
    BY <1>2, <1>3 DEF ByTimer
  <2>2. ByTimer \subseteq DOMAIN observed
    BY DEF ByTimer
  <2>3. IsFiniteSet(ByTimer)
    BY <1>1, <2>2, FS_Subset
  <2> QED BY <1>3, <2>1, <2>3, OneMore
<1>4. CASE e.by # "timer"
  <2>1. ByTimer' = ByTimer
    BY <1>2, <1>4 DEF ByTimer
  <2> QED BY <1>4, <2>1
<1> QED BY <1>3, <1>4

LEMMA ObserveValueKeeps ==
    ASSUME HistogramInv, NEW t \in Threads, NEW v \in Values, ObserveValue(t, v)
    PROVE  HistogramInv'
<1>1. PICK h : h = handle[t]
  OBVIOUS
<1>2. h.cell # 0 /\ IsFiled(h) /\ Observe(h, v, "caller")
  BY <1>1, FiledHandles DEF ObserveValue
<1>3. UNCHANGED <<registered, storages, cells, handle, timer, reading, asked, timers>>
  BY DEF ObserveValue
<1>4. AllAccounted'
  BY <1>2, <1>3, ObserveAccounts
<1>5. /\ observed' \in Seq(Recorded) /\ registered = 1
      /\ \/ observed' = observed
         \/ /\ observed' = Append(observed, observed'[Len(observed) + 1])
            /\ observed'[Len(observed) + 1].by = "caller"
  BY <1>2, ObserveShape
<1>6. Shape'
  <2>1. \A u \in Threads : timer'[u] # None => timer'[u].histogram.cell # 0 /\ IsFiled(timer'[u].histogram)
    BY <1>3, FiledHandles
  <2>2. timer' \in [Threads -> Timer \cup {None}] /\ timers' \in Nat
    BY <1>3 DEF HistogramInv, Shape, HistogramTypes
  <2> QED BY <1>3, <1>5, <2>1, <2>2, ShapeOfMore
<1>7. TimersCount'
  <2>1. Pending' = Pending
    BY <1>3 DEF Pending
  <2>2. ByTimer' = ByTimer
    <3>1. CASE observed' = observed
      BY <3>1 DEF ByTimer
    <3>2. CASE observed' # observed
      <4>1. PICK e : e = observed'[Len(observed) + 1]
        OBVIOUS
      <4>2. observed' = Append(observed, e) /\ e.by = "caller"
        BY <1>5, <3>2, <4>1
      <4> QED BY <4>2, ByTimerIs DEF HistogramInv, Shape
    <3> QED BY <3>1, <3>2
  <2> QED BY <1>3, <2>1, <2>2 DEF HistogramInv, TimersCount
<1> QED BY <1>4, <1>6, <1>7 DEF HistogramInv

LEMMA StartTimerKeeps ==
    ASSUME HistogramInv, NEW t \in Threads, StartTimer(t)
    PROVE  HistogramInv'
<1>1. PICK e : e = [histogram |-> handle[t], observed |-> FALSE]
  OBVIOUS
<1>2. /\ handle[t].cell # 0 /\ timer[t] = None /\ timer' = [timer EXCEPT ![t] = e] /\ timers' = timers + 1
      /\ UNCHANGED <<registered, storages, cells, handle, flying, reading, asked, observed>>
  BY <1>1 DEF StartTimer
<1>3. timer \in [Threads -> Timer \cup {None}] /\ timers \in Nat
  BY DEF HistogramInv, Shape, HistogramTypes
<1>4. e \in Timer /\ e # None /\ e.histogram.cell # 0 /\ IsFiled(e.histogram) /\ e.observed = FALSE
  <2>1. handle[t] \in Handle /\ IsFiled(handle[t])
    BY FiledHandles
  <2>2. e \in Timer /\ e.histogram = handle[t] /\ e.observed = FALSE
    BY <1>1, <2>1 DEF Timer
  <2>3. e # None
    BY <2>2, NoneAssumption DEF Timer, Handle
  <2> QED BY <1>2, <2>1, <2>2, <2>3
<1>5. Shape'
  <2>1. timer' \in [Threads -> Timer \cup {None}] /\ timers' \in Nat
    BY <1>2, <1>3, <1>4
  <2>2. ASSUME NEW u \in Threads
        PROVE  timer'[u] # None => timer'[u].histogram.cell # 0 /\ IsFiled(timer'[u].histogram)
    <3>1. CASE u = t
      BY <1>2, <1>3, <1>4, <3>1
    <3>2. CASE u # t
      <4>1. timer'[u] = timer[u]
        BY <1>2, <1>3, <3>2
      <4> QED BY <4>1, FiledHandles
    <3> QED BY <3>1, <3>2
  <2>3. registered = 1 /\ observed' \in Seq(Recorded)
    BY <1>2, FiledHandles DEF IsFiled, HistogramInv, Shape, HistogramTypes
  <2> QED BY <1>2, <2>1, <2>2, <2>3, ShapeOfMore
<1>6. TimersCount'
  <2>1. Pending' = Pending \cup {t} /\ t \notin Pending
    BY <1>2, <1>3, <1>4 DEF Pending
  <2>2. ByTimer' = ByTimer
    BY <1>2 DEF ByTimer
  <2>3. IsFiniteSet(Pending) /\ timers = Cardinality(Pending) + Cardinality(ByTimer)
    BY DEF HistogramInv, TimersCount
  <2>4. IsFiniteSet(Pending') /\ Cardinality(Pending') = Cardinality(Pending) + 1
    BY <2>1, <2>3, OneMore
  <2>5. Cardinality(Pending) \in Nat /\ Cardinality(ByTimer) \in Nat
    <3>1. ByTimer \subseteq DOMAIN observed
      BY DEF ByTimer
    <3>2. IsFiniteSet(DOMAIN observed)
      BY ObservedSets DEF HistogramInv, Shape
    <3> QED BY <2>3, <3>1, <3>2, Subsets, FS_CardinalityType
  <2>6. timers' = Cardinality(Pending') + Cardinality(ByTimer')
    BY <1>2, <2>2, <2>3, <2>4, <2>5
  <2> QED BY <2>4, <2>6 DEF TimersCount
<1>7. AllAccounted'
  BY <1>2, SameAccounts DEF HistogramInv
<1> QED BY <1>5, <1>6, <1>7 DEF HistogramInv

(* A timer that is given up, or done: if it had not observed, it does now. *)
LEMMA DoObserveKeeps ==
    ASSUME HistogramInv, NEW t \in Threads, timer[t] # None, DoObserve(t),
           NEW e \in Timer \cup {None}, timer' = [timer EXCEPT ![t] = e],
           e # None => e.observed = TRUE /\ e.histogram = timer[t].histogram,
           UNCHANGED <<registered, storages, cells, handle, reading, asked, timers>>
    PROVE  HistogramInv'
<1>1. PICK h : h = timer[t].histogram
  OBVIOUS
<1>2. h.cell # 0 /\ IsFiled(h) /\ timer[t] \in Timer
  BY <1>1, FiledHandles
<1>3. timer \in [Threads -> Timer \cup {None}] /\ timers \in Nat /\ observed \in Seq(Recorded)
  BY DEF HistogramInv, Shape, HistogramTypes
<1>4. /\ timer[t].observed => UNCHANGED <<flying, observed>>
      /\ ~timer[t].observed => \E v \in Values : IsFinite(v) /\ Observe(h, v, "timer")
  BY <1>1 DEF DoObserve
<1>5. AllAccounted' /\ observed' \in Seq(Recorded)
  <2>1. CASE timer[t].observed
    BY <1>3, <1>4, <2>1, SameAccounts DEF HistogramInv
  <2>2. CASE ~timer[t].observed
    <3>1. PICK v \in Values : Observe(h, v, "timer")
      BY <1>4, <2>2
    <3>2. AllAccounted'
      BY <1>2, <3>1, ObserveAccounts
    <3>3. observed' \in Seq(Recorded)
      BY <1>2, <3>1, ObserveShape
    <3> QED BY <3>2, <3>3
  <2> QED BY <2>1, <2>2
<1>6. Shape'
  <2>1. timer' \in [Threads -> Timer \cup {None}] /\ timers' \in Nat
    BY <1>3
  <2>2. ASSUME NEW u \in Threads
        PROVE  timer'[u] # None => timer'[u].histogram.cell # 0 /\ IsFiled(timer'[u].histogram)
    <3>1. CASE u = t
      <4>1. timer'[u] = e
        BY <1>3, <3>1
      <4>2. CASE e = None
        BY <4>1, <4>2
      <4>3. CASE e # None
        <5>1. timer'[u].histogram = h
          BY <1>1, <4>1, <4>3
        <5> QED BY <1>2, <5>1
      <4> QED BY <4>2, <4>3
    <3>2. CASE u # t
      <4>1. timer'[u] = timer[u]
        BY <1>3, <3>2
      <4> QED BY <4>1, FiledHandles
    <3> QED BY <3>1, <3>2
  <2>3. registered = 1
    BY <1>2 DEF IsFiled
  <2> QED BY <1>5, <2>1, <2>2, <2>3, ShapeOfMore
<1>7. TimersCount'
  <2>1. IsFiniteSet(Pending) /\ timers = Cardinality(Pending) + Cardinality(ByTimer)
    BY DEF HistogramInv, TimersCount
  <2>2. Pending' = Pending \ {t}
    BY <1>3 DEF Pending
  <2>3. CASE timer[t].observed
    <3>1. Pending' = Pending
      BY <2>2, <2>3 DEF Pending
    <3>2. ByTimer' = ByTimer
      BY <1>4, <2>3 DEF ByTimer
    <3> QED BY <2>1, <3>1, <3>2 DEF TimersCount
  <2>4. CASE ~timer[t].observed
    <3>1. t \in Pending
      BY <2>4 DEF Pending
    <3>2. IsFiniteSet(Pending') /\ Cardinality(Pending') = Cardinality(Pending) - 1
      BY <2>1, <2>2, <3>1, FS_RemoveElement
    <3>3. PICK v \in Values : IsFinite(v) /\ Observe(h, v, "timer")
      BY <1>4, <2>4
    <3>4. PICK o : o = observed'[Len(observed) + 1]
      OBVIOUS
    <3>5. observed' = Append(observed, o) /\ o.by = "timer"
      BY <1>2, <3>3, <3>4, ObserveShape
    <3>6. Cardinality(ByTimer') = Cardinality(ByTimer) + 1
      BY <3>5, ByTimerIs DEF HistogramInv, Shape
    <3>7. Cardinality(Pending) \in Nat /\ Cardinality(ByTimer) \in Nat
      <4>1. ByTimer \subseteq DOMAIN observed
        BY DEF ByTimer
      <4>2. IsFiniteSet(DOMAIN observed)
        BY ObservedSets DEF HistogramInv, Shape
      <4> QED BY <2>1, <4>1, <4>2, Subsets, FS_CardinalityType
    <3>8. timers' = Cardinality(Pending') + Cardinality(ByTimer')
      BY <2>1, <3>2, <3>6, <3>7
    <3> QED BY <3>2, <3>8 DEF TimersCount
  <2> QED BY <2>3, <2>4
<1> QED BY <1>5, <1>6, <1>7 DEF HistogramInv

LEMMA ObserveDurationKeeps ==
    ASSUME HistogramInv, NEW t \in Threads, ObserveDuration(t)
    PROVE  HistogramInv'
<1>1. timer[t] \in Timer /\ timer \in [Threads -> Timer \cup {None}]
  BY FiledHandles DEF ObserveDuration, HistogramInv, Shape, HistogramTypes
<1>2. PICK e : e = [timer[t] EXCEPT !.observed = TRUE]
  OBVIOUS
<1>3. e \in Timer /\ e.observed = TRUE /\ e.histogram = timer[t].histogram
  BY <1>1, <1>2 DEF Timer
<1>4. timer' = [timer EXCEPT ![t] = e]
  BY <1>2 DEF ObserveDuration
<1>5. /\ timer[t] # None /\ DoObserve(t)
      /\ UNCHANGED <<registered, storages, cells, handle, reading, asked, timers>>
  BY DEF ObserveDuration
<1> QED BY <1>3, <1>4, <1>5, DoObserveKeeps

LEMMA DropTimerKeeps ==
    ASSUME HistogramInv, NEW t \in Threads, DropTimer(t)
    PROVE  HistogramInv'
<1>1. /\ timer[t] # None /\ DoObserve(t) /\ timer' = [timer EXCEPT ![t] = None]
      /\ UNCHANGED <<registered, storages, cells, handle, reading, asked, timers>>
  BY DEF DropTimer
<1> QED BY <1>1, DoObserveKeeps

-----------------------------------------------------------------------------
(* An addition takes effect.                                               *)
LEMMA LandFacts ==
    ASSUME HistogramInv, NEW f \in flying,
           NEW part \in [DOMAIN observed -> 1..Len(buckets) + 1], registered = 1, Accounts(part)
    PROVE  \E n \in DOMAIN observed, p \in Part :
             /\ f = Addition(part, n, p)
             /\ f.obs = n /\ f.part = p /\ f.cell = FiledFor[observed[n].key] /\ f.bucket = part[n]
             /\ observed[n].key \in Keys /\ observed[n].value \in Int /\ f.cell \in DOMAIN cells
             /\ part[n] \in DOMAIN cells[f.cell].counts
             /\ \A g \in flying : g.obs = n /\ g.part = p => g = f
<1>1. PICK n \in DOMAIN observed, p \in Part : f = Addition(part, n, p)
  BY DEF Accounts, FlyingIsRight
<1>2. f.obs = n /\ f.part = p /\ f.cell = FiledFor[observed[n].key] /\ f.bucket = part[n]
  BY <1>1 DEF Addition
<1>3. observed[n].key \in Keys /\ observed[n].value \in Int
  BY ObservedSets DEF HistogramInv, Shape
<1>4. f.cell # 0 /\ f.cell \in 0..Len(cells) /\ Len(cells) \in Nat /\ cells \in Seq(Atomic)
  BY <1>2, <1>3 DEF Accounts, PartsAreRight, HistogramInv, Shape, OwnCells, HistogramTypes
<1>5. f.cell \in DOMAIN cells
  BY <1>4
<1>6. cells[f.cell] \in Atomic /\ Len(cells[f.cell].counts) = Len(buckets) + 1
  BY <1>4, <1>5 DEF HistogramInv, Shape, OwnCells
<1>7. part[n] \in DOMAIN cells[f.cell].counts
  <2>1. part[n] \in 1..Len(buckets) + 1
    OBVIOUS
  <2>2. DOMAIN cells[f.cell].counts = 1..Len(buckets) + 1
    BY <1>6 DEF Atomic
  <2> QED BY <2>1, <2>2
<1>8. ASSUME NEW g \in flying, g.obs = n, g.part = p PROVE g = f
  <2>1. PICK m \in DOMAIN observed, q \in Part : g = Addition(part, m, q)
    BY DEF Accounts, FlyingIsRight
  <2>2. m = n /\ q = p
    BY <1>8, <2>1 DEF Addition
  <2> QED BY <1>1, <2>1, <2>2
<1> QED BY <1>1, <1>2, <1>3, <1>5, <1>7, <1>8

(* What one addition does to the atomics of an observation with the value  *)
(* v that belongs into bucket i.                                           *)
Added(c, p, i, v) ==
    CASE p = "bucket" -> [c EXCEPT !.counts = [c.counts EXCEPT ![i] = c.counts[i] + 1]]
      [] p = "sum"    -> [c EXCEPT !.sum = c.sum + v]
      [] p = "count"  -> [c EXCEPT !.count = c.count + 1]

LEMMA AddedIs ==
    ASSUME NEW c \in Atomic, NEW p \in Part, NEW i \in DOMAIN c.counts, NEW v \in Int
    PROVE  /\ Added(c, p, i, v) \in Atomic
           /\ DOMAIN Added(c, p, i, v).counts = DOMAIN c.counts
           /\ Len(Added(c, p, i, v).counts) = Len(c.counts)
           /\ \A j \in DOMAIN c.counts :
                Added(c, p, i, v).counts[j] = IF p = "bucket" /\ j = i THEN c.counts[j] + 1 ELSE c.counts[j]
           /\ Added(c, p, i, v).sum = IF p = "sum" THEN c.sum + v ELSE c.sum
           /\ Added(c, p, i, v).count = IF p = "count" THEN c.count + 1 ELSE c.count
<1>1. c.counts \in Seq(Nat) /\ c.sum \in Int /\ c.count \in Nat
      /\ c = [counts |-> c.counts, sum |-> c.sum, count |-> c.count]
  BY DEF Atomic
<1>2. CASE p = "bucket"
  <2> DEFINE s == [c.counts EXCEPT ![i] = c.counts[i] + 1]
  <2>1. /\ s \in Seq(Nat) /\ DOMAIN s = DOMAIN c.counts /\ Len(s) = Len(c.counts)
        /\ \A j \in DOMAIN c.counts : s[j] = IF j = i THEN c.counts[j] + 1 ELSE c.counts[j]
    BY <1>1
  <2>2. Added(c, p, i, v) = [c EXCEPT !.counts = s]
    BY <1>2 DEF Added
  <2> HIDE DEF s
  <2>3. Added(c, p, i, v) = [counts |-> s, sum |-> c.sum, count |-> c.count]
    BY <1>1, <2>2
  <2>4. Added(c, p, i, v) \in Atomic
    BY <1>1, <2>1, <2>3 DEF Atomic
  <2> QED BY <1>2, <2>1, <2>3, <2>4
<1>3. CASE p = "sum"
  <2>1. Added(c, p, i, v) = [counts |-> c.counts, sum |-> c.sum + v, count |-> c.count]
    BY <1>1, <1>3 DEF Added
  <2>2. Added(c, p, i, v) \in Atomic
    BY <1>1, <2>1 DEF Atomic
  <2> QED BY <1>3, <2>1, <2>2
<1>4. CASE p = "count"
  <2>1. Added(c, p, i, v) = [counts |-> c.counts, sum |-> c.sum, count |-> c.count + 1]
    BY <1>1, <1>4 DEF Added
  <2>2. Added(c, p, i, v) \in Atomic
    BY <1>1, <2>1 DEF Atomic
  <2> QED BY <1>4, <2>1, <2>2
<1> QED BY <1>2, <1>3, <1>4 DEF Part

LEMMA LandIs ==
    ASSUME HistogramInv, NEW f \in flying, Land(f),
           NEW n, NEW p \in Part, f.obs = n, f.part = p, f.bucket \in DOMAIN cells[f.cell].counts
    PROVE  /\ flying' = flying \ {f}
           /\ cells' = [cells EXCEPT ![f.cell] = Added(cells[f.cell], p, f.bucket, observed[n].value)]
           /\ UNCHANGED <<registered, storages, handle, timer, reading, asked, observed, timers>>
<1>1. Counter(cells[f.cell], f.bucket) = f.bucket
  BY DEF Counter
<1>2. CASE p = "bucket"
  BY <1>1, <1>2 DEF Land, Added
<1>3. CASE p = "sum"
  BY <1>3 DEF Land, Added
<1>4. CASE p = "count"
  BY <1>4 DEF Land, Added
<1> QED BY <1>2, <1>3, <1>4 DEF Part

LEMMA LandKeeps ==
    ASSUME HistogramInv, NEW f \in flying, Land(f)
    PROVE  HistogramInv'
<1>1. registered = 1
  BY DEF HistogramInv, Shape, HistogramTypes, NothingYet
<1>2. PICK part \in [DOMAIN observed -> 1..Len(buckets) + 1] : Accounts(part)
  BY <1>1 DEF HistogramInv, AllAccounted
<1>3. PICK n \in DOMAIN observed, p \in Part :
         /\ f.obs = n /\ f.part = p /\ f.cell = FiledFor[observed[n].key] /\ f.bucket = part[n]
         /\ observed[n].key \in Keys /\ observed[n].value \in Int /\ f.cell \in DOMAIN cells
         /\ part[n] \in DOMAIN cells[f.cell].counts
         /\ \A g \in flying : g.obs = n /\ g.part = p => g = f
  BY <1>1, <1>2, LandFacts
<1>4. PICK c, k, v, i, old, new :
         c = f.cell /\ k = observed[n].key /\ v = observed[n].value /\ i = part[n] /\ old = cells[c]
         /\ new = Added(old, p, i, v)
  OBVIOUS
<1>5. /\ flying' = flying \ {f} /\ cells' = [cells EXCEPT ![c] = new]
      /\ UNCHANGED <<registered, storages, handle, timer, reading, asked, observed, timers>>
  BY <1>3, <1>4, LandIs
<1>6. /\ HistogramTypes /\ cells \in Seq(Atomic) /\ old \in Atomic /\ c \in DOMAIN cells
      /\ i \in DOMAIN old.counts /\ v \in Int /\ k \in Keys /\ FiledFor[k] = c /\ n \in Of(k)
  <2>1. HistogramTypes
    BY DEF HistogramInv, Shape
  <2>2. cells \in Seq(Atomic)
    BY <2>1 DEF HistogramTypes
  <2>3. old \in Atomic
    BY <1>3, <1>4, <2>2
  <2> QED BY <1>3, <1>4, <2>1, <2>2, <2>3 DEF Of
<1>7. /\ new \in Atomic /\ DOMAIN new.counts = DOMAIN old.counts /\ Len(new.counts) = Len(old.counts)
      /\ \A j \in DOMAIN old.counts :
           new.counts[j] = IF p = "bucket" /\ j = i THEN old.counts[j] + 1 ELSE old.counts[j]
      /\ new.sum = IF p = "sum" THEN old.sum + v ELSE old.sum
      /\ new.count = IF p = "count" THEN old.count + 1 ELSE old.count
  BY <1>4, <1>6, AddedIs
<1>8. /\ cells' \in Seq(Atomic) /\ DOMAIN cells' = DOMAIN cells /\ Len(cells') = Len(cells)
      /\ cells'[c] = new /\ \A d \in DOMAIN cells : d # c => cells'[d] = cells[d]
  BY <1>5, <1>6, <1>7
<1>9. buckets' = buckets /\ FiledFor' = FiledFor /\ registered' = 1
  BY <1>1, <1>5 DEF buckets, FiledFor
<1>10. Shape'
  <2>1. HistogramTypes'
    BY <1>5, <1>8 DEF HistogramInv, Shape, HistogramTypes
  <2>2. NothingYet' /\ FirstBuckets'
    BY <1>5, <1>9 DEF HistogramInv, Shape, NothingYet, FirstBuckets
  <2>3. OwnCells'
    <3>1. ASSUME NEW d \in DOMAIN cells' PROVE Len(cells'[d].counts) = Len(buckets) + 1
      <4>1. Len(cells[d].counts) = Len(buckets) + 1
        BY <1>1, <1>8 DEF HistogramInv, Shape, OwnCells
      <4> QED BY <1>4, <1>7, <1>8, <4>1
    <3> QED BY <1>1, <1>8, <1>9, <3>1 DEF HistogramInv, Shape, OwnCells
  <2>4. HandlesFiledToo'
    BY <1>5, <1>9 DEF HistogramInv, Shape, HandlesFiledToo, IsFiled
  <2> QED BY <2>1, <2>2, <2>3, <2>4 DEF Shape
<1>11. TimersCount'
  BY <1>5 DEF HistogramInv, TimersCount, Pending, ByTimer
<1>12. PartsAreRight(part)' /\ FlyingIsRight(part)'
  <2>1. PartsAreRight(part)'
    BY <1>2, <1>5, <1>9 DEF Accounts, PartsAreRight
  <2>2. FlyingIsRight(part)'
    BY <1>2, <1>5, <1>9 DEF Accounts, FlyingIsRight, Addition
  <2> QED BY <2>1, <2>2
<1>13. ASSUME NEW l
       PROVE  /\ Of(l)' = Of(l) /\ Settled(l) \subseteq Settled(l)'
              /\ \A q \in Part : Landed(l, q)' = IF l = k /\ q = p THEN Landed(l, q) \cup {n} ELSE Landed(l, q)
  <2>1. Of(l)' = Of(l) /\ Settled(l) \subseteq Settled(l)'
    BY <1>5 DEF Of, Settled
  <2>2. ASSUME NEW q \in Part
        PROVE  Landed(l, q)' = IF l = k /\ q = p THEN Landed(l, q) \cup {n} ELSE Landed(l, q)
    <3>1. Landed(l, q) \subseteq Landed(l, q)'
      BY <1>5, <2>1 DEF Landed
    <3>2. ASSUME NEW m \in Landed(l, q)' PROVE m \in Landed(l, q) \/ (m = n /\ q = p)
      BY <1>3, <1>5, <2>1, <3>2 DEF Landed
    <3>3. n \in Landed(k, p)'
      BY <1>3, <1>5, <1>6, <2>1 DEF Landed, Of
    <3>4. n \in Of(l) => l = k
      BY <1>4 DEF Of
    <3>5. Landed(l, q)' \subseteq Of(l)
      BY <2>1 DEF Landed
    <3>6. CASE l = k /\ q = p
      BY <3>1, <3>2, <3>3, <3>6
    <3>7. CASE ~(l = k /\ q = p)
      <4>1. \A m \in Landed(l, q)' : m \in Landed(l, q)
        BY <3>2, <3>4, <3>5, <3>7
      <4> QED BY <3>1, <3>7, <4>1
    <3> QED BY <3>6, <3>7
  <2> QED BY <2>1, <2>2
<1>14. n \notin Landed(k, p)
  BY <1>3 DEF Landed
<1>15. ASSUME NEW l \in Keys, FiledFor'[l] # 0
       PROVE  CellAccounts(part, l)'
  <2>1. CellAccounts(part, l)
    BY <1>2, <1>9, <1>15 DEF Accounts
  <2>2. CASE l # k
    <3>1. FiledFor[l] # c /\ FiledFor[l] \in DOMAIN cells
      <4>1. FiledFor[l] \in 0..Len(cells) /\ (FiledFor[l] = FiledFor[k] /\ FiledFor[l] # 0 => l = k)
        BY <1>1, <1>6 DEF HistogramInv, Shape, OwnCells
      <4> QED BY <1>6, <1>9, <1>15, <2>2, <4>1
    <3>2. cells'[FiledFor[l]] = cells[FiledFor[l]]
      BY <1>8, <3>1
    <3>3. \A q \in Part : Landed(l, q)' = Landed(l, q)
      BY <1>13, <2>2
    <3> QED BY <1>5, <1>9, <2>1, <3>2, <3>3 DEF CellAccounts, Part
  <2>3. CASE l = k
    <3>1. /\ old.count = Cardinality(Landed(k, "count"))
          /\ old.sum = SumOf(observed, Landed(k, "sum"))
          /\ \A j \in DOMAIN old.counts : old.counts[j] = Cardinality(In(part, Landed(k, "bucket"), j))
      BY <1>4, <1>6, <2>1, <2>3 DEF CellAccounts
    <3>2. \A q \in Part : IsFiniteSet(Landed(k, q)) /\ Landed(k, q) \subseteq DOMAIN observed
      BY <1>6, LandedSets DEF Landed, Of
    <3>3. new.count = Cardinality(Landed(k, "count")')
      <4>1. CASE p = "count"
        <5>1. Landed(k, "count")' = Landed(k, "count") \cup {n}
          BY <1>13, <4>1
        <5> QED BY <1>7, <1>14, <3>1, <3>2, <4>1, <5>1, OneMore
      <4>2. CASE p # "count"
        <5>1. Landed(k, "count")' = Landed(k, "count")
          BY <1>13, <4>2 DEF Part
        <5> QED BY <1>7, <3>1, <4>2, <5>1
      <4> QED BY <4>1, <4>2
    <3>4. new.sum = SumOf(observed, Landed(k, "sum")')
      <4>1. CASE p = "sum"
        <5>1. Landed(k, "sum")' = Landed(k, "sum") \cup {n}
          BY <1>13, <4>1
        <5>2. \A y \in Landed(k, "sum") \cup {n} : observed[y].value \in Int
          BY <1>6, <3>2, <4>1, ObservedSets
        <5>3. PICK T : T = Landed(k, "sum")
          OBVIOUS
        <5>4. IsFiniteSet(T) /\ n \notin T
          BY <1>14, <3>2, <4>1, <5>3
        <5>5. SumOf(observed, T \cup {n}) = SumOf(observed, T) + observed[n].value
          BY <5>2, <5>3, <5>4, SumOfMore
        <5> QED BY <1>4, <1>7, <3>1, <4>1, <5>1, <5>3, <5>5
      <4>2. CASE p # "sum"
        <5>1. Landed(k, "sum")' = Landed(k, "sum")
          BY <1>13, <4>2 DEF Part
        <5> QED BY <1>7, <3>1, <4>2, <5>1
      <4> QED BY <4>1, <4>2
    <3>5. ASSUME NEW j \in DOMAIN new.counts
          PROVE  new.counts[j] = Cardinality(In(part, Landed(k, "bucket")', j))
      <4>1. CASE p = "bucket"
        <5>1. Landed(k, "bucket")' = Landed(k, "bucket") \cup {n}
          BY <1>13, <4>1
        <5>2. PICK T : T = Landed(k, "bucket")
          OBVIOUS
        <5>3. IsFiniteSet(In(part, T, j)) /\ n \notin In(part, T, j)
          <6>1. In(part, T, j) \subseteq T /\ n \notin T
            BY <1>14, <4>1, <5>2 DEF In
          <6> QED BY <3>2, <4>1, <5>2, <6>1, Subsets
        <5>4. CASE j = i
          <6>1. In(part, T \cup {n}, j) = In(part, T, j) \cup {n}
            BY <1>4, <5>4 DEF In
          <6>2. new.counts[j] = old.counts[j] + 1
            BY <1>7, <4>1, <5>4
          <6>3. PICK U : U = In(part, T, j)
            OBVIOUS
          <6>4. Cardinality(U \cup {n}) = Cardinality(U) + 1
            BY <5>3, <6>3, OneMore
          <6>5. old.counts[j] = Cardinality(U)
            BY <1>7, <3>1, <5>2, <6>3
          <6> QED BY <5>1, <5>2, <6>1, <6>2, <6>3, <6>4, <6>5
        <5>5. CASE j # i
          <6>1. In(part, T \cup {n}, j) = In(part, T, j)
            BY <1>4, <5>5 DEF In
          <6> QED BY <1>7, <3>1, <5>1, <5>2, <5>5, <6>1
        <5> QED BY <5>4, <5>5
      <4>2. CASE p # "bucket"
        <5>1. Landed(k, "bucket")' = Landed(k, "bucket")
          BY <1>13, <4>2 DEF Part
        <5> QED BY <1>7, <3>1, <4>2, <5>1
      <4> QED BY <4>1, <4>2
    <3>6. cells'[FiledFor'[l]] = new
      BY <1>6, <1>8, <1>9, <2>3
    <3> QED BY <1>5, <2>3, <3>3, <3>4, <3>5, <3>6 DEF CellAccounts, In
  <2> QED BY <2>2, <2>3
<1>16. ASSUME NEW r \in Readers
       PROVE  ReaderAccounts(part, r)'
  <2>1. ReaderAccounts(part, r)
    BY <1>2 DEF Accounts
  <2>2. \A l : Of(l)' = Of(l) /\ Settled(l) \subseteq Settled(l)'
    BY <1>13
  <2> QED BY <1>5, <1>9, <2>1, <2>2 DEF ReaderAccounts, Snapshot
<1>17. Accounts(part)'
  BY <1>12, <1>15, <1>16 DEF Accounts
<1>18. AllAccounted'
  BY <1>2, <1>5, <1>9, <1>17 DEF AllAccounted
<1> QED BY <1>10, <1>11, <1>18 DEF HistogramInv

-----------------------------------------------------------------------------
(* Readings.                                                               *)
LEMMA ReadingShape ==
    ASSUME HistogramInv, registered = 1,
           UNCHANGED <<registered, storages, cells, handle, timer, flying, asked, observed, timers>>,
           NEW r, NEW rd, reading' = [reading EXCEPT ![r] = rd]
    PROVE  Shape' /\ TimersCount'
<1>1. buckets' = buckets /\ FiledFor' = FiledFor
  BY DEF buckets, FiledFor
<1>2. HistogramTypes'
  BY DEF HistogramInv, Shape, HistogramTypes
<1>3. NothingYet' /\ FirstBuckets' /\ OwnCells'
  BY <1>1 DEF HistogramInv, Shape, NothingYet, FirstBuckets, OwnCells
<1>4. HandlesFiledToo'
  BY <1>1 DEF HistogramInv, Shape, HandlesFiledToo, IsFiled
<1>5. TimersCount'
  BY DEF HistogramInv, TimersCount, Pending, ByTimer
<1> QED BY <1>2, <1>3, <1>4, <1>5 DEF Shape

(* It is enough to look at the reading that changes, as what it becomes.   *)
Half(part, rd) ==
    /\ rd \in Snapshot
    /\ rd.cell = FiledFor[rd.key] /\ rd.cell # 0 /\ Len(rd.counts) = Len(buckets) + 1
    /\ rd.settled \subseteq Settled(rd.key)
    /\ rd.count # None => rd.count \in Cardinality(rd.settled)..Cardinality(Of(rd.key))
    /\ \A i \in DOMAIN rd.counts : rd.counts[i] # None =>
         rd.counts[i] \in Cardinality(In(part, rd.settled, i))..Cardinality(In(part, Of(rd.key), i))
    /\ rd.sum # None =>
         \E T \in SUBSET Of(rd.key) : rd.settled \subseteq T /\ rd.sum = SumOf(observed, T)

LEMMA ReadingKeeps ==
    ASSUME HistogramInv, registered = 1,
           UNCHANGED <<registered, storages, cells, handle, timer, flying, asked, observed, timers>>,
           NEW part \in [DOMAIN observed -> 1..Len(buckets) + 1], Accounts(part),
           NEW r \in Readers, NEW rd, rd = Idle \/ Half(part, rd), reading' = [reading EXCEPT ![r] = rd]
    PROVE  HistogramInv'
<1>1. Shape' /\ TimersCount'
  BY ReadingShape
<1>2. buckets' = buckets /\ FiledFor' = FiledFor
  BY DEF buckets, FiledFor
<1>3. /\ \A k : Of(k)' = Of(k) /\ Settled(k)' = Settled(k)
      /\ \A k, p : Landed(k, p)' = Landed(k, p)
  BY DEF Of, Landed, Settled
<1>4. PartsAreRight(part)' /\ FlyingIsRight(part)'
  BY <1>2 DEF Accounts, PartsAreRight, FlyingIsRight, Addition
<1>5. \A k \in Keys : FiledFor'[k] # 0 => CellAccounts(part, k)'
  BY <1>2, <1>3 DEF Accounts, CellAccounts
<1>6. ASSUME NEW s \in Readers PROVE ReaderAccounts(part, s)'
  <2>1. PICK sd : sd = reading'[s]
    OBVIOUS
  <2>2. sd = Idle \/ Half(part, sd)
    <3>0. reading = [u \in Readers |-> reading[u]]
      BY DEF HistogramInv, Shape, HistogramTypes
    <3>1. CASE s = r
      BY <2>1, <3>0, <3>1
    <3>2. CASE s # r
      <4>1. sd = reading[s] /\ ReaderAccounts(part, s)
        BY <2>1, <3>0, <3>2 DEF Accounts
      <4> QED BY <4>1 DEF ReaderAccounts, Half
    <3> QED BY <3>1, <3>2
  <2>3. CASE sd = Idle
    BY <2>1, <2>3 DEF ReaderAccounts
  <2>4. CASE Half(part, sd)
    BY <1>2, <1>3, <2>1, <2>4 DEF ReaderAccounts, Half, Snapshot
  <2> QED BY <2>2, <2>3, <2>4
<1>7. Accounts(part)'
  BY <1>4, <1>5, <1>6 DEF Accounts
<1>8. AllAccounted'
  BY <1>2, <1>7 DEF AllAccounted
<1> QED BY <1>1, <1>8 DEF HistogramInv

LEMMA ReaderFacts ==
    ASSUME HistogramInv, registered = 1, NEW k \in Keys, FiledFor[k] # 0
    PROVE  /\ FiledFor[k] \in Nat /\ FiledFor[k] \in DOMAIN cells
           /\ cells[FiledFor[k]] \in Atomic /\ Len(cells[FiledFor[k]].counts) = Len(buckets) + 1
           /\ Len(buckets) \in Nat
<1>1. FiledFor[k] \in 0..Len(cells) /\ Len(cells) \in Nat /\ cells \in Seq(Atomic)
  BY DEF HistogramInv, Shape, HistogramTypes, OwnCells
<1>2. FiledFor[k] \in DOMAIN cells /\ FiledFor[k] \in Nat
  BY <1>1
<1>3. cells[FiledFor[k]] \in Atomic
  BY <1>1, <1>2
<1>4. Len(cells[FiledFor[k]].counts) = Len(buckets) + 1
  BY <1>2 DEF HistogramInv, Shape, OwnCells
<1>5. Len(buckets) \in Nat
  BY ShapeFacts DEF HistogramInv
<1> QED BY <1>2, <1>3, <1>4, <1>5

LEMMA StartReadingKeeps ==
    ASSUME HistogramInv, NEW r \in Readers, NEW k \in Keys, StartReading(r, k)
    PROVE  HistogramInv'
<1>1. registered = 1
  BY DEF StartReading, HistogramInv, Shape, HistogramTypes
<1>2. PICK part \in [DOMAIN observed -> 1..Len(buckets) + 1] : Accounts(part)
  BY <1>1 DEF HistogramInv, AllAccounted
<1>3. PICK c, rd :
        /\ c = FiledFor[k]
        /\ rd = [cell |-> c, key |-> k, settled |-> Settled(k),
                 counts |-> [i \in DOMAIN cells[c].counts |-> None], sum |-> None, count |-> None]
  OBVIOUS
<1>4. /\ c # 0 /\ reading' = [reading EXCEPT ![r] = rd]
      /\ UNCHANGED <<registered, storages, cells, handle, timer, flying, asked, observed, timers>>
  BY <1>1, <1>3 DEF StartReading, FiledFor
<1>5. Half(part, rd)
  <2>1. c \in Nat /\ cells[c] \in Atomic /\ Len(cells[c].counts) = Len(buckets) + 1 /\ Len(buckets) \in Nat
    BY <1>1, <1>3, <1>4, ReaderFacts
  <2>2. DOMAIN cells[c].counts = 1..Len(buckets) + 1
    BY <2>1 DEF Atomic
  <2>3. PICK nones : nones = [i \in DOMAIN cells[c].counts |-> None]
    OBVIOUS
  <2>4. nones \in Seq(Nat \cup {None}) /\ Len(nones) = Len(buckets) + 1 /\ \A i \in DOMAIN nones : nones[i] = None
    <3>1. nones \in [1..Len(buckets) + 1 -> Nat \cup {None}]
      BY <2>2, <2>3
    <3> QED BY <2>1, <2>2, <2>3, <3>1
  <2>5. \A n \in Of(k) : n \in Nat
    BY ObservedSets DEF Of, HistogramInv, Shape
  <2>6. Settled(k) \in SUBSET Nat
    BY <2>5 DEF Settled
  <2>7. rd.cell = c /\ rd.key = k /\ rd.settled = Settled(k) /\ rd.counts = nones /\ rd.sum = None /\ rd.count = None
    BY <1>3, <2>3
  <2>8. rd \in Snapshot
    BY <1>3, <2>1, <2>3, <2>4, <2>6 DEF Snapshot
  <2> QED BY <1>3, <1>4, <2>4, <2>7, <2>8 DEF Half
<1> QED BY <1>1, <1>2, <1>4, <1>5, ReadingKeeps

LEMMA ReReads ==
    ASSUME NEW rd \in Snapshot, NEW x
    PROVE  /\ \A s : [rd EXCEPT !.counts = s]
                       = [cell |-> rd.cell, key |-> rd.key, settled |-> rd.settled,
                          counts |-> s, sum |-> rd.sum, count |-> rd.count]
           /\ [rd EXCEPT !.sum = x]
                = [cell |-> rd.cell, key |-> rd.key, settled |-> rd.settled,
                   counts |-> rd.counts, sum |-> x, count |-> rd.count]
           /\ [rd EXCEPT !.count = x]
                = [cell |-> rd.cell, key |-> rd.key, settled |-> rd.settled,
                   counts |-> rd.counts, sum |-> rd.sum, count |-> x]
<1>1. rd = [cell |-> rd.cell, key |-> rd.key, settled |-> rd.settled,
            counts |-> rd.counts, sum |-> rd.sum, count |-> rd.count]
  BY DEF Snapshot
<1> QED BY <1>1

LEMMA LoadKeeps ==
    ASSUME HistogramInv, NEW r \in Readers, Load(r)
    PROVE  HistogramInv'
<1>1. reading[r] # Idle
      /\ UNCHANGED <<registered, storages, cells, handle, timer, flying, asked, observed, timers>>
  BY DEF Load
<1>2. registered = 1
  BY <1>1 DEF HistogramInv, Shape, HistogramTypes, NothingYet
<1>3. PICK part \in [DOMAIN observed -> 1..Len(buckets) + 1] : Accounts(part)
  BY <1>2 DEF HistogramInv, AllAccounted
<1>4. PICK rd, k, c : rd = reading[r] /\ k = rd.key /\ c = cells[rd.cell]
  OBVIOUS
<1>5. Half(part, rd)
  BY <1>1, <1>3, <1>4 DEF Accounts, ReaderAccounts, Half
<1>6. /\ rd \in Snapshot /\ k \in Keys /\ rd.cell = FiledFor[k] /\ FiledFor[k] # 0
      /\ rd.counts \in Seq(Nat \cup {None}) /\ rd.settled \subseteq Settled(k)
      /\ rd.cell \in Nat /\ rd.sum \in Int \cup {None} /\ rd.count \in Nat \cup {None}
      /\ rd.settled \in SUBSET Nat
      /\ Len(rd.counts) = Len(buckets) + 1
  BY <1>4, <1>5 DEF Half, Snapshot
<1>7. CellAccounts(part, k)
  BY <1>3, <1>6 DEF Accounts
<1>8. c \in Atomic /\ Len(c.counts) = Len(buckets) + 1 /\ Len(buckets) \in Nat
  BY <1>2, <1>4, <1>6, ReaderFacts
<1>9. /\ c.count = Cardinality(Landed(k, "count"))
      /\ c.sum = SumOf(observed, Landed(k, "sum"))
      /\ \A i \in DOMAIN c.counts : c.counts[i] = Cardinality(In(part, Landed(k, "bucket"), i))
  BY <1>4, <1>6, <1>7 DEF CellAccounts
<1>10. HistogramTypes
  BY DEF HistogramInv, Shape
<1>11. ASSUME NEW p \in Part
       PROVE  /\ rd.settled \subseteq Landed(k, p) /\ Landed(k, p) \subseteq Of(k)
              /\ IsFiniteSet(Of(k)) /\ IsFiniteSet(Landed(k, p))
  BY <1>6, <1>10, LandedSets
<1>12. \/ \E i \in DOMAIN rd.counts :
            reading' = [reading EXCEPT ![r] = [rd EXCEPT !.counts = [rd.counts EXCEPT ![i] = c.counts[i]]]]
       \/ reading' = [reading EXCEPT ![r] = [rd EXCEPT !.sum = c.sum]]
       \/ reading' = [reading EXCEPT ![r] = [rd EXCEPT !.count = c.count]]
  BY <1>4 DEF Load
<1>13. c.sum \in Int /\ c.count \in Nat /\ c.counts \in Seq(Nat)
  BY <1>8 DEF Atomic
<1>14. ASSUME NEW i \in DOMAIN rd.counts,
              reading' = [reading EXCEPT ![r] = [rd EXCEPT !.counts = [rd.counts EXCEPT ![i] = c.counts[i]]]]
       PROVE  HistogramInv'
  <2>1. i \in DOMAIN c.counts /\ c.counts[i] \in Nat
    BY SMTT(30), <1>6, <1>8, <1>13
  <2>2. PICK s, nd : s = [rd.counts EXCEPT ![i] = c.counts[i]] /\ nd = [rd EXCEPT !.counts = s]
    OBVIOUS
  <2>3. /\ s \in Seq(Nat \cup {None}) /\ Len(s) = Len(rd.counts) /\ DOMAIN s = DOMAIN rd.counts
        /\ \A j \in DOMAIN s : s[j] = IF j = i THEN c.counts[i] ELSE rd.counts[j]
    BY <1>6, <2>1, <2>2
  <2>4. nd = [cell |-> rd.cell, key |-> rd.key, settled |-> rd.settled,
              counts |-> s, sum |-> rd.sum, count |-> rd.count]
    BY <1>6, <2>2, ReReads
  <2>5. nd \in Snapshot
    BY <1>4, <1>6, <2>3, <2>4 DEF Snapshot
  <2>6. c.counts[i] \in Cardinality(In(part, rd.settled, i))..Cardinality(In(part, Of(k), i))
    <3>1. PICK A, B, C : A = In(part, rd.settled, i) /\ B = In(part, Landed(k, "bucket"), i) /\ C = In(part, Of(k), i)
      OBVIOUS
    <3>2. A \subseteq B /\ B \subseteq C /\ C \subseteq Of(k) /\ IsFiniteSet(Of(k))
      BY <1>11, <3>1 DEF In, Part
    <3>3. IsFiniteSet(C)
      BY <3>2, Subsets
    <3>4. IsFiniteSet(B) /\ Cardinality(B) <= Cardinality(C) /\ Cardinality(C) \in Nat /\ Cardinality(B) \in Nat
      BY <3>2, <3>3, Subsets
    <3>5. Cardinality(A) <= Cardinality(B) /\ Cardinality(A) \in Nat
      BY <3>2, <3>4, Subsets
    <3>6. c.counts[i] = Cardinality(B)
      BY <1>9, <2>1, <3>1
    <3> QED BY <3>1, <3>4, <3>5, <3>6
  <2>7. Half(part, nd)
    <3>1. \A j \in DOMAIN s : s[j] # None =>
            s[j] \in Cardinality(In(part, rd.settled, j))..Cardinality(In(part, Of(k), j))
      BY <1>4, <1>5, <2>3, <2>6 DEF Half
    <3>2. nd.cell = rd.cell /\ nd.key = k /\ nd.settled = rd.settled /\ nd.counts = s
          /\ nd.sum = rd.sum /\ nd.count = rd.count
      BY <1>4, <2>4
    <3> QED BY <1>4, <1>5, <2>3, <2>5, <3>1, <3>2 DEF Half
  <2>8. reading' = [reading EXCEPT ![r] = nd]
    BY <1>14, <2>2
  <2> QED BY <1>1, <1>2, <1>3, <2>7, <2>8, ReadingKeeps
<1>15. ASSUME reading' = [reading EXCEPT ![r] = [rd EXCEPT !.sum = c.sum]]
       PROVE  HistogramInv'
  <2>1. PICK nd : nd = [rd EXCEPT !.sum = c.sum]
    OBVIOUS
  <2>2. nd = [cell |-> rd.cell, key |-> rd.key, settled |-> rd.settled,
              counts |-> rd.counts, sum |-> c.sum, count |-> rd.count]
    BY <1>6, <2>1, ReReads
  <2>3. nd \in Snapshot
    BY <1>4, <1>6, <1>13, <2>2 DEF Snapshot
  <2>4. \E T \in SUBSET Of(k) : rd.settled \subseteq T /\ c.sum = SumOf(observed, T)
    BY <1>9, <1>11 DEF Part
  <2>5. nd.cell = rd.cell /\ nd.key = k /\ nd.settled = rd.settled /\ nd.counts = rd.counts
        /\ nd.sum = c.sum /\ nd.count = rd.count
    BY <1>4, <2>2
  <2>6. Half(part, nd)
    BY <1>4, <1>5, <2>3, <2>4, <2>5 DEF Half
  <2>7. reading' = [reading EXCEPT ![r] = nd]
    BY <1>15, <2>1
  <2> QED BY <1>1, <1>2, <1>3, <2>6, <2>7, ReadingKeeps
<1>16. ASSUME reading' = [reading EXCEPT ![r] = [rd EXCEPT !.count = c.count]]
       PROVE  HistogramInv'
  <2>1. PICK nd : nd = [rd EXCEPT !.count = c.count]
    OBVIOUS
  <2>2. nd = [cell |-> rd.cell, key |-> rd.key, settled |-> rd.settled,
              counts |-> rd.counts, sum |-> rd.sum, count |-> c.count]
    BY <1>6, <2>1, ReReads
  <2>3. nd \in Snapshot
    BY <1>4, <1>6, <1>13, <2>2 DEF Snapshot
  <2>4. c.count \in Cardinality(rd.settled)..Cardinality(Of(k))
    <3>1. PICK B : B = Landed(k, "count")
      OBVIOUS
    <3>2. rd.settled \subseteq B /\ B \subseteq Of(k) /\ IsFiniteSet(Of(k)) /\ IsFiniteSet(B)
      BY <1>11, <3>1 DEF Part
    <3>3. Cardinality(rd.settled) <= Cardinality(B) /\ Cardinality(rd.settled) \in Nat
      BY <3>2, Subsets
    <3>4. Cardinality(B) <= Cardinality(Of(k)) /\ Cardinality(B) \in Nat /\ Cardinality(Of(k)) \in Nat
      BY <3>2, Subsets
    <3> QED BY <1>9, <3>1, <3>3, <3>4
  <2>5. nd.cell = rd.cell /\ nd.key = k /\ nd.settled = rd.settled /\ nd.counts = rd.counts
        /\ nd.sum = rd.sum /\ nd.count = c.count
    BY <1>4, <2>2
  <2>6. Half(part, nd)
    BY <1>4, <1>5, <2>3, <2>4, <2>5 DEF Half
  <2>7. reading' = [reading EXCEPT ![r] = nd]
    BY <1>16, <2>1
  <2> QED BY <1>1, <1>2, <1>3, <2>6, <2>7, ReadingKeeps
<1> QED BY <1>12, <1>14, <1>15, <1>16

LEMMA EndReadingKeeps ==
    ASSUME HistogramInv, NEW r \in Readers, EndReading(r)
    PROVE  HistogramInv'
<1>1. /\ reading[r] # Idle /\ reading' = [reading EXCEPT ![r] = Idle]
      /\ UNCHANGED <<registered, storages, cells, handle, timer, flying, asked, observed, timers>>
  BY DEF EndReading, Loaded
<1>2. registered = 1
  BY <1>1 DEF HistogramInv, Shape, HistogramTypes, NothingYet
<1>3. PICK part \in [DOMAIN observed -> 1..Len(buckets) + 1] : Accounts(part)
  BY <1>2 DEF HistogramInv, AllAccounted
<1> QED BY <1>1, <1>2, <1>3, ReadingKeeps

LEMMA HistogramNext == HistogramInv /\ [Next]_vars => HistogramInv'
<1> SUFFICES ASSUME HistogramInv, [Next]_vars
             PROVE  HistogramInv'
  OBVIOUS
<1>1. ASSUME NEW t \in Threads, NEW request \in Requests, Register(t, request)
      PROVE  HistogramInv'
  BY <1>1, RegisterKeeps
<1>2. ASSUME NEW t \in Threads, NEW k \in Keys, NewHandle(t, k)
      PROVE  HistogramInv'
  BY <1>2, NewHandleKeeps
<1>3. ASSUME NEW t \in Threads, NEW v \in Values, ObserveValue(t, v)
      PROVE  HistogramInv'
  BY <1>3, ObserveValueKeeps
<1>4. ASSUME NEW t \in Threads, StartTimer(t) \/ ObserveDuration(t) \/ DropTimer(t)
      PROVE  HistogramInv'
  BY <1>4, StartTimerKeeps, ObserveDurationKeeps, DropTimerKeeps
<1>5. ASSUME NEW f \in flying, Land(f)
      PROVE  HistogramInv'
  BY <1>5, LandKeeps
<1>6. ASSUME NEW r \in Readers, (\E k \in Keys : StartReading(r, k)) \/ Load(r) \/ EndReading(r)
      PROVE  HistogramInv'
  BY <1>6, StartReadingKeeps, LoadKeeps, EndReadingKeeps
<1>7. CASE UNCHANGED vars
  <2>1. UNCHANGED <<registered, storages, cells, handle, timer, flying, reading, asked, observed, timers>>
    BY <1>7 DEF vars
  <2>2. AllAccounted'
    BY <2>1, SameAccounts DEF HistogramInv
  <2>3. TimersCount'
    BY <2>1 DEF HistogramInv, TimersCount, Pending, ByTimer
  <2>4. buckets' = buckets /\ FiledFor' = FiledFor
    BY <2>1 DEF buckets, FiledFor
  <2>5. HistogramTypes' /\ NothingYet' /\ FirstBuckets' /\ OwnCells'
    BY <2>1, <2>4 DEF HistogramInv, Shape, HistogramTypes, NothingYet, FirstBuckets, OwnCells
  <2>6. HandlesFiledToo'
    BY <2>1, <2>4 DEF HistogramInv, Shape, HandlesFiledToo, IsFiled
  <2> QED BY <2>2, <2>3, <2>5, <2>6 DEF HistogramInv, Shape
<1> QED BY <1>1, <1>2, <1>3, <1>4, <1>5, <1>6, <1>7 DEF Next

-----------------------------------------------------------------------------
(* What the invariant says of the buckets, the atomics and the readings.   *)
LEMMA BucketsFromInv == HistogramInv => BucketsOfTheFirst
<1> SUFFICES ASSUME HistogramInv, registered # 0,
                    NaN \notin ToSet(IF asked = NoBuckets THEN DefaultBuckets ELSE asked)
             PROVE  LET first == IF asked = NoBuckets THEN DefaultBuckets ELSE asked
                        b     == storages[registered].buckets
                    IN  Increasing(b) /\ ToSet(b) = {x \in ToSet(first) : IsFinite(x)}
  BY DEF BucketsOfTheFirst
<1>1. registered = 1
  BY DEF HistogramInv, Shape, HistogramTypes
<1>2. PICK q, b : q = asked /\ b = storages[registered].buckets
  OBVIOUS
<1>3. q \in Requests /\ b \in Buckets(q)
  BY <1>1, <1>2 DEF HistogramInv, Shape, FirstBuckets, buckets
<1>4. NaN \notin ToSet(IF q = NoBuckets THEN DefaultBuckets ELSE q) =>
        Increasing(b) /\ ToSet(b) = {x \in ToSet(IF q = NoBuckets THEN DefaultBuckets ELSE q) : IsFinite(x)}
  BY <1>3, BucketsAre
<1> QED BY <1>2, <1>4

LEMMA NothingLostFromInv == HistogramInv => NothingLost
<1> SUFFICES ASSUME HistogramInv PROVE NothingLost
  OBVIOUS
<1>1. OncePerTimer
  BY DEF HistogramInv, TimersCount, Pending, ByTimer, OncePerTimer
<1>2. ASSUME registered # 0, NEW k \in Keys
      PROVE  /\ FiledFor[k] = 0 => Of(k) = {}
             /\ FiledFor[k] # 0 =>
                  /\ cells[FiledFor[k]].count = Cardinality(Landed(k, "count"))
                  /\ cells[FiledFor[k]].sum = MapThenSumSet(LAMBDA n : observed[n].value, Landed(k, "sum"))
                  /\ Total(cells[FiledFor[k]].counts) = Cardinality(Landed(k, "bucket"))
                  /\ Increasing(buckets) => \A i \in DOMAIN cells[FiledFor[k]].counts :
                       cells[FiledFor[k]].counts[i] =
                         Cardinality({n \in Landed(k, "bucket") : InBucket(buckets, i, observed[n].value)})
  <2>1. registered = 1 /\ HistogramTypes
    BY <1>2 DEF HistogramInv, Shape, HistogramTypes
  <2>2. PICK part \in [DOMAIN observed -> 1..Len(buckets) + 1] : Accounts(part)
    BY <2>1 DEF HistogramInv, AllAccounted
  <2>3. FiledFor[k] = 0 => Of(k) = {}
    BY <2>2 DEF Accounts, PartsAreRight, Of
  <2>4. ASSUME FiledFor[k] # 0
        PROVE  /\ cells[FiledFor[k]].count = Cardinality(Landed(k, "count"))
               /\ cells[FiledFor[k]].sum = MapThenSumSet(LAMBDA n : observed[n].value, Landed(k, "sum"))
               /\ Total(cells[FiledFor[k]].counts) = Cardinality(Landed(k, "bucket"))
               /\ Increasing(buckets) => \A i \in DOMAIN cells[FiledFor[k]].counts :
                    cells[FiledFor[k]].counts[i] =
                      Cardinality({n \in Landed(k, "bucket") : InBucket(buckets, i, observed[n].value)})
    <3>1. PICK c, S, b : c = cells[FiledFor[k]] /\ S = Landed(k, "bucket") /\ b = buckets
      OBVIOUS
    <3>2. /\ c.count = Cardinality(Landed(k, "count"))
          /\ c.sum = SumOf(observed, Landed(k, "sum"))
          /\ \A i \in DOMAIN c.counts : c.counts[i] = Cardinality(In(part, S, i))
      BY <2>2, <2>4, <3>1 DEF Accounts, CellAccounts
    <3>3. c \in Atomic /\ Len(c.counts) = Len(b) + 1 /\ b \in Seq(Int) /\ Len(b) \in Nat
      BY <2>1, <2>4, <3>1, ReaderFacts, ShapeFacts DEF HistogramInv
    <3>4. c.counts \in Seq(Nat) /\ DOMAIN c.counts = 1..Len(b) + 1
      BY <3>3 DEF Atomic
    <3>5. IsFiniteSet(S) /\ S \subseteq DOMAIN observed
      BY <2>1, <3>1, LandedSets DEF Part
    <3>6. Total(c.counts) = Cardinality(S)
      <4>1. \A x \in S : part[x] \in 1..Len(c.counts)
        BY <3>1, <3>3, <3>5
      <4>2. \A i \in 1..Len(c.counts) : c.counts[i] = Cardinality({x \in S : part[x] = i})
        <5>1. 1..Len(c.counts) = DOMAIN c.counts
          BY <3>4
        <5>2. \A i : In(part, S, i) = {x \in S : part[x] = i}
          BY DEF In
        <5> TAKE i \in 1..Len(c.counts)
        <5>3. c.counts[i] = Cardinality(In(part, S, i))
          BY <3>2, <5>1
        <5> QED BY <5>2, <5>3
      <4> QED BY <3>4, <3>5, <4>1, <4>2, TotalOfParts
    <3>7. ASSUME Increasing(b), NEW i \in DOMAIN c.counts
          PROVE  c.counts[i] = Cardinality({n \in S : InBucket(b, i, observed[n].value)})
      <4>1. ASSUME NEW n \in S PROVE part[n] = i <=> InBucket(b, i, observed[n].value)
        <5>1. n \in DOMAIN observed /\ observed[n].value \in Int
          BY <2>1, <3>5, ObservedSets
        <5>2. part[n] \in 1..Len(b) + 1 /\ InBucket(b, part[n], observed[n].value)
          BY <2>2, <3>1, <3>7, <5>1 DEF Accounts, PartsAreRight
        <5>3. i \in 1..Len(b) + 1
          BY <3>4
        <5>4. ASSUME InBucket(b, i, observed[n].value) PROVE part[n] = i
          BY <3>3, <3>7, <5>1, <5>2, <5>3, <5>4, OneBucket
        <5> QED BY <5>2, <5>4
      <4>2. In(part, S, i) = {n \in S : InBucket(b, i, observed[n].value)}
        BY <4>1 DEF In
      <4> QED BY <3>2, <4>2
    <3> QED BY <3>1, <3>2, <3>6, <3>7 DEF SumOf
  <2> QED BY <2>3, <2>4
<1>3. registered # 0 => registered = 1
  BY DEF HistogramInv, Shape, HistogramTypes
<1> QED BY ZenonT(30), <1>1, <1>2, <1>3 DEF NothingLost, buckets, FiledFor

LEMMA SnapshotFromInv == HistogramInv => SnapshotHolds
<1> SUFFICES ASSUME HistogramInv, NEW r \in Readers, Loaded(r)
             PROVE  /\ reading[r].count
                         \in Cardinality(reading[r].settled)..Cardinality(Of(reading[r].key))
                    /\ Total(reading[r].counts)
                         \in Cardinality(reading[r].settled)..Cardinality(Of(reading[r].key))
                    /\ reading[r].settled = Of(reading[r].key) =>
                         reading[r].sum = MapThenSumSet(LAMBDA n : observed[n].value, Of(reading[r].key))
  BY Zenon DEF SnapshotHolds
<1>1. reading[r] # Idle /\ registered = 1 /\ HistogramTypes
  BY DEF Loaded, HistogramInv, Shape, HistogramTypes, NothingYet
<1>2. PICK part \in [DOMAIN observed -> 1..Len(buckets) + 1] : Accounts(part)
  BY <1>1 DEF HistogramInv, AllAccounted
<1>3. PICK rd, all, b : rd = reading[r] /\ all = Of(rd.key) /\ b = buckets
  OBVIOUS
<1>4. /\ rd \in Snapshot /\ Len(rd.counts) = Len(b) + 1
      /\ rd.settled \subseteq Settled(rd.key)
      /\ rd.count # None => rd.count \in Cardinality(rd.settled)..Cardinality(all)
      /\ \A i \in DOMAIN rd.counts : rd.counts[i] # None =>
           rd.counts[i] \in Cardinality(In(part, rd.settled, i))..Cardinality(In(part, all, i))
      /\ rd.sum # None => \E T \in SUBSET all : rd.settled \subseteq T /\ rd.sum = SumOf(observed, T)
  BY <1>1, <1>2, <1>3 DEF Accounts, ReaderAccounts
<1>5. rd.sum # None /\ rd.count # None /\ \A i \in DOMAIN rd.counts : rd.counts[i] # None
  BY <1>3 DEF Loaded, Range
<1>6. rd.count \in Cardinality(rd.settled)..Cardinality(all)
  BY <1>4, <1>5
<1>7. rd.settled = all => rd.sum = SumOf(observed, all)
  <2>1. PICK T \in SUBSET all : rd.settled \subseteq T /\ rd.sum = SumOf(observed, T)
    BY <1>4, <1>5
  <2>2. rd.settled = all => T = all
    BY <2>1
  <2> QED BY <2>1, <2>2
<1>8. /\ rd.counts \in Seq(Nat) /\ DOMAIN rd.counts = 1..Len(b) + 1 /\ Len(b) \in Nat
  <2>1. rd.counts \in Seq(Nat \cup {None})
    BY <1>4 DEF Snapshot
  <2>2. Len(b) \in Nat
    BY <1>1, <1>3, ShapeFacts DEF HistogramInv
  <2>3. DOMAIN rd.counts = 1..Len(b) + 1
    BY <1>4, <2>1
  <2>4. rd.counts \in [1..Len(b) + 1 -> Nat]
    BY <1>5, <2>1, <2>3
  <2> QED BY <2>2, <2>3, <2>4
<1>9. /\ rd.settled \subseteq all /\ all \subseteq DOMAIN observed
      /\ IsFiniteSet(all) /\ IsFiniteSet(rd.settled)
  <2>1. /\ Settled(rd.key) \subseteq all /\ all \subseteq DOMAIN observed /\ IsFiniteSet(all)
    BY ZenonT(30), <1>1, <1>3, LandedSets DEF Settled, Of, Part
  <2> QED BY <1>4, <2>1, Subsets
<1>10. ASSUME NEW S, S \subseteq all
       PROVE  \E s \in Seq(Nat) :
                /\ Len(s) = Len(b) + 1 /\ Total(s) = Cardinality(S)
                /\ \A i \in 1..Len(b) + 1 : s[i] = Cardinality(In(part, S, i))
  <2>1. IsFiniteSet(S)
    BY <1>9, <1>10, Subsets
  <2>2. \A i : Cardinality(In(part, S, i)) \in Nat
    <3>1. \A i : In(part, S, i) \subseteq S
      BY DEF In
    <3> QED BY <2>1, <3>1, Subsets
  <2>3. PICK s : s = [i \in 1..Len(b) + 1 |-> Cardinality(In(part, S, i))]
    OBVIOUS
  <2>4. s \in Seq(Nat) /\ Len(s) = Len(b) + 1 /\ \A i \in 1..Len(b) + 1 : s[i] = Cardinality(In(part, S, i))
    <3>1. s \in [1..Len(b) + 1 -> Nat]
      BY <2>2, <2>3
    <3> QED BY <1>8, <2>3, <3>1
  <2>5. \A x \in S : part[x] \in 1..Len(s)
    BY <1>3, <1>9, <1>10, <2>4
  <2>6. \A i \in 1..Len(s) : s[i] = Cardinality({x \in S : part[x] = i})
    BY <2>4 DEF In
  <2>7. Total(s) = Cardinality(S)
    BY <2>1, <2>4, <2>5, <2>6, TotalOfParts
  <2> QED BY <2>4, <2>7
<1>11. PICK lo \in Seq(Nat) :
          /\ Len(lo) = Len(b) + 1 /\ Total(lo) = Cardinality(rd.settled)
          /\ \A i \in 1..Len(b) + 1 : lo[i] = Cardinality(In(part, rd.settled, i))
  BY <1>9, <1>10
<1>12. PICK hi \in Seq(Nat) :
          /\ Len(hi) = Len(b) + 1 /\ Total(hi) = Cardinality(all)
          /\ \A i \in 1..Len(b) + 1 : hi[i] = Cardinality(In(part, all, i))
  BY <1>10
<1>13. Total(rd.counts) \in Cardinality(rd.settled)..Cardinality(all)
  <2>1. \A i \in 1..Len(b) + 1 : lo[i] <= rd.counts[i] /\ rd.counts[i] <= hi[i]
    <3> TAKE i \in 1..Len(b) + 1
    <3>1. rd.counts[i] \in Cardinality(In(part, rd.settled, i))..Cardinality(In(part, all, i))
      BY <1>4, <1>5, <1>8
    <3>2. lo[i] = Cardinality(In(part, rd.settled, i)) /\ hi[i] = Cardinality(In(part, all, i))
      BY <1>11, <1>12
    <3>3. lo[i] \in Nat /\ hi[i] \in Nat /\ rd.counts[i] \in Nat
      <4>1. ASSUME NEW s \in Seq(Nat), Len(s) = Len(b) + 1 PROVE s[i] \in Nat
        BY <4>1
      <4>2. Len(rd.counts) = Len(b) + 1
        BY <1>4
      <4> QED BY <1>8, <1>11, <1>12, <4>1, <4>2
    <3> QED BY <3>1, <3>2, <3>3
  <2>2. Len(rd.counts) = Len(b) + 1
    BY <1>4
  <2>3. Total(lo) \in Nat /\ Total(lo) <= Total(rd.counts)
    BY <1>8, <1>11, <2>1, <2>2, TotalOfMore
  <2>4. Total(rd.counts) \in Nat /\ Total(rd.counts) <= Total(hi)
    BY <1>8, <1>12, <2>1, <2>2, TotalOfMore
  <2>5. Total(hi) \in Nat
    <3>1. \A i \in 1..Len(hi) : hi[i] <= hi[i]
      BY <1>12
    <3> QED BY <1>12, <3>1, TotalOfMore
  <2> QED BY <1>11, <1>12, <2>3, <2>4, <2>5
<1> QED BY <1>3, <1>6, <1>7, <1>13 DEF SumOf

LEMMA HistogramAlways == MetricsSpec => []HistogramInv
<1>1. MetricsInit => HistogramInv
  BY HistogramInit DEF MetricsInit
<1>2. HistogramInv /\ [MetricsNext]_<<vars, single>> => HistogramInv'
  <2>1. [MetricsNext]_<<vars, single>> => [Next]_vars
    BY DEF MetricsNext
  <2> QED BY <2>1, HistogramNext
<1> QED BY <1>1, <1>2, PTL DEF MetricsSpec

(* Every observation made through a handle of a histogram is in the atomics*)
(* filed for its labels, in its bucket, once its additions have taken      *)
(* effect, and a timer observes exactly once.                              *)
THEOREM NoObservationIsLost == MetricsSpec => []NothingLost
BY HistogramAlways, NothingLostFromInv, PTL

(* What a reader of a histogram returns is torn only by the observations   *)
(* made while it reads.                                                    *)
THEOREM SnapshotsHold == MetricsSpec => []SnapshotHolds
BY HistogramAlways, SnapshotFromInv, PTL

(* The buckets of a histogram are the finite ones of the first             *)
(* registration, in order and each once.                                   *)
THEOREM BucketsAreOfTheFirst == MetricsSpec => []BucketsOfTheFirst
BY HistogramAlways, BucketsFromInv, PTL

-----------------------------------------------------------------------------
(* A label list is filed under its labels, whatever their order.           *)
ByName(W) == {p \in W \X W : p[1].name < p[2].name}

LEMMA NamesAreWeak ==
    ASSUME NEW W, \A w \in W : w.name \in Int
    PROVE  Weak(ByName(W), W)
BY DEF Weak, ByName

(* Sorted by name, and no name twice.                                      *)
Strict(s) == \A i, j \in DOMAIN s : i < j => s[i].name < s[j].name

LEMMA InsertKeepsStrict ==
    ASSUME NEW W, \A w \in W : w.name \in Int, NEW s \in Seq(W), Strict(s), NEW x \in W,
           \A y \in ToSet(s) : y.name # x.name
    PROVE  /\ InsertNamed(s, x) \in Seq(W) /\ Strict(InsertNamed(s, x))
           /\ ToSet(InsertNamed(s, x)) = ToSet(s) \cup {x}
<1> DEFINE Lt == ByName(W)
           p == Place(Lt, s, x)
           r == InsertNamed(s, x)
<1>1. Len(s) \in Nat /\ DOMAIN s = 1..Len(s) /\ \A i \in 1..Len(s) : s[i] \in W /\ s[i] \in ToSet(s)
  BY DEF ToSet
<1>2. p \in 1..Len(s) + 1
  BY PlaceIsThere DEF Places
<1>3. r = InsertAt(s, p, x)
  <2>1. {i \in DOMAIN s : ~(x.name < s[i].name)} = {i \in DOMAIN s : <<x, s[i]>> \notin Lt}
    BY <1>1 DEF ByName
  <2> QED BY <2>1 DEF InsertNamed, Place
<1>4. InOrderOf(Lt, s)
  BY <1>1 DEF InOrderOf, Strict, ByName
<1>5. InOrderOf(Lt, r) /\ ToSet(r) = ToSet(s) \cup {x}
  <2> HIDE DEF r, Lt
  <2>1. Weak(Lt, W)
    BY NamesAreWeak DEF Lt
  <2> QED BY <1>3, <1>4, <2>1, InsertKeepsOrder DEF p
<1>6. /\ r \in Seq(W) /\ Len(r) = Len(s) + 1
      /\ \A j \in 1..Len(s) + 1 : r[j] = IF j < p THEN s[j] ELSE IF j = p THEN x ELSE s[j - 1]
  <2> HIDE DEF p, r
  <2>1. p \in Places(s)
    BY <1>2 DEF Places
  <2>2. Inserted(r, s, p, x, W)
    BY <1>3, <2>1, InsertAtIs
  <2> QED BY <2>2 DEF Inserted
<1> HIDE DEF p, r
<1>7. DOMAIN r = 1..Len(s) + 1 /\ \A i \in 1..Len(s) + 1 : r[i] \in W
  BY <1>6
<1>8. ASSUME NEW i \in 1..Len(s) + 1, NEW j \in 1..Len(s) + 1, i < j
      PROVE  r[i].name < r[j].name
  <2>1. r[i] \in W /\ r[j] \in W /\ r[i].name \in Int /\ r[j].name \in Int
    BY <1>7
  <2>2. ~(r[j].name < r[i].name)
    BY <1>5, <1>7, <1>8, <2>1 DEF InOrderOf, ByName
  <2>3. r[i].name # r[j].name
    <3>1. CASE i = p
      <4>1. r[i] = x /\ r[j] = s[j - 1] /\ j - 1 \in 1..Len(s)
        BY <1>1, <1>2, <1>6, <1>8, <3>1
      <4> QED BY <1>1, <4>1
    <3>2. CASE j = p
      <4>1. r[j] = x /\ r[i] = s[i] /\ i \in 1..Len(s)
        BY <1>1, <1>2, <1>6, <1>8, <3>2
      <4> QED BY <1>1, <4>1
    <3>3. CASE i # p /\ j # p
      <4>1. PICK k \in 1..Len(s), l \in 1..Len(s) : k < l /\ r[i] = s[k] /\ r[j] = s[l]
        <5> DEFINE k == IF i < p THEN i ELSE i - 1
                   l == IF j < p THEN j ELSE j - 1
        <5>1. k \in 1..Len(s) /\ l \in 1..Len(s) /\ k < l
          BY <1>1, <1>2, <1>8, <3>3
        <5>2. r[i] = s[k] /\ r[j] = s[l]
          BY <1>1, <1>2, <1>6, <3>3
        <5> QED BY <5>1, <5>2
      <4>2. s[k].name < s[l].name /\ s[k].name \in Int /\ s[l].name \in Int
        BY <1>1, <4>1 DEF Strict
      <4> QED BY <4>1, <4>2
    <3> QED BY <3>1, <3>2, <3>3
  <2> QED BY <2>1, <2>2, <2>3
<1> QED BY <1>5, <1>6, <1>7, <1>8 DEF r, Strict

LEMMA LabelKeyIs ==
    ASSUME NEW labels \in LabelLists
    PROVE  /\ LabelKey(labels) \in Seq(ToSet(labels)) /\ Strict(LabelKey(labels))
           /\ ToSet(LabelKey(labels)) = ToSet(labels)
           /\ \A w \in ToSet(labels) : w.name \in Int
<1> DEFINE s == labels
           W == ToSet(s)
           V == Seq(W)
<1>1. /\ Len(s) \in Nat /\ DOMAIN s = 1..Len(s) /\ s \in Seq(W)
      /\ \A i \in 1..Len(s) : s[i].name \in Int
      /\ \A i, j \in 1..Len(s) : s[i].name = s[j].name => i = j
  BY LabelsAssumption
<1>2. W = {s[i] : i \in 1..Len(s)} /\ \A w \in W : w.name \in Int
  BY <1>1 DEF ToSet
<1> HIDE DEF W
<1>3. ASSUME NEW a \in V, NEW i \in 1..Len(s) PROVE InsertNamed(a, s[i]) \in V
  <2> DEFINE x == s[i]
             Lt == ByName(W)
  <2>1. x \in W
    BY <1>1
  <2>2. Len(a) \in Nat /\ DOMAIN a = 1..Len(a) /\ \A k \in 1..Len(a) : a[k] \in W
    OBVIOUS
  <2>3. {k \in DOMAIN a : ~(x.name < a[k].name)} = {k \in DOMAIN a : <<x, a[k]>> \notin Lt}
    BY <2>1, <2>2 DEF ByName
  <2>4. InsertNamed(a, x) = InsertAt(a, Place(Lt, a, x), x)
    BY <2>3 DEF InsertNamed, Place
  <2> HIDE DEF x, Lt
  <2>5. InsertNamed(a, x) \in V
    BY <2>1, <2>4, PlaceIsThere, InsertAtIs DEF Inserted
  <2> QED BY <2>5 DEF x
<1>4. PICK c \in [0..Len(s) -> V] :
        /\ c[0] = <<>> /\ \A i \in 1..Len(s) : c[i] = InsertNamed(c[i - 1], s[i])
        /\ LabelKey(s) = c[Len(s)]
  <2>1. <<>> \in V
    OBVIOUS
  <2> HIDE DEF V
  <2> QED BY <1>1, <1>3, <2>1, LabelKeyIsChain
<1> DEFINE A == {i \in 0..Len(s) : Strict(c[i]) /\ ToSet(c[i]) = {s[j] : j \in 1..i}}
<1>5. 0 \in A
  BY <1>1, <1>4 DEF Strict, ToSet
<1>6. ASSUME NEW i \in 1..Len(s), i - 1 \in A PROVE i \in A
  <2>0. i - 1 \in 0..Len(s) /\ i \in 0..Len(s)
    BY <1>1
  <2>1. i - 1 \in 0..Len(s) /\ i \in 0..Len(s) /\ s[i] \in W /\ c[i - 1] \in V
    BY <1>1, <2>0
  <2>2. Strict(c[i - 1]) /\ ToSet(c[i - 1]) = {s[j] : j \in 1..i - 1}
    BY <1>6
  <2>3. \A y \in ToSet(c[i - 1]) : y.name # s[i].name
    BY <1>1, <2>2
  <2>4. Strict(c[i]) /\ ToSet(c[i]) = ToSet(c[i - 1]) \cup {s[i]}
    <3>1. PICK a, x : a = c[i - 1] /\ x = s[i]
      OBVIOUS
    <3>2. Strict(InsertNamed(a, x)) /\ ToSet(InsertNamed(a, x)) = ToSet(a) \cup {x}
      BY <1>2, <2>1, <2>2, <2>3, <3>1, InsertKeepsStrict
    <3>3. c[i] = InsertNamed(a, x)
      BY <1>4, <3>1
    <3> QED BY <3>1, <3>2, <3>3
  <2>5. {s[j] : j \in 1..i} = {s[j] : j \in 1..i - 1} \cup {s[i]}
    <3>1. 1..i = (1..i - 1) \cup {i}
      BY <1>1
    <3> QED BY <3>1
  <2> QED BY <2>1, <2>2, <2>4, <2>5
<1>7. 0..Len(s) \subseteq A
  <2> HIDE DEF A
  <2> QED BY <1>1, <1>5, <1>6, Upto
<1>8. Len(s) \in A /\ c[Len(s)] \in V
  BY <1>1, <1>7
<1> QED BY <1>1, <1>2, <1>4, <1>8 DEF W

(* Only one sequence has these elements in this order.                     *)
LEMMA StrictAgree ==
    ASSUME NEW W, \A w \in W : w.name \in Int, NEW s \in Seq(W), NEW t \in Seq(W),
           Strict(s), Strict(t), ToSet(s) = ToSet(t)
    PROVE  \A m \in 1..Len(s) : m \in 1..Len(t) /\ s[m] = t[m]
<1>1. /\ Len(s) \in Nat /\ DOMAIN s = 1..Len(s) /\ Len(t) \in Nat /\ DOMAIN t = 1..Len(t)
      /\ \A i \in 1..Len(s) : s[i].name \in Int
      /\ \A i \in 1..Len(t) : t[i].name \in Int
  OBVIOUS
<1>2. /\ \A i, j \in 1..Len(s) : i < j => s[i].name < s[j].name
      /\ \A i, j \in 1..Len(t) : i < j => t[i].name < t[j].name
  BY <1>1 DEF Strict
<1>3. /\ \A i \in 1..Len(s) : \E j \in 1..Len(t) : s[i] = t[j]
      /\ \A i \in 1..Len(t) : \E j \in 1..Len(s) : t[i] = s[j]
  BY <1>1 DEF ToSet
<1> DEFINE A == {m \in 1..Len(s) : ~(m \in 1..Len(t) /\ s[m] = t[m])}
<1> SUFFICES ASSUME A # {} PROVE FALSE
  OBVIOUS
<1>4. A \in SUBSET Nat
  OBVIOUS
<1>5. PICK m \in A : \A k \in A : m <= k
  <2> HIDE DEF A
  <2> QED BY <1>4, Least
<1>6. m \in 1..Len(s) /\ ~(m \in 1..Len(t) /\ s[m] = t[m])
  OBVIOUS
<1>7. \A k \in 1..Len(s) : k < m => k \in 1..Len(t) /\ s[k] = t[k]
  BY <1>5, <1>6
<1>8. PICK q \in 1..Len(t) : s[m] = t[q]
  BY <1>3, <1>6
<1>9. ~(q < m)
  <2> SUFFICES ASSUME q < m PROVE FALSE
    OBVIOUS
  <2>1. q \in 1..Len(s)
    BY <1>1, <1>6
  <2>2. s[q] = s[m] /\ s[q].name < s[m].name
    BY <1>2, <1>6, <1>7, <1>8, <2>1
  <2> QED BY <1>1, <1>6, <2>1, <2>2
<1>10. m < q /\ m \in 1..Len(t)
  BY <1>1, <1>6, <1>8, <1>9
<1>11. t[m].name < s[m].name
  BY <1>2, <1>8, <1>10
<1>12. PICK u \in 1..Len(s) : t[m] = s[u]
  BY <1>3, <1>10
<1>13. u < m
  <2>1. CASE u = m
    BY <1>1, <1>6, <1>11, <1>12, <2>1
  <2>2. CASE m < u
    <3>1. s[m].name < s[u].name
      BY <1>2, <1>6, <2>2
    <3> QED BY <1>1, <1>6, <1>11, <1>12, <3>1
  <2> QED BY <1>1, <1>6, <2>1, <2>2
<1>14. u \in 1..Len(t) /\ t[u] = t[m] /\ t[u].name < t[m].name
  BY <1>2, <1>7, <1>10, <1>12, <1>13
<1> QED BY <1>1, <1>10, <1>14

LEMMA SameLabels ==
    ASSUME NEW l \in LabelLists, NEW m \in LabelLists
    PROVE  LabelKey(l) = LabelKey(m) <=> ToSet(l) = ToSet(m)
<1>1. PICK s, t : s = LabelKey(l) /\ t = LabelKey(m)
  OBVIOUS
<1>2. ToSet(s) = ToSet(l) /\ ToSet(t) = ToSet(m)
  BY <1>1, LabelKeyIs
<1>3. ASSUME ToSet(l) = ToSet(m) PROVE s = t
  <2>1. PICK W : W = ToSet(l)
    OBVIOUS
  <2>2. s \in Seq(W) /\ t \in Seq(W) /\ Strict(s) /\ Strict(t) /\ \A w \in W : w.name \in Int
    BY <1>1, <1>3, <2>1, LabelKeyIs
  <2>3. \A k \in 1..Len(s) : k \in 1..Len(t) /\ s[k] = t[k]
    BY <1>2, <1>3, <2>2, StrictAgree
  <2>4. \A k \in 1..Len(t) : k \in 1..Len(s) /\ t[k] = s[k]
    BY <1>2, <1>3, <2>2, StrictAgree
  <2>5. Len(s) = Len(t)
    <3>1. Len(s) \in Nat /\ Len(t) \in Nat
      BY <2>2
    <3>2. Len(s) <= Len(t)
      BY <2>3, <3>1
    <3>3. Len(t) <= Len(s)
      BY <2>4, <3>1
    <3> QED BY <3>1, <3>2, <3>3
  <2>6. s = [k \in 1..Len(s) |-> s[k]] /\ t = [k \in 1..Len(t) |-> t[k]]
    BY <2>2
  <2> QED BY <2>3, <2>5, <2>6
<1> QED BY <1>1, <1>2, <1>3

-----------------------------------------------------------------------------
(* What the calls amount to.                                               *)
Amount == Int \cup {NaN}
Op == [labels : {ToSet(l) : l \in LabelLists},
       call : {"increment", "increment_by", "decrement", "add", "subtract", "set"},
       v : Amount]

LEMMA MeantIs ==
    ASSUME NEW value \in Amount, NEW op \in Op
    PROVE  Meant(value, op) \in Amount
<1>1. op.v \in Amount
  BY DEF Op
<1>2. op.call \in {"increment", "increment_by", "decrement", "add", "subtract", "set"}
  BY DEF Op
<1>3. \A a, b \in Amount : Plus(a, b) \in Amount /\ Opposite(a) \in Amount
  BY AmountsAssumption DEF Amount, Plus, Opposite
<1>4. 1000 \in Amount /\ -1000 \in Amount
  BY DEF Amount
<1>5. CASE op.call \in {"increment", "decrement"}
  BY <1>3, <1>4, <1>5 DEF Meant
<1>6. CASE op.call \in {"add", "subtract"}
  BY ZenonT(30), <1>1, <1>3, <1>6 DEF Meant
<1>7. CASE op.call \in {"set", "increment_by"}
  BY <1>1, <1>3, <1>7 DEF Meant
<1> QED BY <1>2, <1>5, <1>6, <1>7

LEMMA TheirChain ==
    ASSUME NEW S, NEW s \in Seq(Op)
    PROVE  TheirSteps(Amount, S, s)
<1>1. Len(s) \in Nat /\ DOMAIN s = 1..Len(s) /\ \A i \in 1..Len(s) : s[i] \in Op
  OBVIOUS
<1>2. 0 \in Amount
  BY DEF Amount
<1>3. \A a \in Amount : \A i \in 1..Len(s) : AfterOp(S, a, s[i]) \in Amount
  BY <1>1, MeantIs DEF AfterOp
<1> QED BY <1>1, <1>2, <1>3, TheirValueIsChain

LEMMA TheirValueType ==
    ASSUME NEW S, NEW s \in Seq(Op)
    PROVE  TheirValue(S, s) \in Amount
<1>1. PICK c \in [0..Len(s) -> Amount] : TheirValue(S, s) = c[Len(s)]
  BY TheirChain DEF TheirSteps
<1>2. Len(s) \in 0..Len(s)
  OBVIOUS
<1> QED BY <1>1, <1>2

LEMMA NothingOfTheirs ==
    ASSUME NEW S, NEW s \in Seq(Op), \A i \in DOMAIN s : s[i].labels # S
    PROVE  TheirValue(S, s) = 0
<1>1. Len(s) \in Nat /\ DOMAIN s = 1..Len(s)
  OBVIOUS
<1>2. PICK c \in [0..Len(s) -> Amount] :
        /\ c[0] = 0 /\ \A i \in 1..Len(s) : c[i] = AfterOp(S, c[i - 1], s[i])
        /\ TheirValue(S, s) = c[Len(s)]
  BY TheirChain DEF TheirSteps
<1> DEFINE A == {i \in 0..Len(s) : c[i] = 0}
<1>3. 0 \in A
  BY <1>1, <1>2
<1>4. ASSUME NEW i \in 1..Len(s), i - 1 \in A PROVE i \in A
  BY <1>1, <1>2, <1>4 DEF AfterOp
<1>5. 0..Len(s) \subseteq A
  <2> HIDE DEF A
  <2> QED BY <1>1, <1>3, <1>4, Upto
<1>6. Len(s) \in A
  BY <1>1, <1>5
<1> QED BY <1>2, <1>6

LEMMA OneOpMore ==
    ASSUME NEW S, NEW s \in Seq(Op), NEW op \in Op
    PROVE  TheirValue(S, Append(s, op)) = AfterOp(S, TheirValue(S, s), op)
<1> DEFINE t == Append(s, op)
           n == Len(s)
<1>1. /\ n \in Nat /\ t \in Seq(Op) /\ Len(t) = n + 1 /\ t[n + 1] = op
      /\ \A i \in 1..n : t[i] = s[i]
  OBVIOUS
<1> HIDE DEF t, n
<1>2. PICK c \in [0..n -> Amount] :
        /\ c[0] = 0 /\ \A i \in 1..n : c[i] = AfterOp(S, c[i - 1], s[i])
        /\ TheirValue(S, s) = c[n]
  BY TheirChain DEF TheirSteps, n
<1>3. PICK d \in [0..Len(t) -> Amount] :
        /\ d[0] = 0 /\ \A i \in 1..Len(t) : d[i] = AfterOp(S, d[i - 1], t[i])
        /\ TheirValue(S, t) = d[Len(t)]
  BY <1>1, TheirChain DEF TheirSteps
<1> DEFINE A == {i \in 0..n : c[i] = d[i]}
<1>4. 0 \in A
  BY <1>1, <1>2, <1>3
<1>5. ASSUME NEW i \in 1..n, i - 1 \in A PROVE i \in A
  <2>1. i \in 0..n /\ i \in 1..Len(t) /\ t[i] = s[i] /\ c[i - 1] = d[i - 1]
    BY <1>1, <1>5
  <2> QED BY <1>2, <1>3, <2>1
<1>6. 0..n \subseteq A
  <2> HIDE DEF A
  <2> QED BY <1>1, <1>4, <1>5, Upto
<1>7. c[n] = d[n]
  BY <1>1, <1>6
<1>8. d[n + 1] = AfterOp(S, d[n], op)
  <2>1. n + 1 \in 1..Len(t) /\ (n + 1) - 1 = n
    BY <1>1
  <2> QED BY <1>1, <1>3, <2>1
<1> QED BY <1>1, <1>2, <1>3, <1>7, <1>8 DEF t

-----------------------------------------------------------------------------
(* The invariant: a handle has its value, nothing is filed and nobody has  *)
(* called before a registration, and each value is what the calls for its  *)
(* labels amount to.                                                       *)
ValueTypes ==
    /\ filed \in BOOLEAN
    /\ data \in [LabelKeys -> Amount \cup {None}]
    /\ holds \in [Threads -> [storage : BOOLEAN, labels : LabelLists \cup {None}]]
    /\ ops \in Seq(Op)

HandlesOfStorage ==
    \A t \in Threads :
        /\ holds[t].storage => filed
        /\ holds[t].labels # None => holds[t].storage /\ data[LabelKey(holds[t].labels)] # None

NothingUnfiled == ~filed => ops = <<>> /\ \A k \in LabelKeys : data[k] = None

Accounted(l) ==
    IF data[LabelKey(l)] = None THEN \A i \in DOMAIN ops : ops[i].labels # ToSet(l)
    ELSE data[LabelKey(l)] = TheirValue(ToSet(l), ops)

ValueInv == ValueTypes /\ HandlesOfStorage /\ NothingUnfiled /\ \A l \in LabelLists : Accounted(l)

LEMMA KeysOfLabels ==
    /\ \A l \in LabelLists : LabelKey(l) \in LabelKeys
    /\ <<>> \in LabelLists /\ None \notin Amount
<1>1. \A l \in LabelLists : LabelKey(l) \in LabelKeys
  BY DEF LabelKeys
<1> QED BY <1>1, LabelsAssumption, AmountsAssumption DEF Amount

LEMMA ValueInit == MetricsInit => ValueInv
<1> SUFFICES ASSUME MetricsInit PROVE ValueInv
  OBVIOUS
<1>1. filed = FALSE /\ ops = <<>> /\ data = [k \in LabelKeys |-> None]
      /\ holds = [t \in Threads |-> NoSingle]
  BY DEF MetricsInit
<1>2. NoSingle \in [storage : BOOLEAN, labels : LabelLists \cup {None}]
      /\ NoSingle.storage = FALSE /\ NoSingle.labels = None
  BY DEF NoSingle
<1>3. ops \in Seq(Op) /\ DOMAIN ops = {}
  BY <1>1
<1>4. ValueTypes
  BY <1>1, <1>2, <1>3 DEF ValueTypes
<1>5. HandlesOfStorage
  BY <1>1, <1>2 DEF HandlesOfStorage
<1>6. NothingUnfiled
  BY <1>1 DEF NothingUnfiled
<1>7. \A l \in LabelLists : Accounted(l)
  <2> SUFFICES ASSUME NEW l \in LabelLists PROVE Accounted(l)
    OBVIOUS
  <2>1. data[LabelKey(l)] = None
    BY <1>1, KeysOfLabels
  <2> QED BY <1>3, <2>1 DEF Accounted
<1> QED BY <1>4, <1>5, <1>6, <1>7 DEF ValueInv

(* Whoever leaves the values and the history alone keeps the accounts.     *)
LEMMA AccountsStay ==
    ASSUME ValueInv, UNCHANGED <<data, ops>>
    PROVE  \A l \in LabelLists : Accounted(l)'
<1> SUFFICES ASSUME NEW l \in LabelLists PROVE Accounted(l)'
  OBVIOUS
<1>1. Accounted(l)
  BY DEF ValueInv
<1> QED BY <1>1 DEF Accounted

LEMMA RegisterKeepsValues ==
    ASSUME ValueInv, NEW t \in Threads, RegisterSingle(t)
    PROVE  ValueInv'
<1>1. /\ holds[t] = NoSingle /\ filed' = TRUE /\ data' = data /\ ops' = ops
      /\ holds' = [holds EXCEPT ![t].storage = TRUE]
  BY DEF RegisterSingle
<1>2. holds \in [Threads -> [storage : BOOLEAN, labels : LabelLists \cup {None}]]
  BY DEF ValueInv, ValueTypes
<1>3. /\ holds' \in [Threads -> [storage : BOOLEAN, labels : LabelLists \cup {None}]]
      /\ \A u \in Threads : holds'[u].labels = holds[u].labels
      /\ \A u \in Threads : holds[u].storage => holds'[u].storage
  BY <1>1, <1>2
<1>4. ValueTypes'
  BY <1>1, <1>3 DEF ValueInv, ValueTypes
<1>5. HandlesOfStorage'
  BY <1>1, <1>3 DEF ValueInv, HandlesOfStorage
<1>6. NothingUnfiled'
  BY <1>1 DEF NothingUnfiled
<1>7. \A l \in LabelLists : Accounted(l)'
  BY <1>1, AccountsStay
<1> QED BY <1>4, <1>5, <1>6, <1>7 DEF ValueInv

(* A handle finds the value for its labels, however they were written, or  *)
(* starts it at zero, which is what no calls amount to.                    *)
LEMMA NewKeepsValues ==
    ASSUME ValueInv, NEW t \in Threads, NEW labels \in LabelLists, holds[t].storage,
           NewSingle(t, labels)
    PROVE  ValueInv'
<1> DEFINE key == LabelKey(labels)
<1>1. /\ filed' = filed /\ ops' = ops
      /\ data' = [data EXCEPT ![key] = IF data[key] = None THEN 0 ELSE data[key]]
      /\ holds' = [holds EXCEPT ![t].labels = labels]
  BY DEF NewSingle, GetOrCreateDefault
<1>2. /\ holds \in [Threads -> [storage : BOOLEAN, labels : LabelLists \cup {None}]]
      /\ data \in [LabelKeys -> Amount \cup {None}] /\ filed \in BOOLEAN /\ ops \in Seq(Op)
      /\ HandlesOfStorage /\ NothingUnfiled
  BY DEF ValueInv, ValueTypes
<1>3. key \in LabelKeys /\ 0 \in Amount /\ None \notin Amount
  BY KeysOfLabels DEF Amount
<1>4. filed
  BY <1>2 DEF HandlesOfStorage
<1> HIDE DEF key
<1>5. /\ data' \in [LabelKeys -> Amount \cup {None}] /\ data'[key] # None
      /\ \A k \in LabelKeys : data[k] # None => data'[k] = data[k]
      /\ \A k \in LabelKeys : k # key => data'[k] = data[k]
      /\ data[key] = None => data'[key] = 0
  BY <1>1, <1>2, <1>3
<1>6. /\ holds' \in [Threads -> [storage : BOOLEAN, labels : LabelLists \cup {None}]]
      /\ \A u \in Threads : u # t => holds'[u] = holds[u]
      /\ holds'[t].labels = labels /\ holds'[t].storage = holds[t].storage
  BY <1>1, <1>2
<1>7. ValueTypes'
  BY <1>1, <1>2, <1>5, <1>6 DEF ValueTypes
<1>8. HandlesOfStorage'
  <2> SUFFICES ASSUME NEW u \in Threads
               PROVE  /\ holds'[u].storage => filed'
                      /\ holds'[u].labels # None =>
                            holds'[u].storage /\ data'[LabelKey(holds'[u].labels)] # None
    BY DEF HandlesOfStorage
  <2>1. CASE u = t
    BY <1>1, <1>4, <1>5, <1>6, <2>1 DEF key
  <2>2. CASE u # t
    <3>1. holds'[u] = holds[u]
      BY <1>6, <2>2
    <3>2. ASSUME holds[u].labels # None
          PROVE  holds[u].storage /\ data'[LabelKey(holds[u].labels)] # None
      <4>1. holds[u].labels \in LabelLists
        BY <1>2, <3>2
      <4>2. LabelKey(holds[u].labels) \in LabelKeys
        BY <4>1, KeysOfLabels
      <4>3. holds[u].storage /\ data[LabelKey(holds[u].labels)] # None
        BY <1>2, <3>2 DEF HandlesOfStorage
      <4> QED BY <1>5, <4>2, <4>3
    <3> QED BY <1>1, <1>4, <3>1, <3>2
  <2> QED BY <2>1, <2>2
<1>9. NothingUnfiled'
  BY <1>1, <1>4 DEF NothingUnfiled
<1>10. ASSUME NEW l \in LabelLists PROVE Accounted(l)'
  <2>1. Accounted(l) /\ LabelKey(l) \in LabelKeys
    BY KeysOfLabels DEF ValueInv
  <2>2. CASE data'[LabelKey(l)] = data[LabelKey(l)]
    BY <1>1, <2>1, <2>2 DEF Accounted
  <2>3. CASE LabelKey(l) = key /\ data[key] = None
    <3>1. \A i \in DOMAIN ops : ops[i].labels # ToSet(l)
      BY <2>1, <2>3 DEF Accounted
    <3>2. TheirValue(ToSet(l), ops) = 0
      BY <1>2, <3>1, NothingOfTheirs
    <3> QED BY <1>1, <1>5, <2>3, <3>2 DEF Accounted
  <2> QED BY <1>5, <2>1, <2>2, <2>3
<1> QED BY <1>7, <1>8, <1>9, <1>10 DEF ValueInv

(* A call changes the value for its labels by what it means and no other.  *)
LEMMA CallKeepsValues ==
    ASSUME ValueInv, NEW t \in Threads, holds[t].labels # None, NEW op \in Op,
           op.labels = ToSet(holds[t].labels), ops' = Append(ops, op),
           Updates(t, Meant(Value(t), op)), UNCHANGED <<filed, holds>>
    PROVE  ValueInv'
<1> DEFINE key == LabelKey(holds[t].labels)
           new == Meant(data[key], op)
<1>1. data' = [data EXCEPT ![key] = new]
  BY DEF Updates, Value
<1>2. /\ holds \in [Threads -> [storage : BOOLEAN, labels : LabelLists \cup {None}]]
      /\ data \in [LabelKeys -> Amount \cup {None}] /\ filed \in BOOLEAN /\ ops \in Seq(Op)
      /\ HandlesOfStorage /\ NothingUnfiled
  BY DEF ValueInv, ValueTypes
<1>3. holds[t].labels \in LabelLists
  BY <1>2
<1>4. key \in LabelKeys /\ data[key] # None /\ filed
  BY <1>2, <1>3, KeysOfLabels DEF HandlesOfStorage
<1>5. data[key] \in Amount
  BY <1>2, <1>4
<1>6. new \in Amount /\ new # None
  BY <1>5, MeantIs, KeysOfLabels
<1> HIDE DEF new
<1>7. key = LabelKey(holds[t].labels)
  OBVIOUS
<1> HIDE DEF key
<1>8. /\ data' \in [LabelKeys -> Amount \cup {None}] /\ data'[key] = new
      /\ \A k \in LabelKeys : k # key => data'[k] = data[k]
      /\ \A k \in LabelKeys : data[k] # None => data'[k] # None
  BY <1>1, <1>2, <1>4, <1>6
<1>9. ops' \in Seq(Op)
  BY <1>2
<1>10. ValueTypes'
  BY <1>2, <1>8, <1>9 DEF ValueTypes
<1>11. HandlesOfStorage'
  <2> SUFFICES ASSUME NEW u \in Threads
               PROVE  /\ holds[u].storage => filed
                      /\ holds[u].labels # None =>
                            holds[u].storage /\ data'[LabelKey(holds[u].labels)] # None
    BY DEF HandlesOfStorage
  <2>1. ASSUME holds[u].labels # None
        PROVE  holds[u].storage /\ data'[LabelKey(holds[u].labels)] # None
    <3>1. LabelKey(holds[u].labels) \in LabelKeys
      BY <1>2, <2>1, KeysOfLabels
    <3>2. holds[u].storage /\ data[LabelKey(holds[u].labels)] # None
      BY <1>2, <2>1 DEF HandlesOfStorage
    <3> QED BY <1>8, <3>1, <3>2
  <2> QED BY <1>4, <2>1
<1>12. NothingUnfiled'
  BY <1>4 DEF NothingUnfiled
<1>13. ASSUME NEW l \in LabelLists PROVE Accounted(l)'
  <2>1. Accounted(l) /\ LabelKey(l) \in LabelKeys
    BY KeysOfLabels DEF ValueInv
  <2>2. TheirValue(ToSet(l), ops') = AfterOp(ToSet(l), TheirValue(ToSet(l), ops), op)
    BY <1>2, OneOpMore
  <2>3. CASE LabelKey(l) = key
    <3>1. ToSet(l) = op.labels
      BY <1>3, <1>7, <2>3, SameLabels
    <3>2. data[key] = TheirValue(ToSet(l), ops)
      BY <1>4, <2>1, <2>3 DEF Accounted
    <3>3. TheirValue(ToSet(l), ops') = new
      BY <2>2, <3>1, <3>2 DEF AfterOp, new
    <3> QED BY <1>6, <1>8, <2>3, <3>3 DEF Accounted
  <2>4. CASE LabelKey(l) # key
    <3>1. ToSet(l) # op.labels
      BY <1>3, <1>7, <2>4, SameLabels
    <3>2. data'[LabelKey(l)] = data[LabelKey(l)]
      BY <1>8, <2>1, <2>4
    <3>3. TheirValue(ToSet(l), ops') = TheirValue(ToSet(l), ops)
      BY <2>2, <3>1 DEF AfterOp
    <3>4. ASSUME \A i \in DOMAIN ops : ops[i].labels # ToSet(l)
          PROVE  \A i \in DOMAIN ops' : ops'[i].labels # ToSet(l)
      <4>1. /\ DOMAIN ops' = 1..Len(ops) + 1 /\ DOMAIN ops = 1..Len(ops) /\ Len(ops) \in Nat
            /\ ops'[Len(ops) + 1] = op /\ \A i \in 1..Len(ops) : ops'[i] = ops[i]
        BY <1>2
      <4> QED BY <3>1, <3>4, <4>1
    <3> QED BY <2>1, <3>2, <3>3, <3>4 DEF Accounted
  <2> QED BY <2>3, <2>4
<1> QED BY <1>10, <1>11, <1>12, <1>13 DEF ValueInv

(* Each call means what it does to the value.                              *)
LEMMA CallsMean ==
    ASSUME ValueInv, NEW t \in Threads,
           \/ Increment(t) \/ Decrement(t)
           \/ \E v \in Amounts : IncrementBy(t, v) \/ Add(t, v) \/ Subtract(t, v) \/ Set(t, v)
    PROVE  ValueInv'
<1>1. Amounts \subseteq Amount /\ 0 \in Amount
  BY AmountsAssumption DEF Amount
<1> DEFINE op(call, v) == [labels |-> ToSet(holds[t].labels), call |-> call, v |-> v]
<1>2. /\ data \in [LabelKeys -> Amount \cup {None}]
      /\ holds \in [Threads -> [storage : BOOLEAN, labels : LabelLists \cup {None}]]
  BY DEF ValueInv, ValueTypes
<1>3. ASSUME NEW call, NEW v, Calls(t, call, v)
      PROVE  /\ holds[t].labels # None /\ ops' = Append(ops, op(call, v))
             /\ UNCHANGED <<filed, holds>>
  BY <1>3 DEF Calls
<1>4. ASSUME NEW call \in {"increment", "increment_by", "decrement", "add", "subtract", "set"},
             NEW v \in Amount, holds[t].labels # None
      PROVE  op(call, v) \in Op /\ op(call, v).labels = ToSet(holds[t].labels)
             /\ op(call, v).call = call /\ op(call, v).v = v
  <2>1. holds[t].labels \in LabelLists
    BY <1>2, <1>4
  <2> QED BY <1>4, <2>1 DEF Op
<1> HIDE DEF op
<1>5. ASSUME NEW call \in {"increment", "increment_by", "decrement", "add", "subtract", "set"},
             NEW v \in Amount, Calls(t, call, v), Updates(t, Meant(Value(t), op(call, v)))
      PROVE  ValueInv'
  BY <1>3, <1>4, <1>5, CallKeepsValues
<1>6. CASE Increment(t)
  <2>1. Calls(t, "increment", 0) /\ Updates(t, Plus(Value(t), 1000))
    BY <1>6 DEF Increment
  <2>2. Meant(Value(t), op("increment", 0)) = Plus(Value(t), 1000)
    BY <1>1, <1>3, <1>4, <2>1 DEF Meant
  <2> QED BY <1>1, <1>5, <2>1, <2>2
<1>7. CASE Decrement(t)
  <2>1. Calls(t, "decrement", 0) /\ Updates(t, Plus(Value(t), -1000))
    BY <1>7 DEF Decrement
  <2>2. Meant(Value(t), op("decrement", 0)) = Plus(Value(t), -1000)
    BY <1>1, <1>3, <1>4, <2>1 DEF Meant
  <2> QED BY <1>1, <1>5, <2>1, <2>2
<1>8. CASE \E v \in Amounts : Add(t, v)
  <2>1. PICK v \in Amounts : Calls(t, "add", v) /\ Updates(t, Plus(Value(t), v))
    BY <1>8 DEF Add
  <2>2. v \in Amount /\ Meant(Value(t), op("add", v)) = Plus(Value(t), v)
    BY <1>1, <1>3, <1>4, <2>1 DEF Meant
  <2> QED BY <1>5, <2>1, <2>2
<1>9. CASE \E v \in Amounts : Subtract(t, v)
  <2>1. PICK v \in Amounts : Calls(t, "subtract", v) /\ Updates(t, Plus(Value(t), Opposite(v)))
    BY <1>9 DEF Subtract
  <2>2. v \in Amount /\ Meant(Value(t), op("subtract", v)) = Plus(Value(t), Opposite(v))
    BY <1>1, <1>3, <1>4, <2>1 DEF Meant
  <2> QED BY <1>5, <2>1, <2>2
<1>10. CASE \E v \in Amounts : Set(t, v)
  <2>1. PICK v \in Amounts : Calls(t, "set", v) /\ Updates(t, v)
    BY <1>10 DEF Set
  <2>2. v \in Amount /\ Meant(Value(t), op("set", v)) = v
    BY <1>1, <1>3, <1>4, <2>1 DEF Meant
  <2> QED BY <1>5, <2>1, <2>2
<1>11. CASE \E v \in Amounts : IncrementBy(t, v)
  <2>1. PICK v \in Amounts :
          /\ Calls(t, "increment_by", v)
          /\ IF Negative(v) THEN UNCHANGED data ELSE Updates(t, Plus(Value(t), v))
    BY <1>11 DEF IncrementBy
  <2>2. v \in Amount /\ holds[t].labels # None
    BY <1>1, <1>3, <2>1
  <2>3. Meant(Value(t), op("increment_by", v))
          = IF Negative(v) THEN Value(t) ELSE Plus(Value(t), v)
    BY <1>4, <2>2 DEF Meant
  <2>4. LabelKey(holds[t].labels) \in LabelKeys
    BY <1>2, <2>2, KeysOfLabels
  <2>5. Updates(t, Meant(Value(t), op("increment_by", v)))
    BY <1>2, <2>1, <2>3, <2>4 DEF Updates, Value
  <2> QED BY <1>5, <2>1, <2>2, <2>5
<1> QED BY <1>6, <1>7, <1>8, <1>9, <1>10, <1>11

LEMMA ValueStays ==
    ASSUME ValueInv, UNCHANGED <<filed, data, holds, ops>>
    PROVE  ValueInv'
<1>1. ValueTypes'
  BY DEF ValueInv, ValueTypes
<1>2. HandlesOfStorage'
  BY DEF ValueInv, HandlesOfStorage
<1>3. NothingUnfiled'
  BY DEF ValueInv, NothingUnfiled
<1>4. \A l \in LabelLists : Accounted(l)'
  BY AccountsStay
<1> QED BY <1>1, <1>2, <1>3, <1>4 DEF ValueInv

LEMMA ValueNext == ValueInv /\ [MetricsNext]_<<vars, single>> => ValueInv'
<1> SUFFICES ASSUME ValueInv, [MetricsNext]_<<vars, single>> PROVE ValueInv'
  OBVIOUS
<1>1. ASSUME NEW t \in Threads, RegisterCounter(t) \/ RegisterGauge(t)
      PROVE  ValueInv'
  BY <1>1, RegisterKeepsValues DEF RegisterCounter, RegisterGauge
<1>2. ASSUME NEW t \in Threads,
             WithoutLabels(t) \/ (\E labels \in LabelLists : WithLabels(t, labels))
      PROVE  ValueInv'
  <2>1. PICK labels \in LabelLists :
          (holds[t].storage \/ holds[t].labels # None) /\ NewSingle(t, labels)
    BY <1>2, KeysOfLabels DEF WithoutLabels, WithLabels
  <2>2. holds[t].storage
    BY <2>1 DEF ValueInv, HandlesOfStorage
  <2> QED BY <2>1, <2>2, NewKeepsValues
<1>3. ASSUME NEW r \in Readers,
             GatherBegins(r) \/ GatherEnds(r) \/ (\E k \in LabelKeys : GatherLine(r, k))
      PROVE  ValueInv'
  BY <1>3, ValueStays DEF GatherBegins, GatherLine, GatherEnds
<1>4. CASE kind = "histogram" /\ Next /\ UNCHANGED single
  BY <1>4, ValueStays DEF single
<1>5. CASE SingleNext
  BY <1>1, <1>2, <1>3, <1>5, CallsMean DEF SingleNext
<1>6. CASE UNCHANGED <<vars, single>>
  BY <1>6, ValueStays DEF single
<1> QED BY <1>4, <1>5, <1>6 DEF MetricsNext

LEMMA ValuesFromInv == ValueInv => ValuesAddUp
<1> SUFFICES ASSUME ValueInv, NEW labels \in LabelLists
             PROVE  LET Theirs(op) == op.labels = ToSet(labels) IN
                    IF GetValue(labels) = None THEN \A i \in DOMAIN ops : ~Theirs(ops[i])
                    ELSE GetValue(labels) =
                      FoldLeft(LAMBDA value, op : IF Theirs(op) THEN Meant(value, op) ELSE value,
                               0, ops)
  BY Zenon DEF ValuesAddUp
<1>1. Accounted(labels) /\ LabelKey(labels) \in LabelKeys /\ NothingUnfiled
  BY KeysOfLabels DEF ValueInv
<1>2. GetValue(labels) = data[LabelKey(labels)]
  BY <1>1 DEF NothingUnfiled, GetValue
<1>3. IF GetValue(labels) = None THEN \A i \in DOMAIN ops : ops[i].labels # ToSet(labels)
      ELSE GetValue(labels) = TheirValue(ToSet(labels), ops)
  BY <1>1, <1>2 DEF Accounted
<1> QED BY Zenon, <1>3 DEF TheirValue

(* Whoever asks for the value of some labels, however he writes them, gets *)
(* what all calls through handles for these labels amount to, whichever    *)
(* threads made the handles and however they wrote the labels (LabelKey,   *)
(* get_or_create_default).                                                 *)
THEOREM ValuesAreTheCalls == MetricsSpec => []ValuesAddUp
<1>1. MetricsSpec => []ValueInv
  BY ValueInit, ValueNext, PTL DEF MetricsSpec
<1> QED BY <1>1, ValuesFromInv, PTL

-----------------------------------------------------------------------------
(* Gathering. The assumption about amounts is used from here on.           *)
USE AmountsAssumption

(* What a counter may be: none yet, a number, or a NaN for ever.           *)
Reading == Int \cup {NaN, None}
Counters == [LabelKeys -> Reading]

(* One value of a counter may have come before another.                    *)
AtMost(a, b) ==
    /\ a # None => b # None
    /\ a = NaN => b = NaN
    /\ a \in Int /\ b \in Int => a <= b

LEMMA AtMostIsOrder ==
    /\ \A a \in Reading : AtMost(a, a) /\ AtMost(None, a)
    /\ \A a, b, c \in Reading : AtMost(a, b) /\ AtMost(b, c) => AtMost(a, c)
BY DEF AtMost, Reading

(* The inductive invariant: a handle has its value, and at every moment of *)
(* a gathering the values it began with, those it has put down and those   *)
(* there are now are in this order.                                        *)
CounterTypes ==
    /\ data \in Counters
    /\ holds \in [Threads -> [storage : BOOLEAN, labels : LabelLists \cup {None}]]
    /\ text \in [Readers -> {NoText} \cup [lines : Counters, began : Counters]]

HandlesFiled ==
    \A t \in Threads : holds[t].labels # None => data[LabelKey(holds[t].labels)] # None

Ordered(r, k) ==
    text[r] # NoText =>
        /\ AtMost(text[r].began[k], data[k])
        /\ AtMost(text[r].lines[k], data[k])
        /\ text[r].lines[k] # None => AtMost(text[r].began[k], text[r].lines[k])

InOrder == \A r \in Readers, k \in LabelKeys : Ordered(r, k)

CounterInv == CounterTypes /\ HandlesFiled /\ InOrder

LEMMA KeysOfLists == \A labels \in LabelLists : LabelKey(labels) \in LabelKeys
BY DEF LabelKeys

(* Whatever a step does to the values of a counter, they do not go down.   *)
GoesUp == \A k \in LabelKeys : AtMost(data[k], data'[k])

LEMMA UpdateKeeps ==
    ASSUME CounterInv, data' \in Counters, GoesUp, text' = text,
           \A t \in Threads : holds'[t].labels # None
                => holds'[t].labels = holds[t].labels \/ data'[LabelKey(holds'[t].labels)] # None,
           holds' \in [Threads -> [storage : BOOLEAN, labels : LabelLists \cup {None}]]
    PROVE  CounterInv'
<1>1. CounterTypes'
  BY DEF CounterInv, CounterTypes
<1>2. HandlesFiled'
  <2> SUFFICES ASSUME NEW t \in Threads, holds'[t].labels # None
               PROVE  data'[LabelKey(holds'[t].labels)] # None
    BY DEF HandlesFiled
  <2>1. CASE data'[LabelKey(holds'[t].labels)] # None
    BY <2>1
  <2>2. CASE holds'[t].labels = holds[t].labels
    <3>1. LabelKey(holds[t].labels) \in LabelKeys /\ data[LabelKey(holds[t].labels)] # None
      BY <2>2, KeysOfLists DEF CounterInv, CounterTypes, HandlesFiled
    <3> QED BY <2>2, <3>1 DEF GoesUp, AtMost
  <2> QED BY <2>1, <2>2
<1>3. InOrder'
  <2> SUFFICES ASSUME NEW r \in Readers, NEW k \in LabelKeys, text[r] # NoText
               PROVE  /\ AtMost(text[r].began[k], data'[k])
                      /\ AtMost(text[r].lines[k], data'[k])
                      /\ text[r].lines[k] # None => AtMost(text[r].began[k], text[r].lines[k])
    BY DEF InOrder, Ordered
  <2>1. /\ text[r].began[k] \in Reading /\ text[r].lines[k] \in Reading
        /\ data[k] \in Reading /\ data'[k] \in Reading
    BY DEF CounterInv, CounterTypes, Counters
  <2>2. Ordered(r, k) /\ AtMost(data[k], data'[k])
    BY DEF CounterInv, InOrder, GoesUp
  <2> QED BY <2>1, <2>2, AtMostIsOrder DEF Ordered
<1> QED BY <1>1, <1>2, <1>3 DEF CounterInv

-----------------------------------------------------------------------------
LEMMA CounterInit == MetricsInit => CounterInv
<1> SUFFICES ASSUME MetricsInit PROVE CounterInv
  OBVIOUS
<1>1. CounterTypes
  BY DEF MetricsInit, CounterTypes, Counters, Reading, NoSingle
<1>2. HandlesFiled /\ InOrder
  BY DEF MetricsInit, HandlesFiled, NoSingle, InOrder, Ordered
<1> QED BY <1>1, <1>2 DEF CounterInv

(* A handle for labels finds the value or starts it at zero.               *)
LEMMA NewKeeps ==
    ASSUME CounterInv, NEW t \in Threads, NEW labels \in LabelLists, NewSingle(t, labels)
    PROVE  CounterInv'
<1>1. LabelKey(labels) \in LabelKeys /\ data \in Counters
  BY KeysOfLists DEF CounterInv, CounterTypes
<1>2. data' = [data EXCEPT ![LabelKey(labels)] = IF @ = None THEN 0 ELSE @] /\ text' = text
  BY DEF NewSingle, GetOrCreateDefault
<1>3. data' \in Counters /\ GoesUp /\ data'[LabelKey(labels)] # None
  BY <1>1, <1>2 DEF Counters, Reading, GoesUp, AtMost
<1>4. holds' = [holds EXCEPT ![t].labels = labels]
  BY DEF NewSingle
<1>5. holds' \in [Threads -> [storage : BOOLEAN, labels : LabelLists \cup {None}]]
  BY <1>4 DEF CounterInv, CounterTypes
<1>6. \A u \in Threads : u # t => holds'[u].labels = holds[u].labels
  BY <1>4 DEF CounterInv, CounterTypes
<1>7. holds'[t].labels = labels
  BY <1>4 DEF CounterInv, CounterTypes
<1> QED BY <1>2, <1>3, <1>5, <1>6, <1>7, UpdateKeeps

(* A call adds what is not negative, or a NaN.                             *)
LEMMA AddKeeps ==
    ASSUME CounterInv, NEW t \in Threads, NEW v \in Int \cup {NaN}, ~Negative(v),
           holds[t].labels # None, Updates(t, Plus(Value(t), v)), UNCHANGED <<holds, text>>
    PROVE  CounterInv'
<1> DEFINE key == LabelKey(holds[t].labels)
<1>1. key \in LabelKeys /\ data \in Counters /\ data[key] # None
  BY KeysOfLists DEF CounterInv, CounterTypes, HandlesFiled
<1>2. data[key] \in Int \cup {NaN}
  BY <1>1 DEF Counters, Reading
<1>3. data' = [data EXCEPT ![key] = Plus(data[key], v)]
  BY DEF Updates, Value
<1> HIDE DEF key
<1>4. Plus(data[key], v) \in Int \cup {NaN} /\ AtMost(data[key], Plus(data[key], v))
  BY <1>2 DEF Plus, AtMost, Negative
<1>5. data' \in Counters /\ GoesUp
  BY <1>1, <1>3, <1>4, AtMostIsOrder DEF Counters, Reading, GoesUp
<1>6. holds' \in [Threads -> [storage : BOOLEAN, labels : LabelLists \cup {None}]]
  BY DEF CounterInv, CounterTypes
<1> QED BY <1>5, <1>6, UpdateKeeps

(* The text takes up the values there are.                                 *)
LEMMA GatherKeeps ==
    ASSUME CounterInv, NEW r \in Readers, UNCHANGED <<data, holds>>,
           GatherBegins(r) \/ GatherEnds(r) \/ (\E k \in LabelKeys : GatherLine(r, k))
    PROVE  CounterInv'
<1>1. data \in Counters /\ text \in [Readers -> {NoText} \cup [lines : Counters, began : Counters]]
  BY DEF CounterInv, CounterTypes
<1>2. HandlesFiled'
  BY DEF CounterInv, HandlesFiled
<1>3. CASE GatherBegins(r)
  <2> DEFINE new == [lines |-> [k \in LabelKeys |-> None], began |-> data]
  <2>1. text' = [text EXCEPT ![r] = new] /\ new \in [lines : Counters, began : Counters]
    BY <1>1, <1>3 DEF GatherBegins, Counters, Reading
  <2>2. CounterTypes'
    BY <1>1, <2>1 DEF CounterInv, CounterTypes
  <2>3. \A k \in LabelKeys : new.lines[k] = None /\ new.began[k] = data[k] /\ data[k] \in Reading
    BY <1>1 DEF Counters
  <2> HIDE DEF new
  <2>4. InOrder'
    <3> SUFFICES ASSUME NEW q \in Readers, NEW k \in LabelKeys PROVE Ordered(q, k)'
      BY DEF InOrder
    <3>1. CASE q = r
      <4>1. text'[q] = new
        BY <1>1, <2>1, <3>1
      <4> QED BY <2>3, <4>1, AtMostIsOrder DEF Ordered
    <3>2. CASE q # r
      BY <1>1, <2>1, <3>2 DEF Ordered, CounterInv, InOrder
    <3> QED BY <3>1, <3>2
  <2> QED BY <1>2, <2>2, <2>4 DEF CounterInv
<1>4. CASE GatherEnds(r)
  <2>1. text' = [text EXCEPT ![r] = NoText]
    BY <1>4 DEF GatherEnds
  <2>2. CounterTypes'
    BY <1>1, <2>1 DEF CounterInv, CounterTypes
  <2>3. InOrder'
    BY <1>1, <2>1 DEF CounterInv, InOrder, Ordered
  <2> QED BY <1>2, <2>2, <2>3 DEF CounterInv
<1>5. ASSUME NEW n \in LabelKeys, GatherLine(r, n) PROVE CounterInv'
  <2>1. /\ text[r] # NoText /\ text' = [text EXCEPT ![r].lines[n] = data[n]]
        /\ text[r] \in [lines : Counters, began : Counters] /\ data[n] \in Reading
    BY <1>1, <1>5 DEF GatherLine, Counters
  <2>2. /\ text'[r] \in [lines : Counters, began : Counters]
        /\ text'[r].began = text[r].began /\ text'[r].lines = [text[r].lines EXCEPT ![n] = data[n]]
        /\ \A q \in Readers : q # r => text'[q] = text[q]
    BY <1>1, <2>1 DEF Counters
  <2>3. text' \in [Readers -> {NoText} \cup [lines : Counters, began : Counters]]
    BY <1>1, <2>1, <2>2
  <2>4. CounterTypes'
    BY <2>3 DEF CounterInv, CounterTypes
  <2>5. InOrder'
    <3> SUFFICES ASSUME NEW q \in Readers, NEW k \in LabelKeys PROVE Ordered(q, k)'
      BY DEF InOrder
    <3>1. Ordered(q, k)
      BY DEF CounterInv, InOrder
    <3>2. CASE q = r /\ k = n
      <4>1. text'[q].lines[k] = data[k] /\ text'[q].began[k] = text[q].began[k]
        BY <2>1, <2>2, <3>2 DEF Counters
      <4>2. AtMost(text[q].began[k], data[k])
        BY <2>1, <3>1, <3>2 DEF Ordered
      <4> QED BY <2>1, <3>2, <4>1, <4>2, AtMostIsOrder DEF Ordered
    <3>3. CASE q = r /\ k # n
      <4>1. text'[q].lines[k] = text[q].lines[k] /\ text'[q].began[k] = text[q].began[k]
        BY <2>1, <2>2, <3>3 DEF Counters
      <4> QED BY <2>1, <3>1, <3>3, <4>1 DEF Ordered
    <3>4. CASE q # r
      BY <2>2, <3>1, <3>4 DEF Ordered
    <3> QED BY <3>2, <3>3, <3>4
  <2> QED BY <1>2, <2>4, <2>5 DEF CounterInv
<1> QED BY <1>3, <1>4, <1>5

LEMMA CounterNext ==
    (kind = "counter" => CounterInv) /\ [MetricsNext]_<<vars, single>>
        => (kind = "counter" => CounterInv)'
<1> SUFFICES ASSUME kind = "counter" => CounterInv, [MetricsNext]_<<vars, single>>, kind' = "counter"
             PROVE  CounterInv'
  OBVIOUS
<1>1. kind = "counter" /\ CounterInv
  <2>1. CASE SingleNext
    <3>1. ASSUME NEW t \in Threads,
                 \/ RegisterCounter(t) \/ RegisterGauge(t) \/ WithoutLabels(t)
                 \/ \E labels \in LabelLists : WithLabels(t, labels)
          PROVE  kind' = kind
      <4>1. CASE RegisterCounter(t) \/ RegisterGauge(t)
        BY <4>1 DEF RegisterCounter, RegisterGauge, RegisterSingle
      <4>2. CASE WithoutLabels(t) \/ \E labels \in LabelLists : WithLabels(t, labels)
        BY <4>2 DEF WithoutLabels, WithLabels, NewSingle
      <4> QED BY <3>1, <4>1, <4>2
    <3>2. ASSUME NEW t \in Threads,
                 \/ Increment(t) \/ Decrement(t)
                 \/ \E v \in Amounts : IncrementBy(t, v) \/ Add(t, v) \/ Subtract(t, v) \/ Set(t, v)
          PROVE  kind' = kind
      <4>1. CASE Increment(t) \/ Decrement(t)
        BY <4>1 DEF Increment, Decrement, Calls
      <4>2. CASE \E v \in Amounts : IncrementBy(t, v) \/ Add(t, v) \/ Subtract(t, v) \/ Set(t, v)
        BY <4>2 DEF IncrementBy, Add, Subtract, Set, Calls
      <4> QED BY <3>2, <4>1, <4>2
    <3>3. ASSUME NEW r \in Readers,
                 GatherBegins(r) \/ (\E k \in LabelKeys : GatherLine(r, k)) \/ GatherEnds(r)
          PROVE  kind' = kind
      BY <3>3 DEF GatherBegins, GatherLine, GatherEnds
    <3> QED BY <2>1, <3>1, <3>2, <3>3 DEF SingleNext
  <2>2. CASE UNCHANGED single
    BY <2>2 DEF single
  <2> QED BY <2>1, <2>2 DEF MetricsNext
<1>2. CASE UNCHANGED <<data, holds, text>>
  BY <1>1, <1>2 DEF CounterInv, CounterTypes, HandlesFiled, InOrder, Ordered
<1>3. ASSUME NEW t \in Threads, RegisterCounter(t) PROVE CounterInv'
  <2>1. holds' = [holds EXCEPT ![t].storage = TRUE] /\ UNCHANGED <<data, text>>
    BY <1>3 DEF RegisterCounter, RegisterSingle
  <2>2. /\ holds' \in [Threads -> [storage : BOOLEAN, labels : LabelLists \cup {None}]]
        /\ \A u \in Threads : holds'[u].labels = holds[u].labels
    <3>1. holds \in [Threads -> [storage : BOOLEAN, labels : LabelLists \cup {None}]]
      BY <1>1 DEF CounterInv, CounterTypes
    <3>2. /\ holds'[t] = [holds[t] EXCEPT !.storage = TRUE]
          /\ \A u \in Threads : u # t => holds'[u] = holds[u]
      BY <2>1, <3>1
    <3>3. /\ [holds[t] EXCEPT !.storage = TRUE] \in [storage : BOOLEAN, labels : LabelLists \cup {None}]
          /\ [holds[t] EXCEPT !.storage = TRUE].labels = holds[t].labels
      BY <3>1
    <3> QED BY <2>1, <3>1, <3>2, <3>3
  <2>3. data' \in Counters /\ GoesUp
    BY <1>1, <2>1, AtMostIsOrder DEF CounterInv, CounterTypes, Counters, GoesUp
  <2> QED BY <1>1, <2>1, <2>2, <2>3, UpdateKeeps
<1>4. ASSUME NEW t \in Threads, WithoutLabels(t) PROVE CounterInv'
  BY <1>1, <1>4, NewKeeps, KeysOfLabels DEF WithoutLabels
<1>5. ASSUME NEW t \in Threads, NEW labels \in LabelLists, WithLabels(t, labels) PROVE CounterInv'
  BY <1>1, <1>5, NewKeeps DEF WithLabels
<1>6. ASSUME NEW t \in Threads, Increment(t) PROVE CounterInv'
  <2>1. ~Negative(1000)
    BY DEF Negative
  <2>2. holds[t].labels # None /\ Updates(t, Plus(Value(t), 1000)) /\ UNCHANGED <<holds, text>>
    BY <1>6 DEF Increment, Calls
  <2> QED BY <1>1, <2>1, <2>2, AddKeeps
<1>7. ASSUME NEW t \in Threads, NEW v \in Amounts, IncrementBy(t, v) PROVE CounterInv'
  <2>1. holds[t].labels # None /\ UNCHANGED <<holds, text>> /\ v \in Int \cup {NaN}
    BY <1>7 DEF IncrementBy, Calls
  <2>2. CASE Negative(v)
    BY <1>2, <1>7, <2>1, <2>2 DEF IncrementBy
  <2>3. CASE ~Negative(v)
    <3>1. Updates(t, Plus(Value(t), v))
      BY <1>7, <2>3 DEF IncrementBy
    <3> QED BY <1>1, <2>1, <2>3, <3>1, AddKeeps
  <2> QED BY <2>2, <2>3
<1>8. ASSUME NEW r \in Readers,
             GatherBegins(r) \/ GatherEnds(r) \/ (\E k \in LabelKeys : GatherLine(r, k))
      PROVE  CounterInv'
  <2>1. UNCHANGED <<data, holds>>
    BY <1>8 DEF GatherBegins, GatherEnds, GatherLine
  <2> QED BY <1>1, <1>8, <2>1, GatherKeeps
<1>9. CASE Next /\ UNCHANGED single
  BY <1>2, <1>9 DEF single
<1>10. CASE UNCHANGED <<vars, single>>
  BY <1>2, <1>10 DEF single
<1>11. ASSUME NEW t \in Threads, NEW v \in Amounts,
              Add(t, v) \/ Subtract(t, v) \/ Set(t, v)
       PROVE  CounterInv'
  BY <1>1, <1>11 DEF Add, Subtract, Set
<1>12. ASSUME NEW t \in Threads, RegisterGauge(t) \/ Decrement(t) PROVE CounterInv'
  BY <1>1, <1>12 DEF RegisterGauge, Decrement
<1> QED BY <1>3, <1>4, <1>5, <1>6, <1>7, <1>8, <1>9, <1>10, <1>11, <1>12 DEF MetricsNext, SingleNext

(* The gathered text has, for every counter, a value from the time of the  *)
(* gathering: increments and new handles of any number of threads never    *)
(* make a counter go down, and a NaN stays.                                *)
THEOREM CountersGatheredInTime == MetricsSpec => []GatheredInTime
<1>1. MetricsInit => (kind = "counter" => CounterInv)
  BY CounterInit
<1>2. (kind = "counter" => CounterInv) => GatheredInTime
  <2> SUFFICES ASSUME CounterInv, NEW r \in Readers, text[r] # NoText, NEW k \in LabelKeys,
                      text[r].lines[k] # None
               PROVE  LET line  == text[r].lines[k]
                          began == text[r].began[k]
                      IN  /\ line = NaN => data[k] = NaN
                          /\ began = NaN => line = NaN
                          /\ line # NaN /\ data[k] # NaN => line <= data[k]
                          /\ line # NaN /\ began # None => began <= line
    BY DEF GatheredInTime
  <2>1. text[r].began[k] \in Reading /\ text[r].lines[k] \in Reading /\ data[k] \in Reading
    BY DEF CounterInv, CounterTypes, Counters
  <2>2. Ordered(r, k)
    BY DEF CounterInv, InOrder
  <2> QED BY <2>1, <2>2 DEF Ordered, AtMost, Reading
<1> QED BY <1>1, <1>2, CounterNext, PTL DEF MetricsSpec
=============================================================================
