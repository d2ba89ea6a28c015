--------------------------- MODULE SequenceCounts ---------------------------
(***************************************************************************)
(* How often the values of a set occur in a sequence, and what the         *)
(* operations on queues do to that number.                                 *)
(***************************************************************************)
EXTENDS Naturals, Sequences, FiniteSets, FiniteSetTheorems, FunctionTheorems, TLAPS

PositionsOf(seq, V) == {i \in 1..Len(seq) : seq[i] \in V}

CountOf(seq, V) == Cardinality(PositionsOf(seq, V))

\* A count is a number.
LEMMA CountType ==
    ASSUME NEW S, NEW seq \in Seq(S), NEW V
    PROVE  IsFiniteSet(PositionsOf(seq, V)) /\ CountOf(seq, V) \in Nat
<1>1. IsFiniteSet(1..Len(seq))
  BY FS_Interval
<1>2. PositionsOf(seq, V) \in SUBSET (1..Len(seq))
  BY DEF PositionsOf
<1>3. IsFiniteSet(PositionsOf(seq, V))
  BY <1>1, <1>2, FS_Subset
<1>4. QED  BY <1>3, FS_CardinalityType DEF CountOf

\* Nothing is counted in the empty sequence.
LEMMA CountEmpty == \A V : CountOf(<<>>, V) = 0
<1>1. ASSUME NEW V PROVE CountOf(<<>>, V) = 0
  <2>1. PositionsOf(<<>>, V) = {}
    BY DEF PositionsOf
  <2>2. QED  BY <2>1, FS_EmptySet DEF CountOf
<1>2. QED  BY <1>1

\* Nothing of V is in the sequence exactly if it is at no position.
LEMMA CountZero ==
    ASSUME NEW S, NEW seq \in Seq(S), NEW V
    PROVE  CountOf(seq, V) = 0 <=> \A i \in 1..Len(seq) : seq[i] \notin V
<1>1. IsFiniteSet(PositionsOf(seq, V))
  BY CountType
<1>2. CountOf(seq, V) = 0 <=> PositionsOf(seq, V) = {}
  BY <1>1, FS_EmptySet DEF CountOf
<1>3. QED  BY <1>2 DEF PositionsOf

\* Appending an element counts it.
LEMMA CountAppend ==
    ASSUME NEW S, NEW seq \in Seq(S), NEW x \in S, NEW V
    PROVE  CountOf(Append(seq, x), V) = CountOf(seq, V) + (IF x \in V THEN 1 ELSE 0)
<1> DEFINE n == Len(seq)
           longer == Append(seq, x)
<1>1. /\ n \in Nat /\ Len(longer) = n + 1 /\ longer[n + 1] = x
      /\ \A i \in 1..n : longer[i] = seq[i]
  OBVIOUS
<1>2. IsFiniteSet(PositionsOf(seq, V)) /\ CountOf(seq, V) \in Nat
  BY CountType
<1> HIDE DEF longer, n
<1>3. n + 1 \notin PositionsOf(seq, V)
  BY <1>1 DEF PositionsOf, n
<1>4. CASE x \in V
  <2>1. PositionsOf(longer, V) = PositionsOf(seq, V) \cup {n + 1}
    BY <1>1, <1>4 DEF PositionsOf, n
  <2>2. QED  BY <1>2, <1>3, <1>4, <2>1, FS_AddElement DEF CountOf, longer
<1>5. CASE x \notin V
  <2>1. PositionsOf(longer, V) = PositionsOf(seq, V)
    BY <1>1, <1>5 DEF PositionsOf, n
  <2>2. QED  BY <1>2, <1>5, <2>1 DEF CountOf, longer
<1>6. QED  BY <1>4, <1>5

\* Taking the head takes its count.
LEMMA CountTail ==
    ASSUME NEW S, NEW seq \in Seq(S), seq # <<>>, NEW V
    PROVE  CountOf(seq, V) = CountOf(Tail(seq), V) + (IF Head(seq) \in V THEN 1 ELSE 0)
<1> DEFINE n == Len(seq)
           rest == Tail(seq)
           Later == {i \in 2..n : seq[i] \in V}
<1>1. /\ n \in Nat \ {0} /\ rest \in Seq(S) /\ Len(rest) = n - 1
      /\ Head(seq) = seq[1]
      /\ \A i \in 1..(n - 1) : rest[i] = seq[i + 1]
  OBVIOUS
<1>2. IsFiniteSet(PositionsOf(rest, V)) /\ CountOf(rest, V) \in Nat
  BY <1>1, CountType
<1> HIDE DEF rest, n
\* Dropping the head moves every other position down by one.
<1>3. IsFiniteSet(Later) /\ Cardinality(Later) = CountOf(rest, V)
  <2> DEFINE up == [i \in PositionsOf(rest, V) |-> i + 1]
  <2>1. up \in [PositionsOf(rest, V) -> Later]
    BY <1>1 DEF PositionsOf
  <2>2. \A i, j \in PositionsOf(rest, V) : up[i] = up[j] => i = j
    BY <1>1 DEF PositionsOf
  <2>3. \A k \in Later : \E i \in PositionsOf(rest, V) : up[i] = k
    <3> SUFFICES ASSUME NEW k \in Later
                 PROVE  k - 1 \in PositionsOf(rest, V) /\ up[k - 1] = k
      OBVIOUS
    <3>1. k \in 2..n /\ seq[k] \in V
      OBVIOUS
    <3>2. k - 1 \in 1..(n - 1) /\ (k - 1) + 1 = k
      BY <1>1, <3>1
    <3>3. rest[k - 1] = seq[k]
      BY <1>1, <3>2
    <3>4. k - 1 \in PositionsOf(rest, V)
      BY <1>1, <3>1, <3>2, <3>3 DEF PositionsOf
    <3>5. QED  BY <3>2, <3>4
  <2> HIDE DEF up, Later
  <2>4. up \in Bijection(PositionsOf(rest, V), Later)
    BY <2>1, <2>2, <2>3 DEF Bijection, Injection, Surjection, IsInjective
  <2>5. ExistsBijection(PositionsOf(rest, V), Later)
    BY <2>4 DEF ExistsBijection
  <2>6. QED  BY <1>2, <2>5, FS_Bijection DEF CountOf
<1>4. 1 \notin Later
  BY <1>1
<1>5. CASE Head(seq) \in V
  <2>1. PositionsOf(seq, V) = Later \cup {1}
    BY <1>1, <1>5 DEF PositionsOf, n
  <2> HIDE DEF Later
  <2>2. QED  BY <1>2, <1>3, <1>4, <1>5, <2>1, FS_AddElement DEF CountOf, rest
<1>6. CASE Head(seq) \notin V
  <2>1. PositionsOf(seq, V) = Later
    BY <1>1, <1>6 DEF PositionsOf, n
  <2> HIDE DEF Later
  <2>2. QED  BY <1>2, <1>3, <1>6, <2>1 DEF CountOf, rest
<1>7. QED  BY <1>5, <1>6

\* A position of the second of two sequences comes after all those of the first.
LEMMA CountConcat ==
    ASSUME NEW S, NEW a \in Seq(S), NEW b \in Seq(S), NEW V
    PROVE  CountOf(a \o b, V) = CountOf(a, V) + CountOf(b, V)
<1> DEFINE m == Len(a)
           n == Len(b)
           both == a \o b
           Later == {i \in (m + 1)..(m + n) : both[i] \in V}
<1>1. /\ m \in Nat /\ n \in Nat /\ Len(both) = m + n
      /\ \A i \in 1..m : both[i] = a[i]
      /\ \A i \in (m + 1)..(m + n) : both[i] = b[i - m]
  OBVIOUS
<1>2. /\ IsFiniteSet(PositionsOf(a, V)) /\ CountOf(a, V) \in Nat
      /\ IsFiniteSet(PositionsOf(b, V)) /\ CountOf(b, V) \in Nat
  BY CountType
<1> HIDE DEF both, m, n
<1>3. IsFiniteSet(Later) /\ Cardinality(Later) = CountOf(b, V)
  <2> DEFINE up == [i \in PositionsOf(b, V) |-> i + m]
  <2>1. up \in [PositionsOf(b, V) -> Later]
    <3> SUFFICES ASSUME NEW i \in PositionsOf(b, V) PROVE i + m \in Later
      OBVIOUS
    <3>1. i \in 1..n /\ b[i] \in V
      BY DEF PositionsOf, n
    <3>2. i + m \in (m + 1)..(m + n) /\ (i + m) - m = i
      BY <1>1, <3>1
    <3> QED
      BY <1>1, <3>1, <3>2
  <2>2. \A i, j \in PositionsOf(b, V) : up[i] = up[j] => i = j
    BY <1>1 DEF PositionsOf, n
  <2>3. \A k \in Later : \E i \in PositionsOf(b, V) : up[i] = k
    <3> SUFFICES ASSUME NEW k \in Later
                 PROVE  k - m \in PositionsOf(b, V) /\ up[k - m] = k
      OBVIOUS
    <3>1. k \in (m + 1)..(m + n) /\ both[k] \in V
      OBVIOUS
    <3>2. k - m \in 1..n /\ (k - m) + m = k
      BY <1>1, <3>1
    <3>3. k - m \in PositionsOf(b, V)
      BY <1>1, <3>1, <3>2 DEF PositionsOf, n
    <3> QED
      BY <3>2, <3>3
  <2> HIDE DEF up, Later
  <2>4. up \in Bijection(PositionsOf(b, V), Later)
    BY <2>1, <2>2, <2>3 DEF Bijection, Injection, Surjection, IsInjective
  <2>5. ExistsBijection(PositionsOf(b, V), Later)
    BY <2>4 DEF ExistsBijection
  <2> QED
    BY <1>2, <2>5, FS_Bijection DEF CountOf
<1>4. PositionsOf(both, V) = PositionsOf(a, V) \cup Later
  BY <1>1 DEF PositionsOf, m
<1>5. PositionsOf(a, V) \cap Later = {}
  BY <1>1 DEF PositionsOf, m
<1> HIDE DEF Later
<1>6. Cardinality(PositionsOf(a, V) \cup Later)
        = Cardinality(PositionsOf(a, V)) + Cardinality(Later) - Cardinality({})
  BY <1>2, <1>3, <1>5, FS_Union
<1>7. QED  BY <1>2, <1>3, <1>4, <1>6, FS_EmptySet DEF CountOf, both

\* A sequence without repetitions has each of its values once.
LEMMA CountOnce ==
    ASSUME NEW S, NEW seq \in Seq(S), \A i, j \in 1..Len(seq) : seq[i] = seq[j] => i = j, NEW x
    PROVE  CountOf(seq, {x}) = IF \E i \in 1..Len(seq) : seq[i] = x THEN 1 ELSE 0
<1>1. CASE \E i \in 1..Len(seq) : seq[i] = x
  <2>1. PICK i \in 1..Len(seq) : seq[i] = x
    BY <1>1
  <2>2. PositionsOf(seq, {x}) = {i}
    BY <2>1 DEF PositionsOf
  <2>3. QED  BY <1>1, <2>2, FS_Singleton DEF CountOf
<1>2. CASE ~\E i \in 1..Len(seq) : seq[i] = x
  <2>1. PositionsOf(seq, {x}) = {}
    BY <1>2 DEF PositionsOf
  <2>2. QED  BY <1>2, <2>1, FS_EmptySet DEF CountOf
<1>3. QED  BY <1>1, <1>2

-----------------------------------------------------------------------------
(* Ranks: how many come before *)

Before(K, R, i) == {j \in K : <<j, i>> \in R}
Rank(K, R, i) == Cardinality(Before(K, R, i))

\* R puts the members of K in one line.
OrdersAll(K, R) ==
    /\ \A i, j \in K : i # j => <<i, j>> \in R \/ <<j, i>> \in R
    /\ \A i \in K : <<i, i>> \notin R
    /\ \A i, j, k \in K : <<i, j>> \in R /\ <<j, k>> \in R => <<i, k>> \in R

\* In a line the ranks are 0, 1 and so on, each once.
LEMMA Ranks ==
    ASSUME NEW K, IsFiniteSet(K), NEW R, OrdersAll(K, R)
    PROVE  /\ Cardinality(K) \in Nat
           /\ \A i \in K : Rank(K, R, i) \in 0..(Cardinality(K) - 1)
           /\ \A i, j \in K : <<i, j>> \in R <=> Rank(K, R, i) < Rank(K, R, j)
           /\ \A i, j \in K : Rank(K, R, i) = Rank(K, R, j) => i = j
           /\ \A n \in 0..(Cardinality(K) - 1) : \E i \in K : Rank(K, R, i) = n
<1> DEFINE size == Cardinality(K)
           rank == [i \in K |-> Rank(K, R, i)]
<1>1. size \in Nat
  BY FS_CardinalityType
<1>2. ASSUME NEW i \in K
      PROVE  /\ IsFiniteSet(Before(K, R, i)) /\ Rank(K, R, i) \in Nat
             /\ Rank(K, R, i) < size
  <2>1. Before(K, R, i) \in SUBSET K /\ Before(K, R, i) # K
    BY DEF Before, OrdersAll
  <2>2. IsFiniteSet(Before(K, R, i)) /\ Cardinality(Before(K, R, i)) <= size
        /\ size # Cardinality(Before(K, R, i))
    BY <2>1, FS_Subset
  <2>3. QED  BY <1>1, <2>2, FS_CardinalityType DEF Rank
<1>3. ASSUME NEW i \in K, NEW j \in K, <<i, j>> \in R
      PROVE  Rank(K, R, i) < Rank(K, R, j)
  <2>1. Before(K, R, i) \in SUBSET Before(K, R, j) /\ Before(K, R, i) # Before(K, R, j)
    BY <1>3 DEF Before, OrdersAll
  <2>2. Cardinality(Before(K, R, i)) <= Cardinality(Before(K, R, j))
        /\ Cardinality(Before(K, R, i)) # Cardinality(Before(K, R, j))
    BY <1>2, <2>1, FS_Subset
  <2>3. QED  BY <1>2, <2>2 DEF Rank
<1>4. \A i, j \in K : <<i, j>> \in R <=> Rank(K, R, i) < Rank(K, R, j)
  <2> SUFFICES ASSUME NEW i \in K, NEW j \in K, Rank(K, R, i) < Rank(K, R, j)
               PROVE  <<i, j>> \in R
    BY <1>3
  <2>1. Rank(K, R, i) \in Nat /\ Rank(K, R, j) \in Nat
    BY <1>2
  <2>2. i # j /\ <<j, i>> \notin R
    BY <1>3, <2>1
  <2>3. QED  BY <2>2 DEF OrdersAll
<1>5. \A i, j \in K : Rank(K, R, i) = Rank(K, R, j) => i = j
  <2> SUFFICES ASSUME NEW i \in K, NEW j \in K, i # j
               PROVE  Rank(K, R, i) # Rank(K, R, j)
    OBVIOUS
  <2>1. Rank(K, R, i) \in Nat /\ Rank(K, R, j) \in Nat
    BY <1>2
  <2>2. <<i, j>> \in R \/ <<j, i>> \in R
    BY DEF OrdersAll
  <2>3. QED  BY <1>3, <2>1, <2>2
<1>6. \A i \in K : Rank(K, R, i) \in 0..(size - 1)
  BY <1>1, <1>2
<1>7. IsFiniteSet(0..(size - 1)) /\ Cardinality(0..(size - 1)) = size
  BY <1>1, FS_Interval
<1>8. rank \in Injection(K, 0..(size - 1))
  BY <1>5, <1>6 DEF Injection, IsInjective
<1> HIDE DEF rank
<1>9. rank \in Surjection(K, 0..(size - 1))
  BY <1>7, <1>8, FS_Injection
<1>10. \A n \in 0..(size - 1) : \E i \in K : Rank(K, R, i) = n
  BY <1>9 DEF Surjection, rank
<1>11. QED  BY <1>1, <1>4, <1>5, <1>6, <1>10

\* The first n in line are n, when there are as many.
LEMMA FirstInLine ==
    ASSUME NEW K, IsFiniteSet(K), NEW R, OrdersAll(K, R), NEW n \in Nat
    PROVE  /\ IsFiniteSet({i \in K : Rank(K, R, i) < n})
           /\ n <= Cardinality(K) => Cardinality({i \in K : Rank(K, R, i) < n}) = n
           /\ n >= Cardinality(K) => {i \in K : Rank(K, R, i) < n} = K
<1> DEFINE First == {i \in K : Rank(K, R, i) < n}
           rank == [i \in First |-> Rank(K, R, i)]
<1>1. /\ Cardinality(K) \in Nat
      /\ \A i \in K : Rank(K, R, i) \in 0..(Cardinality(K) - 1)
      /\ \A i, j \in K : Rank(K, R, i) = Rank(K, R, j) => i = j
      /\ \A k \in 0..(Cardinality(K) - 1) : \E i \in K : Rank(K, R, i) = k
  BY Ranks
<1>2. IsFiniteSet(First)
  BY FS_Subset
<1>3. ASSUME n <= Cardinality(K) PROVE Cardinality(First) = n
  <2>1. rank \in [First -> 0..(n - 1)]
    BY <1>1
  <2>2. \A i, j \in First : rank[i] = rank[j] => i = j
    BY <1>1
  <2>3. \A k \in 0..(n - 1) : \E i \in First : rank[i] = k
    <3> SUFFICES ASSUME NEW k \in 0..(n - 1) PROVE \E i \in First : Rank(K, R, i) = k
      OBVIOUS
    <3>1. k \in 0..(Cardinality(K) - 1) /\ k < n
      BY <1>1, <1>3
    <3>2. PICK i \in K : Rank(K, R, i) = k
      BY <1>1, <3>1
    <3>3. QED  BY <3>1, <3>2
  <2> HIDE DEF rank, First
  <2>4. rank \in Bijection(First, 0..(n - 1))
    BY <2>1, <2>2, <2>3 DEF Bijection, Injection, Surjection, IsInjective
  <2>5. Cardinality(0..(n - 1)) = Cardinality(First)
    BY <1>2, <2>4, FS_Bijection DEF ExistsBijection
  <2>6. QED  BY <2>5, FS_Interval
<1>4. ASSUME n >= Cardinality(K) PROVE First = K
  BY <1>1, <1>4
<1>5. QED  BY <1>2, <1>3, <1>4

NumberOrder == {x \in Nat \X Nat : x[1] < x[2]}

\* The numbers themselves are in a line.
LEMMA NumbersInLine ==
    ASSUME NEW K, K \subseteq Nat
    PROVE  /\ OrdersAll(K, NumberOrder)
           /\ \A i \in K : Before(K, NumberOrder, i) = {j \in K : j < i}
<1>1. \A i, j \in K : <<i, j>> \in NumberOrder <=> i < j
  BY DEF NumberOrder
<1>2. \A i \in K : i \in Nat
  OBVIOUS
<1>3. \A i, j, k \in K : <<i, j>> \in NumberOrder /\ <<j, k>> \in NumberOrder
                           => <<i, k>> \in NumberOrder
  BY <1>1, <1>2
<1>4. \A i, j \in K : i # j => <<i, j>> \in NumberOrder \/ <<j, i>> \in NumberOrder
  BY <1>1, <1>2
<1>5. \A i \in K : <<i, i>> \notin NumberOrder
  BY <1>1, <1>2
<1>6. OrdersAll(K, NumberOrder)
  BY <1>3, <1>4, <1>5 DEF OrdersAll
<1>7. ASSUME NEW i \in K PROVE Before(K, NumberOrder, i) = {j \in K : j < i}
  BY <1>1 DEF Before
<1>8. QED  BY <1>6, <1>7
=============================================================================
