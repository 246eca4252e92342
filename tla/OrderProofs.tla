---------------------------- MODULE OrderProofs ----------------------------
(***************************************************************************)
(* What the operators of Order return for every finite set of numbers, and *)
(* the least element that arguments by induction over numbers rest on.     *)
(***************************************************************************)
EXTENDS Order, Sequences, FiniteSetTheorems, SequenceTheorems, WellFoundedInduction, TLAPS

Items(out)   == {out[i] : i \in DOMAIN out}
Ascends(out) == \A i, j \in DOMAIN out : i < j => out[i] < out[j]

(* A set of natural numbers that is not empty has a least element.           *)
LEMMA LeastExists ==
  ASSUME NEW S, S \subseteq Nat, S # {}
  PROVE  \E x \in S : \A y \in S : x <= y
<1> DEFINE Less == {p \in Nat \X Nat : p[1] < p[2]}
<1>1. IsWellFoundedOn(Less, Nat)
  <2>1. Less = OpToRel(<, Nat)
    BY DEF OpToRel
  <2> QED BY <2>1, NatLessThanWellFounded
<1>2. PICK x \in S : \A y \in S : ~(<<y, x>> \in Less)
  <2> HIDE DEF Less
  <2> QED BY <1>1, WFMin
<1>3. ASSUME NEW y \in S PROVE x <= y
  <2>1. <<y, x>> \in Nat \X Nat /\ <<y, x>>[1] = y /\ <<y, x>>[2] = x
    OBVIOUS
  <2>2. ~(y < x)
    BY <1>2, <2>1
  <2> QED BY <2>2
<1> QED BY <1>3

----------------------------------------------------------------------------
(* Ranks follow the order.                                                  *)
LEMMA RankFacts ==
  ASSUME NEW S \in SUBSET Nat, IsFiniteSet(S), NEW x \in S
  PROVE  /\ Rank(S, x) \in 1..Cardinality(S)
         /\ \A y \in S : x < y => Rank(S, x) < Rank(S, y)
         /\ Cardinality(Above(S, x)) = Cardinality(S) - Rank(S, x) + 1
<1>0. \A y \in S : y \in Nat
  OBVIOUS
<1>1. \A y \in S : IsFiniteSet(Below(S, y)) /\ Rank(S, y) \in Nat /\ Rank(S, y) <= Cardinality(S)
  <2> TAKE y \in S
  <2>1. Below(S, y) \in SUBSET S
    BY DEF Below
  <2> QED BY <2>1, FS_Subset, FS_CardinalityType DEF Rank
<1>2. Cardinality(S) \in Nat
  BY FS_CardinalityType
<1>3. Rank(S, x) # 0
  <2>1. x \in Below(S, x)
    BY DEF Below
  <2> QED BY <1>1, <2>1, FS_EmptySet DEF Rank
<1>4. ASSUME NEW y \in S, x < y PROVE Rank(S, x) < Rank(S, y)
  <2>0. x \in Nat /\ y \in Nat
    BY <1>0
  <2>1. Below(S, x) \in SUBSET Below(S, y) /\ y \in Below(S, y) /\ y \notin Below(S, x)
    <3>1. \A k \in S : k <= x => k <= y
      BY <1>0, <1>4, <2>0
    <3>2. y <= y /\ ~(y <= x)
      BY <1>4, <2>0
    <3> QED BY <3>1, <3>2 DEF Below
  <2>2. Rank(S, x) <= Rank(S, y) /\ Rank(S, x) # Rank(S, y)
    BY <1>1, <2>1, FS_Subset DEF Rank
  <2> QED BY <1>1, <2>2
<1>5. Cardinality(Above(S, x)) = Cardinality(S) - Rank(S, x) + 1
  <2>1. /\ Above(S, x) \in SUBSET S /\ Below(S, x) \in SUBSET S
        /\ Above(S, x) \cup Below(S, x) = S /\ Above(S, x) \cap Below(S, x) = {x}
    <3>1. \A k \in S : (k >= x \/ k <= x) /\ (k >= x /\ k <= x <=> k = x)
      BY <1>0
    <3> QED BY <3>1 DEF Above, Below
  <2>2. IsFiniteSet(Above(S, x)) /\ Cardinality(Above(S, x)) \in Nat
    BY <2>1, FS_Subset, FS_CardinalityType
  <2>3. Cardinality(S) = Cardinality(Above(S, x)) + Rank(S, x) - 1
    <3>1. /\ IsFiniteSet(Below(S, x)) /\ Rank(S, x) \in Nat
          /\ Cardinality(S) = Cardinality(Above(S, x)) + Cardinality(Below(S, x)) - Cardinality({x})
      BY <1>1, <2>1, <2>2, FS_Union
    <3> QED BY <2>2, <3>1, FS_Singleton DEF Rank
  <2> QED BY <1>1, <1>2, <2>2, <2>3
<1> QED BY <1>1, <1>2, <1>3, <1>4, <1>5

(* Every rank is that of one element.                                       *)
LEMMA RanksTaken ==
  ASSUME NEW S \in SUBSET Nat, IsFiniteSet(S), NEW n \in 1..Cardinality(S)
  PROVE  \E x \in S : Rank(S, x) = n
<1> DEFINE f == [x \in S |-> Rank(S, x)]
           N == 1..Cardinality(S)
<1>1. Cardinality(S) \in Nat
  BY FS_CardinalityType
<1>2. IsFiniteSet(N) /\ Cardinality(N) = Cardinality(S)
  BY <1>1, FS_Interval
<1>3. f \in [S -> N]
  BY RankFacts
<1>4. \A x, y \in S : f[x] = f[y] => x = y
  <2> SUFFICES ASSUME NEW x \in S, NEW y \in S, x # y PROVE f[x] # f[y]
    OBVIOUS
  <2>1. Rank(S, x) \in Nat /\ Rank(S, y) \in Nat
    BY RankFacts
  <2>2. x < y \/ y < x
    OBVIOUS
  <2> QED BY <2>1, <2>2, RankFacts
<1>5. f \in Injection(S, N)
  BY <1>3, <1>4 DEF Injection, IsInjective
<1>6. f \in Surjection(S, N)
  <2> HIDE DEF f, N
  <2> QED BY <1>2, <1>5, FS_Injection
<1> QED BY <1>6 DEF Surjection

(* A set in order.                                                          *)
LEMMA InOrderFacts ==
  ASSUME NEW S \in SUBSET Nat, IsFiniteSet(S)
  PROVE  Len(InOrder(S)) = Cardinality(S) /\ Items(InOrder(S)) = S /\ Ascends(InOrder(S))
<1> DEFINE out == InOrder(S)
           N   == 1..Cardinality(S)
<1>0. \A y \in S : y \in Nat
  OBVIOUS
<1>1. Cardinality(S) \in Nat
  BY FS_CardinalityType
<1>2. DOMAIN out = N /\ \A i \in N : out[i] = CHOOSE x \in S : Rank(S, x) = i
  BY DEF InOrder, Rank, Below
<1> HIDE DEF out
<1>3. \A i \in N : out[i] \in S /\ Rank(S, out[i]) = i
  BY <1>2, RanksTaken
<1>4. out \in Seq(S) /\ Len(out) = Cardinality(S)
  <2>1. out \in [N -> S]
    <3>1. out = [i \in N |-> out[i]]
      BY <1>2 DEF out, InOrder
    <3> QED BY <1>3, <3>1
  <2>2. out \in Seq(S)
    BY <1>1, <2>1, IsASeq
  <2>3. DOMAIN out = 1..Len(out) /\ Len(out) \in Nat
    BY <2>2
  <2> QED BY <1>1, <1>2, <2>2, <2>3
<1>5. ASSUME NEW x \in S PROVE \E i \in N : out[i] = x
  <2>1. Rank(S, x) \in N
    BY RankFacts
  <2> DEFINE y == out[Rank(S, x)]
  <2>2. y \in S /\ Rank(S, y) = Rank(S, x)
    BY <1>3, <2>1
  <2> HIDE DEF y
  <2>3. x \in Nat /\ y \in Nat /\ Rank(S, x) \in Nat
    BY <1>0, <2>1, <2>2
  <2>4. (x < y => Rank(S, x) < Rank(S, y)) /\ (y < x => Rank(S, y) < Rank(S, x))
    BY <2>2, RankFacts
  <2>5. x = y
    BY <2>2, <2>3, <2>4
  <2> QED BY <2>1, <2>5 DEF y
<1>6. \A i, j \in N : i < j => out[i] < out[j]
  <2> SUFFICES ASSUME NEW i \in N, NEW j \in N, i < j PROVE out[i] < out[j]
    OBVIOUS
  <2>1. out[i] \in S /\ out[j] \in S /\ Rank(S, out[i]) = i /\ Rank(S, out[j]) = j
    BY <1>3
  <2>2. out[i] \in Nat /\ out[j] \in Nat /\ i \in Nat /\ j \in Nat
    <3>1. out[i] \in Nat /\ out[j] \in Nat
      BY <1>0, <2>1
    <3>2. i \in Nat /\ j \in Nat
      BY <1>1
    <3> QED BY <3>1, <3>2
  <2>3. out[j] < out[i] => j < i
    BY <2>1, RankFacts
  <2> QED BY <2>1, <2>2, <2>3
<1>7. Items(out) = S
  <2>1. ASSUME NEW x \in Items(out) PROVE x \in S
    <3>1. PICK i \in N : x = out[i]
      BY <1>2, <2>1 DEF Items
    <3> QED BY <1>3, <3>1
  <2>2. ASSUME NEW x \in S PROVE x \in Items(out)
    <3>1. PICK i \in N : out[i] = x
      BY <1>5
    <3> QED BY <1>2, <3>1 DEF Items
  <2> QED BY <2>1, <2>2
<1> QED BY <1>2, <1>4, <1>6, <1>7 DEF out, Ascends

(* Of a finite set, the n highest are n if there is another.                 *)
LEMMA HighestFacts ==
  ASSUME NEW S \in SUBSET Nat, IsFiniteSet(S), NEW n \in Nat \ {0}, NEW x \in S \ Highest(S, n)
  PROVE  /\ \A y \in Highest(S, n) : x < y
         /\ Cardinality(Highest(S, n)) = n
<1> DEFINE T == Highest(S, n)
<1> DEFINE size == Cardinality(S)
<1>0. \A y \in S : y \in Nat
  OBVIOUS
<1>1. size \in Nat
  BY FS_CardinalityType
<1>2. \A y \in S : Rank(S, y) \in 1..size /\ (y \in T <=> size - Rank(S, y) + 1 <= n)
  <2> TAKE y \in S
  <2>1. Rank(S, y) \in 1..size /\ Cardinality(Above(S, y)) = size - Rank(S, y) + 1
    BY RankFacts
  <2> QED BY <2>1 DEF Highest
<1>3. Rank(S, x) \in 1..size /\ size - Rank(S, x) + 1 > n
  BY <1>1, <1>2
<1>7. T \in SUBSET S /\ IsFiniteSet(T) /\ Cardinality(T) \in Nat
  BY FS_Subset, FS_CardinalityType DEF Highest
<1>4. ASSUME NEW y \in T PROVE x < y
  <2>1. y \in S /\ Rank(S, y) \in 1..size /\ size - Rank(S, y) + 1 <= n
    BY <1>2, <1>7
  <2>2. x # y /\ ~(y < x)
    BY <1>1, <1>3, <2>1, RankFacts
  <2> QED BY <2>1, <2>2
<1>5. PICK last \in S : Rank(S, last) = size - n
  BY <1>1, <1>3, RanksTaken
<1>6. S \ T = Below(S, last)
  <2> SUFFICES ASSUME NEW y \in S PROVE y \notin T <=> y <= last
    BY DEF Below
  <2>1. Rank(S, y) \in 1..size /\ (y \in T <=> size - Rank(S, y) + 1 <= n)
    BY <1>2
  <2>2. y < last => Rank(S, y) < size - n
    BY <1>5, RankFacts
  <2>3. last < y => size - n < Rank(S, y)
    BY <1>5, RankFacts
  <2> QED BY <1>1, <1>5, <2>1, <2>2, <2>3
<1>8. size - n = Cardinality(S) - Cardinality(S \cap T)
  BY <1>5, <1>6, FS_Difference DEF Rank
<1>9. S \cap T = T
  BY <1>7
<1>10. Cardinality(T) = n
  <2> HIDE DEF T, size
  <2>1. size - n = size - Cardinality(T)
    BY <1>8, <1>9 DEF size
  <2> QED BY <1>1, <1>7, <2>1
<1> QED BY <1>4, <1>10

(* A set that a list holds, each element once, is as large as it is long.    *)
LEMMA ListedOnce ==
  ASSUME NEW n \in Nat, NEW T, NEW f, f \in [1..n -> T],
         \A i, j \in 1..n : f[i] = f[j] => i = j,
         \A x \in T : \E i \in 1..n : f[i] = x
  PROVE  Cardinality(T) = n
<1> DEFINE N == 1..n
<1>1. IsFiniteSet(N) /\ Cardinality(N) = n
  BY FS_Interval
<1> HIDE DEF N
<1>2. f \in Injection(N, T) /\ f \in Surjection(N, T)
  BY DEF Injection, IsInjective, Surjection, N
<1>3. Cardinality(T) = Cardinality(N)
  BY <1>1, <1>2, FS_Surjection
<1> QED BY <1>1, <1>3
=============================================================================
