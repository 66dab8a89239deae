----------------------------- MODULE OrderLemmas -----------------------------
(***************************************************************************)
(* Facts about numbers, orders and sequences that the proofs of the other  *)
(* modules need and the library does not state, or states with an operator *)
(* as a parameter.                                                         *)
(***************************************************************************)
EXTENDS Integers, Sequences, FiniteSets, FiniteSetTheorems, SequenceTheorems, TLAPS

(* The first n numbers are n.                                              *)
LEMMA InitialSegment ==
  ASSUME NEW n \in Nat
  PROVE  IsFiniteSet(1..n) /\ Cardinality(1..n) = n
<1>1. IsFiniteSet(1..n) /\ Cardinality(1..n) = IF 1 > n THEN 0 ELSE n - 1 + 1
  BY FS_Interval
<1>2. (IF 1 > n THEN 0 ELSE n - 1 + 1) = n
  OBVIOUS
<1>3. QED
  BY <1>1, <1>2

(* A non-empty set of natural numbers has a least element.  A proof by     *)
(* induction takes the least of the numbers that do not have the property. *)
LEMMA LeastNumber ==
  ASSUME NEW T \in SUBSET Nat, T # {}
  PROVE  \E m \in T : \A n \in T : m <= n
<1> DEFINE Intervals == {1..n : n \in T}
<1>1. Intervals \subseteq FiniteSubsetsOf(Nat)
  <2>1. \A n \in T : 1..n \in SUBSET Nat /\ IsFiniteSet(1..n)
    BY FS_Interval
  <2>2. QED
    BY <2>1 DEF FiniteSubsetsOf
<1>2. Intervals # {}
  OBVIOUS
<1>3. IsWellFoundedOn(StrictSubsetOrdering(Nat), FiniteSubsetsOf(Nat))
  BY FS_StrictSubsetOrderingWellFounded
<1>4. \E I \in Intervals : \A J \in Intervals : ~(<<J, I>> \in StrictSubsetOrdering(Nat))
  <2> HIDE DEF Intervals
  <2>1. QED
    BY <1>1, <1>2, <1>3, WFMin
<1>5. PICK m \in T : \A n \in T : ~(<<1..n, 1..m>> \in StrictSubsetOrdering(Nat))
  BY <1>4
<1>6. ASSUME NEW n \in T, n < m
      PROVE  FALSE
  <2>1. 1..n \subseteq 1..m /\ 1..n \in SUBSET Nat /\ 1..m \in SUBSET Nat
    BY <1>6
  <2>2. m \in 1..m /\ m \notin 1..n
    BY <1>6
  <2>3. <<1..n, 1..m>> \in StrictSubsetOrdering(Nat)
    BY <2>1, <2>2 DEF StrictSubsetOrdering
  <2>4. QED
    BY <1>5, <2>3
<1>7. QED
  BY <1>6

(* Induction up to a bound, for a property given as the set of the numbers *)
(* that have it.                                                           *)
LEMMA BoundedInduction ==
  ASSUME NEW n \in Nat, NEW P,
         0 \in P, \A i \in 0..(n - 1) : i \in P => i + 1 \in P
  PROVE  \A i \in 0..n : i \in P
<1> DEFINE T == {i \in 0..n : i \notin P}
<1> SUFFICES ASSUME T # {}
             PROVE  FALSE
  OBVIOUS
<1>1. T \in SUBSET Nat
  OBVIOUS
<1>2. PICK i \in T : \A k \in T : i <= k
  <2> HIDE DEF T
  <2>1. QED
    BY <1>1, LeastNumber
<1>3. i \in 1..n /\ i - 1 \in 0..(n - 1)
  OBVIOUS
<1>4. i - 1 \in P
  BY <1>2, <1>3
<1>5. QED
  BY <1>3, <1>4

(* Pairing n numbers with something gives n pairs, and so does tripling.   *)
LEMMA ColumnOfPairs ==
  ASSUME NEW x, NEW n \in Nat
  PROVE  IsFiniteSet({x} \X (0..(n - 1))) /\ Cardinality({x} \X (0..(n - 1))) = n
<1> DEFINE S == 0..(n - 1)
           f == [k \in S |-> <<x, k>>]
<1>1. IsFiniteSet(S) /\ Cardinality(S) = n
  <2>1. IsFiniteSet(S) /\ Cardinality(S) = IF 0 > n - 1 THEN 0 ELSE n - 1 - 0 + 1
    BY FS_Interval
  <2>2. QED
    BY <2>1
<1>2. f \in Bijection(S, {x} \X S)
  <2>1. f \in [S -> {x} \X S]
    OBVIOUS
  <2>2. \A a, b \in S : f[a] = f[b] => a = b
    OBVIOUS
  <2>3. \A p \in {x} \X S : \E k \in S : f[k] = p
    OBVIOUS
  <2>4. QED
    BY <2>1, <2>2, <2>3 DEF Bijection, Injection, IsInjective, Surjection
<1>3. QED
  BY <1>1, <1>2, FS_Bijection DEF ExistsBijection

Triples(x, y, n) == {<<x, y, k>> : k \in 0..(n - 1)}

LEMMA ColumnOfTriples ==
  ASSUME NEW x, NEW y, NEW n \in Nat
  PROVE  IsFiniteSet(Triples(x, y, n)) /\ Cardinality(Triples(x, y, n)) = n
<1> DEFINE S == 0..(n - 1)
           T == {<<x, y, k>> : k \in S}
           f == [k \in S |-> <<x, y, k>>]
<1>1. IsFiniteSet(S) /\ Cardinality(S) = n
  <2>1. IsFiniteSet(S) /\ Cardinality(S) = IF 0 > n - 1 THEN 0 ELSE n - 1 - 0 + 1
    BY FS_Interval
  <2>2. QED
    BY <2>1
<1>2. f \in Bijection(S, T)
  <2>1. f \in [S -> T]
    OBVIOUS
  <2>2. \A a, b \in S : f[a] = f[b] => a = b
    OBVIOUS
  <2>3. \A p \in T : \E k \in S : f[k] = p
    OBVIOUS
  <2>4. QED
    BY <2>1, <2>2, <2>3 DEF Bijection, Injection, IsInjective, Surjection
<1>3. QED
  BY <1>1, <1>2, FS_Bijection DEF ExistsBijection, Triples

(* A non-empty set of natural numbers with a bound has a greatest element. *)
LEMMA GreatestNumber ==
  ASSUME NEW b \in Nat, NEW T \in SUBSET (0..b), T # {}
  PROVE  \E m \in T : \A n \in T : n <= m
<1> DEFINE U == {b - n : n \in T}
<1>1. U \in SUBSET Nat /\ U # {}
  <2>1. \A n \in T : b - n \in Nat
    OBVIOUS
  <2>2. PICK n : n \in T
    OBVIOUS
  <2>3. b - n \in U
    BY <2>2
  <2>4. QED
    BY <2>1, <2>3
<1>2. PICK u \in U : \A v \in U : u <= v
  <2> HIDE DEF U
  <2>1. QED
    BY <1>1, LeastNumber
<1>3. PICK m \in T : u = b - m
  BY <1>2
<1>4. \A n \in T : b - m <= b - n
  BY <1>2, <1>3
<1>5. QED
  BY <1>4

-------------------------------------------------------------------------------
(* Sorting.  R is a strict total order on S, given as a set of pairs.      *)

StrictTotalOrder(R, S) ==
  /\ \A x \in S : <<x, x>> \notin R
  /\ \A x, y, z \in S : <<x, y>> \in R /\ <<y, z>> \in R => <<x, z>> \in R
  /\ \A x, y \in S : x = y \/ <<x, y>> \in R \/ <<y, x>> \in R

(* The elements up to x, and how many there are. *)
UpTo(R, S, x) == {y \in S : y = x \/ <<y, x>> \in R}
Rank(R, S)    == [x \in S |-> Cardinality(UpTo(R, S, x))]

LEMMA RankIsMonotonic ==
  ASSUME NEW S, IsFiniteSet(S), NEW R, StrictTotalOrder(R, S),
         NEW x \in S, NEW y \in S, <<x, y>> \in R
  PROVE  Rank(R, S)[x] < Rank(R, S)[y]
<1>1. UpTo(R, S, x) \subseteq UpTo(R, S, y)
  BY DEF UpTo, StrictTotalOrder
<1>2. y \in UpTo(R, S, y) /\ y \notin UpTo(R, S, x)
  BY DEF UpTo, StrictTotalOrder
<1>3. IsFiniteSet(UpTo(R, S, x)) /\ IsFiniteSet(UpTo(R, S, y))
  BY FS_Subset DEF UpTo
<1>4. /\ Cardinality(UpTo(R, S, x)) <= Cardinality(UpTo(R, S, y))
      /\ Cardinality(UpTo(R, S, x)) # Cardinality(UpTo(R, S, y))
  BY <1>1, <1>2, <1>3, FS_Subset
<1>5. Cardinality(UpTo(R, S, x)) \in Nat /\ Cardinality(UpTo(R, S, y)) \in Nat
  BY <1>3, FS_CardinalityType
<1>6. QED
  BY <1>4, <1>5 DEF Rank

LEMMA RankIsBijection ==
  ASSUME NEW S, IsFiniteSet(S), NEW R, StrictTotalOrder(R, S)
  PROVE  Rank(R, S) \in Bijection(S, 1..Cardinality(S))
<1> DEFINE n == Cardinality(S)
<1>1. n \in Nat
  BY FS_CardinalityType
<1>2. Rank(R, S) \in [S -> 1..n]
  <2> SUFFICES ASSUME NEW x \in S
               PROVE  Cardinality(UpTo(R, S, x)) \in 1..n
    BY DEF Rank
  <2>1. IsFiniteSet(UpTo(R, S, x)) /\ Cardinality(UpTo(R, S, x)) <= n
    BY FS_Subset DEF UpTo
  <2>2. UpTo(R, S, x) # {}
    BY DEF UpTo
  <2>3. Cardinality(UpTo(R, S, x)) \in Nat /\ Cardinality(UpTo(R, S, x)) # 0
    BY <2>1, <2>2, FS_CardinalityType, FS_EmptySet
  <2>4. QED
    BY <1>1, <2>1, <2>3
<1>3. ASSUME NEW x \in S, NEW y \in S, Rank(R, S)[x] = Rank(R, S)[y]
      PROVE  x = y
  <2>1. Rank(R, S)[x] \in Int /\ Rank(R, S)[y] \in Int
    BY <1>1, <1>2
  <2>2. ~(<<x, y>> \in R) /\ ~(<<y, x>> \in R)
    BY <1>3, <2>1, RankIsMonotonic
  <2>3. QED
    BY <2>2 DEF StrictTotalOrder
<1>4. Rank(R, S) \in Injection(S, 1..n)
  BY <1>2, <1>3 DEF Injection, IsInjective
<1>5. IsFiniteSet(1..n) /\ Cardinality(1..n) = n
  BY <1>1, FS_Interval
<1>6. Rank(R, S) \in Surjection(S, 1..n)
  BY <1>4, <1>5, FS_Injection
<1>7. QED
  BY <1>4, <1>6 DEF Bijection

(* A finite set can be listed in order. *)
LEMMA Sorting ==
  ASSUME NEW S, IsFiniteSet(S), NEW R, StrictTotalOrder(R, S)
  PROVE  \E s \in [1..Cardinality(S) -> S] :
           \A i, j \in 1..Cardinality(S) : i < j => <<s[i], s[j]>> \in R
<1> DEFINE n == Cardinality(S)
           s == [i \in 1..n |-> CHOOSE x \in S : Rank(R, S)[x] = i]
<1>1. n \in Nat
  BY FS_CardinalityType
<1>2. \A i \in 1..n : \E x \in S : Rank(R, S)[x] = i
  BY RankIsBijection DEF Bijection, Surjection
<1>3. s \in [1..n -> S] /\ \A i \in 1..n : Rank(R, S)[s[i]] = i
  BY <1>2
<1>4. ASSUME NEW i \in 1..n, NEW j \in 1..n, i < j
      PROVE  <<s[i], s[j]>> \in R
  <2> HIDE DEF s
  <2>1. s[i] # s[j]
    BY <1>1, <1>3, <1>4
  <2>2. ~(<<s[j], s[i]>> \in R)
    BY <1>1, <1>3, <1>4, RankIsMonotonic
  <2>3. QED
    BY <1>3, <2>1, <2>2 DEF StrictTotalOrder
<1>5. QED
  BY <1>3, <1>4
===============================================================================
