--------------------------- MODULE DashStreamProofs ---------------------------
(***************************************************************************)
(* Theorems about DashStream: what a byte map lists, which bytes a Range   *)
(* header asks for, and that what is written for it are these bytes.       *)
(***************************************************************************)
EXTENDS DashStream, OrderLemmas, TLAPS

-------------------------------------------------------------------------------
(* The manifest: the loop of parseDashPlan counts the repeats.             *)

RepeatsUpTo(m, i) == UNION {{k} \X (0..Timeline[m][k][2]) : k \in 1..i}

LEMMA RepeatsAdd ==
  ASSUME NEW m \in Manifests,
         \A i \in DOMAIN Timeline[m] : Timeline[m][i][2] >= 0
  PROVE  \A i \in 0..Len(Timeline[m]) :
           /\ IsFiniteSet(RepeatsUpTo(m, i))
           /\ Cardinality(RepeatsUpTo(m, i)) =
                IF i = 0 THEN 0
                ELSE Cardinality(RepeatsUpTo(m, i - 1)) + Timeline[m][i][2] + 1
<1> DEFINE n == Len(Timeline[m])
           Set(i) == RepeatsUpTo(m, i)
           Row(i) == {i} \X (0..Timeline[m][i][2])
           F == {i \in 0..n : IsFiniteSet(Set(i))}
<1>1. n \in Nat /\ DOMAIN Timeline[m] = 1..n /\ \A i \in 1..n : Timeline[m][i][2] \in Nat
  BY DashAssumption
<1>2. Set(0) = {}
  BY DEF RepeatsUpTo
<1>3. ASSUME NEW i \in 1..n
      PROVE  /\ Set(i) = Set(i - 1) \cup Row(i) /\ Set(i - 1) \cap Row(i) = {}
             /\ IsFiniteSet(Row(i)) /\ Cardinality(Row(i)) = Timeline[m][i][2] + 1
  <2>1. 1..i = (1..(i - 1)) \cup {i} /\ i \notin 1..(i - 1)
    BY <1>1
  <2>2. Timeline[m][i][2] + 1 \in Nat /\ (Timeline[m][i][2] + 1) - 1 = Timeline[m][i][2]
    BY <1>1
  <2>3. Set(i) = Set(i - 1) \cup Row(i) /\ Set(i - 1) \cap Row(i) = {}
    BY <2>1 DEF RepeatsUpTo
  <2>4. IsFiniteSet(Row(i)) /\ Cardinality(Row(i)) = Timeline[m][i][2] + 1
    <3> DEFINE r == Timeline[m][i][2] + 1
    <3>1. r \in Nat /\ Row(i) = {i} \X (0..(r - 1))
      BY <2>2
    <3> HIDE DEF r, Row
    <3>2. IsFiniteSet({i} \X (0..(r - 1))) /\ Cardinality({i} \X (0..(r - 1))) = r
      BY <3>1, ColumnOfPairs
    <3>3. QED
      BY <3>1, <3>2, Zenon DEF r
  <2>5. QED
    BY <2>3, <2>4
<1>4. \A i \in 0..n : IsFiniteSet(Set(i))
  <2>1. 0 \in F
    <3>1. 0 \in 0..n
      BY <1>1
    <3>2. IsFiniteSet(Set(0))
      BY <1>2, FS_EmptySet
    <3>3. QED
      BY <3>1, <3>2
  <2>2. ASSUME NEW i \in 0..(n - 1), i \in F
        PROVE  i + 1 \in F
    <3>1. i + 1 \in 1..n /\ (i + 1) - 1 = i
      BY <1>1
    <3>2. IsFiniteSet(Set(i + 1))
      <4> HIDE DEF Set, Row
      <4>1. IsFiniteSet(Set(i))
        BY <2>2
      <4>2. Set(i + 1) = Set(i) \cup Row(i + 1) /\ IsFiniteSet(Row(i + 1))
        BY <1>3, <3>1
      <4>3. IsFiniteSet(Set(i) \cup Row(i + 1))
        BY <4>1, <4>2, FS_Union
      <4>4. QED
        BY <4>2, <4>3
    <3>3. QED
      BY <3>1, <3>2
  <2>3. QED
    <3> HIDE DEF F
    <3>1. \A i \in 0..n : i \in F
      BY <1>1, <2>1, <2>2, BoundedInduction
    <3>2. QED
      BY <3>1 DEF F
<1>5. ASSUME NEW i \in 1..n
      PROVE  Cardinality(Set(i)) = Cardinality(Set(i - 1)) + Timeline[m][i][2] + 1
  <2>1. i - 1 \in 0..n
    BY <1>1
  <2>2. IsFiniteSet(Set(i - 1)) /\ Cardinality(Set(i - 1)) \in Nat
    BY <1>4, <2>1, FS_CardinalityType
  <2>3. Cardinality(Set(i)) = Cardinality(Set(i - 1)) + Cardinality(Row(i)) - Cardinality({})
    <3> HIDE DEF Set, Row
    <3>1. Set(i) = Set(i - 1) \cup Row(i) /\ Set(i - 1) \cap Row(i) = {} /\ IsFiniteSet(Row(i))
      BY <1>3
    <3>2. QED
      BY <2>2, <3>1, FS_Union
  <2>4. QED
    <3> HIDE DEF Set, Row
    <3>1. Cardinality({}) = 0
      BY FS_EmptySet
    <3>2. Cardinality(Row(i)) = Timeline[m][i][2] + 1
      BY <1>3
    <3>3. QED
      BY <1>1, <2>2, <2>3, <3>1, <3>2
<1>6. QED
  BY <1>1, <1>2, <1>4, <1>5, FS_EmptySet

LEMMA CountIsRight ==
  ASSUME NEW m \in Manifests,
         \A i \in DOMAIN Timeline[m] : Timeline[m][i][2] >= 0
  PROVE  Count(m) = Cardinality(Repeats(m)) /\ Count(m) \in Nat
<1> DEFINE n == Len(Timeline[m])
           card == [i \in 0..n |-> Cardinality(RepeatsUpTo(m, i))]
           upTo == CHOOSE f : f = [i \in 0..n |-> IF i = 0 THEN 0 ELSE f[i - 1] + Timeline[m][i][2] + 1]
           Same == {i \in 0..n : upTo[i] = card[i]}
<1>1. n \in Nat /\ DOMAIN Timeline[m] = 1..n
  BY DashAssumption
<1>2. card = [i \in 0..n |-> IF i = 0 THEN 0 ELSE card[i - 1] + Timeline[m][i][2] + 1]
  <2> SUFFICES ASSUME NEW i \in 0..n
               PROVE  card[i] = IF i = 0 THEN 0 ELSE card[i - 1] + Timeline[m][i][2] + 1
    OBVIOUS
  <2>1. i # 0 => i - 1 \in 0..n
    BY <1>1
  <2>2. QED
    BY <2>1, RepeatsAdd
<1>3. upTo = [i \in 0..n |-> IF i = 0 THEN 0 ELSE upTo[i - 1] + Timeline[m][i][2] + 1]
  <2> HIDE DEF card
  <2>1. QED
    BY <1>2
<1>4. \A i \in 0..n : i \in Same
  <2> HIDE DEF upTo
  <2>1. 0 \in Same
    <3>1. 0 \in 0..n
      BY <1>1
    <3>2. upTo[0] = 0
      BY <1>3, <3>1
    <3>3. card[0] = 0
      <4> HIDE DEF card
      <4>1. QED
        BY <1>2, <3>1
    <3>4. QED
      BY <3>1, <3>2, <3>3
  <2>2. ASSUME NEW i \in 0..(n - 1), i \in Same
        PROVE  i + 1 \in Same
    <3>1. i + 1 \in 0..n /\ i + 1 # 0 /\ (i + 1) - 1 = i
      BY <1>1
    <3>2. upTo[i + 1] = upTo[i] + Timeline[m][i + 1][2] + 1
      BY <1>3, <3>1
    <3>3. card[i + 1] = card[i] + Timeline[m][i + 1][2] + 1
      <4> HIDE DEF card
      <4>1. QED
        BY <1>2, <3>1
    <3>4. QED
      BY <2>2, <3>1, <3>2, <3>3
  <2>3. QED
    <3> HIDE DEF Same
    <3>1. QED
      BY <1>1, <2>1, <2>2, BoundedInduction
<1>5. Count(m) = upTo[n]
  BY DEF Count
<1>6. Repeats(m) = RepeatsUpTo(m, n)
  BY <1>1 DEF Repeats, RepeatsUpTo
<1>7. Cardinality(RepeatsUpTo(m, n)) \in Nat
  BY <1>1, RepeatsAdd, FS_CardinalityType
<1>8. QED
  <2> HIDE DEF upTo
  <2>1. n \in 0..n
    BY <1>1
  <2>2. QED
    BY <1>4, <1>5, <1>6, <1>7, <2>1

(* The plan of a manifest that parses lists the announced segments in      *)
(* order, the initialization first.                                        *)
LEMMA PlanIsAnnounced ==
  ASSUME NEW m \in Manifests, GoodPlan(m)
  PROVE  /\ Plan(m) \in Seq(Nat) /\ Len(Plan(m)) = Count(m) + 1 /\ Count(m) \in Nat \ {0}
         /\ Plan(m)[1] = 0
         /\ \A i \in 1..Len(Plan(m)) : Plan(m)[i] \in Announced(m)
         /\ \A n \in Announced(m) : \E i \in 1..Len(Plan(m)) : Plan(m)[i] = n
         /\ \A i \in 1..(Len(Plan(m)) - 1) :
              /\ Plan(m)[i] < Plan(m)[i + 1]
              /\ \A n \in Announced(m) : n < Plan(m)[i + 1] <=> n <= Plan(m)[i]
         /\ \A n \in Announced(m) : n <= Plan(m)[Len(Plan(m))]
<1> DEFINE c == Count(m)
           f == FirstNumber(m)
           media == [i \in 1..c |-> f + i - 1]
<1>1. c = Cardinality(Repeats(m)) /\ c \in Nat \ {0}
  <2>1. \A i \in DOMAIN Timeline[m] : Timeline[m][i][2] >= 0
    BY DEF GoodPlan
  <2>2. c = Cardinality(Repeats(m)) /\ c \in Nat
    BY <2>1, CountIsRight
  <2>3. c # 0
    <3> HIDE DEF c
    <3>1. c \in 1..MaxSegments
      BY DEF GoodPlan, c
    <3>2. QED
      BY <3>1
  <2>4. QED
    BY <2>2, <2>3
<1>2. f \in Nat \ {0}
  BY DashAssumption DEF FirstNumber
<1> HIDE DEF c, f
<1>3. media \in Seq(Nat) /\ Len(media) = c /\ \A i \in 1..c : media[i] = f + i - 1
  <2>1. \A i \in 1..c : f + i - 1 \in Nat
    BY <1>1, <1>2
  <2>2. QED
    BY <1>1, <2>1
<1>4. Plan(m) = <<0>> \o media
  BY DEF Plan, c, f
<1>5. Announced(m) = {0} \cup f..(f - 1 + c)
  BY <1>1 DEF Announced, f
<1> HIDE DEF media
<1>6. <<0>> \in Seq(Nat) /\ Len(<<0>>) = 1 /\ <<0>>[1] = 0
  OBVIOUS
<1>7. /\ Plan(m) \in Seq(Nat) /\ Len(Plan(m)) = c + 1
      /\ \A i \in 1..(c + 1) : Plan(m)[i] = IF i <= 1 THEN <<0>>[i] ELSE media[i - 1]
  <2>1. /\ <<0>> \o media \in Seq(Nat) /\ Len(<<0>> \o media) = Len(<<0>>) + Len(media)
        /\ \A i \in 1..(Len(<<0>>) + Len(media)) :
             (<<0>> \o media)[i] = IF i <= Len(<<0>>) THEN <<0>>[i] ELSE media[i - Len(<<0>>)]
    BY <1>3, <1>6, ConcatProperties
  <2>2. QED
    BY <1>1, <1>3, <1>4, <1>6, <2>1
<1>8. Plan(m)[1] = 0 /\ \A i \in 2..(c + 1) : Plan(m)[i] = f + i - 2
  <2>1. Plan(m)[1] = 0
    BY <1>1, <1>6, <1>7
  <2>2. ASSUME NEW i \in 2..(c + 1)
        PROVE  Plan(m)[i] = f + i - 2
    <3>1. i \in 1..(c + 1) /\ ~(i <= 1) /\ i - 1 \in 1..c
      BY <1>1
    <3>2. Plan(m)[i] = media[i - 1]
      BY <1>7, <3>1
    <3>3. media[i - 1] = f + (i - 1) - 1
      BY <1>3, <3>1
    <3>4. QED
      BY <1>2, <3>2, <3>3
  <2>3. QED
    BY <2>1, <2>2
<1>9. \A i \in 1..(c + 1) : Plan(m)[i] \in Announced(m)
  <2> TAKE i \in 1..(c + 1)
  <2>1. CASE i = 1
    BY <1>5, <1>8, <2>1
  <2>2. CASE i \in 2..(c + 1)
    <3>1. f + i - 2 \in f..(f - 1 + c)
      BY <1>1, <1>2, <2>2
    <3>2. QED
      BY <1>5, <1>8, <2>2, <3>1
  <2>3. QED
    BY <1>1, <2>1, <2>2
<1>10. \A n \in Announced(m) : \E i \in 1..(c + 1) : Plan(m)[i] = n
  <2> TAKE n \in Announced(m)
  <2>1. CASE n = 0
    <3>1. 1 \in 1..(c + 1)
      BY <1>1
    <3>2. QED
      BY <1>8, <2>1, <3>1
  <2>2. CASE n \in f..(f - 1 + c)
    <3>1. n - f + 2 \in 2..(c + 1) /\ f + (n - f + 2) - 2 = n /\ n - f + 2 \in 1..(c + 1)
      BY <1>1, <1>2, <2>2
    <3>2. Plan(m)[n - f + 2] = n
      BY <1>8, <3>1
    <3>3. QED
      BY <3>1, <3>2
  <2>3. QED
    BY <1>5, <2>1, <2>2
<1>11. ASSUME NEW i \in 1..c
       PROVE  /\ Plan(m)[i] < Plan(m)[i + 1]
              /\ \A n \in Announced(m) : n < Plan(m)[i + 1] <=> n <= Plan(m)[i]
  <2>1. i + 1 \in 2..(c + 1) /\ Plan(m)[i + 1] = f + i - 1
    <3>1. i + 1 \in 2..(c + 1)
      BY <1>1
    <3>2. Plan(m)[i + 1] = f + (i + 1) - 2
      BY <1>8, <3>1
    <3>3. QED
      BY <1>2, <3>1, <3>2
  <2>2. CASE i = 1
    BY <1>1, <1>2, <1>5, <1>8, <2>1, <2>2
  <2>3. CASE i \in 2..c
    <3>1. Plan(m)[i] = f + i - 2
      BY <1>1, <1>8, <2>3
    <3>2. QED
      BY <1>1, <1>2, <1>5, <2>1, <2>3, <3>1
  <2>4. QED
    BY <1>1, <2>2, <2>3
<1>12. \A n \in Announced(m) : n <= Plan(m)[c + 1]
  <2>1. c + 1 \in 2..(c + 1) /\ f + (c + 1) - 2 = f - 1 + c
    BY <1>1, <1>2
  <2>2. Plan(m)[c + 1] = f - 1 + c
    BY <1>8, <2>1
  <2>3. QED
    BY <1>1, <1>2, <1>5, <2>2
<1>13. (c + 1) - 1 = c
  BY <1>1
<1>14. QED
  <2>1. Count(m) = c
    BY DEF c
  <2>2. QED
    BY <1>1, <1>7, <1>8, <1>9, <1>10, <1>11, <1>12, <1>13, <2>1

-------------------------------------------------------------------------------
(* The bytes of a file, segment by segment.                                *)

SizeIn(m, n)  == Size[StreamOf[m]][n]
Segment(m, n) == Triples(StreamOf[m], n, SizeIn(m, n))
Earlier(m, n) == {c \in Bytes(m) : c[2] < n}

LEMMA SegmentSizes ==
  ASSUME NEW m \in Manifests, GoodPlan(m), NEW n \in Announced(m)
  PROVE  /\ n \in Nat /\ StreamOf[m] \in Streams /\ SizeIn(m, n) \in Nat \ {0}
         /\ IsFiniteSet(Segment(m, n)) /\ Cardinality(Segment(m, n)) = SizeIn(m, n)
<1>1. StreamOf[m] \in Streams
  BY DEF Streams
<1>2. n \in DOMAIN Size[StreamOf[m]]
  BY SegmentsExist
<1>3. n \in Nat /\ SizeIn(m, n) \in Nat \ {0}
  BY <1>1, <1>2, DashAssumption DEF SizeIn
<1>4. QED
  BY <1>1, <1>3, ColumnOfTriples DEF Segment

LEMMA BytesOfSegments ==
  ASSUME NEW m \in Manifests, GoodPlan(m)
  PROVE  /\ \A b : b \in Bytes(m) <=> \E n \in Announced(m) : b \in Segment(m, n)
         /\ \A n \in Announced(m) : \A b \in Bytes(m) : b \in Segment(m, n) <=> b[2] = n
<1>1. Bytes(m) = UNION {Segment(m, n) : n \in Announced(m)}
  BY DEF Bytes, Segment, SizeIn, Triples
<1>2. \A n : \A b \in Segment(m, n) : b[2] = n
  BY DEF Segment, Triples
<1>3. QED
  BY <1>1, <1>2

(* The bytes before segment i + 1 are those before segment i and its own.  *)
LEMMA EarlierSegments ==
  ASSUME NEW m \in Manifests, GoodPlan(m)
  PROVE  /\ \A i \in 1..Len(Plan(m)) :
              /\ IsFiniteSet(Earlier(m, Plan(m)[i])) /\ Cardinality(Earlier(m, Plan(m)[i])) \in Nat
              /\ Cardinality(Earlier(m, Plan(m)[i])) =
                   IF i = 1 THEN 0
                   ELSE Cardinality(Earlier(m, Plan(m)[i - 1])) + SizeIn(m, Plan(m)[i - 1])
         /\ IsFiniteSet(Bytes(m))
         /\ Cardinality(Bytes(m)) = Cardinality(Earlier(m, Plan(m)[Len(Plan(m))]))
                                      + SizeIn(m, Plan(m)[Len(Plan(m))])
<1> DEFINE p == Plan(m)
           c == Count(m)
           E(i) == Earlier(m, p[i])
           S(i) == Segment(m, p[i])
           F == {i \in 0..c : IsFiniteSet(E(i + 1))}
<1>1. /\ p \in Seq(Nat) /\ Len(p) = c + 1 /\ c \in Nat \ {0} /\ p[1] = 0
      /\ \A i \in 1..(c + 1) : p[i] \in Announced(m)
      /\ \A n \in Announced(m) : \E i \in 1..(c + 1) : p[i] = n
      /\ \A i \in 1..c : p[i] < p[i + 1] /\ \A n \in Announced(m) : n < p[i + 1] <=> n <= p[i]
      /\ \A n \in Announced(m) : n <= p[c + 1]
  <2>1. (c + 1) - 1 = c
    BY PlanIsAnnounced
  <2>2. QED
    BY <2>1, PlanIsAnnounced
<1> HIDE DEF p, c
<1>2. \A n \in Announced(m) : n \in Nat
  BY SegmentSizes
<1>3. \A b \in Bytes(m) : b[2] \in Announced(m)
  BY BytesOfSegments
<1>4. E(1) = {}
  BY <1>1, <1>2, <1>3 DEF Earlier
<1>5. ASSUME NEW i \in 1..c
      PROVE  E(i + 1) = E(i) \cup S(i) /\ E(i) \cap S(i) = {}
  <2>1. \A b \in Bytes(m) : b[2] < p[i + 1] <=> b[2] < p[i] \/ b[2] = p[i]
    <3> TAKE b \in Bytes(m)
    <3>1. i \in 1..(c + 1)
      BY <1>1
    <3>2. b[2] \in Announced(m) /\ p[i] \in Announced(m)
      BY <1>1, <1>3, <3>1
    <3>3. b[2] \in Nat /\ p[i] \in Nat
      BY <1>2, <3>2
    <3>4. b[2] < p[i + 1] <=> b[2] <= p[i]
      BY <1>1, <3>2
    <3>5. b[2] <= p[i] <=> b[2] < p[i] \/ b[2] = p[i]
      BY <3>3
    <3>6. QED
      BY <3>4, <3>5
  <2>2. p[i] \in Announced(m) /\ p[i] \in Nat
    BY <1>1, <1>2
  <2>3. S(i) \subseteq Bytes(m) /\ \A b \in Bytes(m) : b \in S(i) <=> b[2] = p[i]
    BY <2>2, BytesOfSegments
  <2>4. QED
    BY <2>1, <2>2, <2>3 DEF Earlier
<1>6. \A i \in 1..(c + 1) : IsFiniteSet(S(i)) /\ Cardinality(S(i)) = SizeIn(m, p[i]) /\ SizeIn(m, p[i]) \in Nat
  BY <1>1, SegmentSizes
<1>7. Bytes(m) = E(c + 1) \cup S(c + 1) /\ E(c + 1) \cap S(c + 1) = {}
  <2>1. c + 1 \in 1..(c + 1) /\ p[c + 1] \in Announced(m) /\ p[c + 1] \in Nat
    BY <1>1, <1>2
  <2>2. \A b \in Bytes(m) : b[2] < p[c + 1] \/ b[2] = p[c + 1]
    BY <1>1, <1>2, <1>3, <2>1
  <2>3. S(c + 1) \subseteq Bytes(m) /\ \A b \in Bytes(m) : b \in S(c + 1) <=> b[2] = p[c + 1]
    BY <2>1, BytesOfSegments
  <2>4. QED
    BY <2>1, <2>2, <2>3 DEF Earlier
<1> HIDE DEF E, S
<1>8. \A i \in 1..(c + 1) : IsFiniteSet(E(i))
  <2>1. 0 \in F
    <3>1. 0 \in 0..c /\ 0 + 1 = 1
      BY <1>1
    <3>2. IsFiniteSet(E(1))
      BY <1>4, FS_EmptySet
    <3>3. QED
      BY <3>1, <3>2
  <2>2. ASSUME NEW i \in 0..(c - 1), i \in F
        PROVE  i + 1 \in F
    <3>1. i + 1 \in 1..c /\ i + 1 \in 1..(c + 1) /\ i + 1 \in 0..c
      BY <1>1
    <3>2. IsFiniteSet(E(i + 1)) /\ IsFiniteSet(S(i + 1))
      BY <1>6, <2>2, <3>1
    <3>3. IsFiniteSet(E(i + 1) \cup S(i + 1))
      BY <3>2, FS_Union
    <3>4. IsFiniteSet(E((i + 1) + 1))
      BY <1>5, <3>1, <3>3
    <3>5. QED
      BY <3>1, <3>4
  <2>3. \A i \in 0..c : i \in F
    <3> HIDE DEF F
    <3>1. QED
      BY <1>1, <2>1, <2>2, BoundedInduction
  <2>4. ASSUME NEW i \in 1..(c + 1)
        PROVE  IsFiniteSet(E(i))
    <3>1. i - 1 \in 0..c /\ (i - 1) + 1 = i
      BY <1>1
    <3>2. i - 1 \in F
      BY <2>3, <3>1
    <3>3. QED
      BY <3>1, <3>2
  <2>5. QED
    BY <2>4
<1>9. \A i \in 1..(c + 1) : Cardinality(E(i)) \in Nat
  BY <1>8, FS_CardinalityType
<1>10. ASSUME NEW i \in 1..(c + 1)
       PROVE  /\ IsFiniteSet(E(i) \cup S(i))
              /\ E(i) \cap S(i) = {} => Cardinality(E(i) \cup S(i)) = Cardinality(E(i)) + SizeIn(m, p[i])
  <2>1. /\ IsFiniteSet(E(i) \cup S(i))
        /\ Cardinality(E(i) \cup S(i)) = Cardinality(E(i)) + Cardinality(S(i)) - Cardinality(E(i) \cap S(i))
    BY <1>6, <1>8, FS_Union
  <2>2. Cardinality({}) = 0
    BY FS_EmptySet
  <2>3. QED
    BY <1>6, <1>9, <2>1, <2>2
<1>11. ASSUME NEW i \in 1..(c + 1)
       PROVE  Cardinality(E(i)) = IF i = 1 THEN 0 ELSE Cardinality(E(i - 1)) + SizeIn(m, p[i - 1])
  <2>1. CASE i = 1
    BY <1>4, <2>1, FS_EmptySet
  <2>2. CASE i # 1
    <3>1. i - 1 \in 1..c /\ i - 1 \in 1..(c + 1) /\ (i - 1) + 1 = i
      BY <1>1, <2>2
    <3>2. E(i) = E(i - 1) \cup S(i - 1) /\ E(i - 1) \cap S(i - 1) = {}
      BY <1>5, <3>1
    <3>3. QED
      BY <1>10, <2>2, <3>1, <3>2
  <2>3. QED
    BY <2>1, <2>2
<1>12. IsFiniteSet(Bytes(m)) /\ Cardinality(Bytes(m)) = Cardinality(E(c + 1)) + SizeIn(m, p[c + 1])
  <2>1. c + 1 \in 1..(c + 1)
    BY <1>1
  <2>2. QED
    BY <1>7, <1>10, <2>1
<1>13. QED
  BY <1>1, <1>8, <1>9, <1>11, <1>12 DEF E, p

(* A byte's offset: the segments before its own, and its place there.      *)
LEMMA OffsetInSegment ==
  ASSUME NEW m \in Manifests, GoodPlan(m), NEW i \in 1..Len(Plan(m)),
         NEW k \in 0..(SizeIn(m, Plan(m)[i]) - 1)
  PROVE  /\ <<StreamOf[m], Plan(m)[i], k>> \in Bytes(m)
         /\ Offset(m, <<StreamOf[m], Plan(m)[i], k>>) = Cardinality(Earlier(m, Plan(m)[i])) + k
<1> DEFINE n == Plan(m)[i]
           b == <<StreamOf[m], n, k>>
           E == Earlier(m, n)
           T == Triples(StreamOf[m], n, k)
<1>1. n \in Announced(m) /\ n \in Nat /\ SizeIn(m, n) \in Nat
  BY PlanIsAnnounced, SegmentSizes
<1>2. k \in Nat /\ k < SizeIn(m, n)
  BY <1>1
<1>3. b \in Bytes(m)
  <2>1. b \in Segment(m, n)
    BY DEF Segment, Triples
  <2>2. QED
    BY <1>1, <2>1, BytesOfSegments
<1>4. IsFiniteSet(E) /\ Cardinality(E) \in Nat
  BY EarlierSegments
<1>5. IsFiniteSet(T) /\ Cardinality(T) = k
  BY <1>2, ColumnOfTriples
<1>6. \A c \in Bytes(m) : c \in Segment(m, n) <=> c[2] = n
  BY <1>1, BytesOfSegments
<1>7. \A c \in Segment(m, n) : c \in T <=> c[3] < k
  <2> TAKE c \in Segment(m, n)
  <2>1. PICK l \in 0..(SizeIn(m, n) - 1) : c = <<StreamOf[m], n, l>>
    BY DEF Segment, Triples
  <2>2. l < k => l \in 0..(k - 1)
    BY <1>1, <1>2
  <2>3. \A q \in 0..(k - 1) : q < k
    BY <1>2
  <2>4. QED
    BY <2>1, <2>2, <2>3 DEF Triples
<1>8. T \subseteq Segment(m, n)
  BY <1>1, <1>2 DEF Segment, Triples
<1>9. T \subseteq Bytes(m)
  BY <1>1, <1>8, BytesOfSegments
<1>10. {c \in Bytes(m) : Before(c, b)} = E \cup T
  <2> HIDE DEF T, n
  <2>1. \A c \in Bytes(m) : Before(c, b) <=> c[2] < n \/ (c[2] = n /\ c[3] < k)
    BY DEF Before
  <2>2. \A c \in Bytes(m) : c[2] = n /\ c[3] < k <=> c \in T
    BY <1>6, <1>7, <1>8
  <2>3. QED
    BY <1>9, <2>1, <2>2 DEF Earlier
<1>11. E \cap T = {}
  <2>1. \A c \in T : c \in Bytes(m) /\ c[2] = n
    BY <1>6, <1>8, <1>9
  <2>2. QED
    BY <1>1, <2>1 DEF Earlier
<1>12. Cardinality(E \cup T) = Cardinality(E) + k
  <2> HIDE DEF E, T
  <2>1. Cardinality(E \cup T) = Cardinality(E) + Cardinality(T) - Cardinality(E \cap T)
    BY <1>4, <1>5, FS_Union
  <2>2. Cardinality(E \cap T) = 0
    BY <1>11, FS_EmptySet
  <2>3. QED
    BY <1>2, <1>4, <1>5, <2>1, <2>2
<1>13. QED
  BY <1>3, <1>10, <1>12 DEF Offset

LEMMA BytesAreTriples ==
  ASSUME NEW m \in Manifests, GoodPlan(m), NEW b \in Bytes(m)
  PROVE  b \in Streams \X Nat \X Nat /\ b[1] = StreamOf[m]
<1>1. PICK n \in Announced(m) : b \in Segment(m, n)
  BY BytesOfSegments
<1>2. n \in Nat /\ StreamOf[m] \in Streams /\ SizeIn(m, n) \in Nat
  BY SegmentSizes
<1>3. QED
  BY <1>1, <1>2 DEF Segment, Triples

(* The offsets number the bytes of the file from 0 without a gap.          *)
LEMMA OffsetsNumberTheBytes ==
  ASSUME NEW m \in Manifests, GoodPlan(m)
  PROVE  /\ \A b \in Bytes(m) : Offset(m, b) \in 0..(Cardinality(Bytes(m)) - 1)
         /\ \A b, c \in Bytes(m) : Offset(m, b) = Offset(m, c) => b = c
         /\ \A i \in 0..(Cardinality(Bytes(m)) - 1) : \E b \in Bytes(m) : Offset(m, b) = i
<1> DEFINE S == Bytes(m)
           R == {p \in S \X S : Before(p[1], p[2])}
           n == Cardinality(S)
<1>1. IsFiniteSet(S)
  BY EarlierSegments
<1>2. n \in Nat
  BY <1>1, FS_CardinalityType
<1>3. \A b \in S : b \in Streams \X Nat \X Nat /\ b[1] = StreamOf[m]
  BY BytesAreTriples
<1>4. \A b, c \in S : <<b, c>> \in R <=> Before(b, c)
  OBVIOUS
<1>5. StrictTotalOrder(R, S)
  <2> HIDE DEF S, R
  <2>1. \A x \in S : <<x, x>> \notin R
    BY <1>3, <1>4 DEF Before
  <2>2. \A x, y, z \in S : <<x, y>> \in R /\ <<y, z>> \in R => <<x, z>> \in R
    BY <1>3, <1>4 DEF Before
  <2>3. \A x, y \in S : x = y \/ <<x, y>> \in R \/ <<y, x>> \in R
    <3> TAKE x, y \in S
    <3>1. /\ x = <<x[1], x[2], x[3]>> /\ x[2] \in Nat /\ x[3] \in Nat /\ x[1] = StreamOf[m]
          /\ y = <<y[1], y[2], y[3]>> /\ y[2] \in Nat /\ y[3] \in Nat /\ y[1] = StreamOf[m]
      BY <1>3
    <3>2. x[2] = y[2] /\ x[3] = y[3] => x = y
      BY <3>1
    <3>3. Before(x, y) \/ Before(y, x) \/ (x[2] = y[2] /\ x[3] = y[3])
      BY <3>1 DEF Before
    <3>4. QED
      BY <1>4, <3>2, <3>3
  <2>4. QED
    BY <2>1, <2>2, <2>3 DEF StrictTotalOrder
<1>6. Rank(R, S) \in Bijection(S, 1..n)
  BY <1>1, <1>5, RankIsBijection
<1>7. ASSUME NEW b \in S
      PROVE  Rank(R, S)[b] = Offset(m, b) + 1 /\ Offset(m, b) \in Nat
  <2> DEFINE P == {c \in S : Before(c, b)}
  <2>1. UpTo(R, S, b) = P \cup {b}
    BY <1>4 DEF UpTo
  <2>2. b \notin P
    BY <1>3 DEF Before
  <2>3. IsFiniteSet(P) /\ Cardinality(P) \in Nat
    BY <1>1, FS_Subset, FS_CardinalityType
  <2>4. Cardinality(P \cup {b}) = Cardinality(P) + 1
    BY <2>2, <2>3, FS_AddElement
  <2>5. Rank(R, S)[b] = Cardinality(UpTo(R, S, b))
    BY DEF Rank
  <2>6. Offset(m, b) = Cardinality(P)
    BY DEF Offset
  <2>7. QED
    BY <2>1, <2>3, <2>4, <2>5, <2>6
<1>8. /\ \A b \in S : Rank(R, S)[b] \in 1..n
      /\ \A b, c \in S : Rank(R, S)[b] = Rank(R, S)[c] => b = c
      /\ \A i \in 1..n : \E b \in S : Rank(R, S)[b] = i
  BY <1>6 DEF Bijection, Injection, IsInjective, Surjection
<1> HIDE DEF S, R, n
<1>9. \A b \in S : Offset(m, b) \in 0..(n - 1)
  BY <1>2, <1>7, <1>8
<1>10. \A b, c \in S : Offset(m, b) = Offset(m, c) => b = c
  BY <1>7, <1>8
<1>11. ASSUME NEW i \in 0..(n - 1)
       PROVE  \E b \in S : Offset(m, b) = i
  <2>1. i + 1 \in 1..n
    BY <1>2
  <2>2. PICK b \in S : Rank(R, S)[b] = i + 1
    BY <1>8, <2>1
  <2>3. Offset(m, b) = i
    BY <1>7, <2>2
  <2>4. QED
    BY <2>3
<1>12. QED
  BY <1>9, <1>10, <1>11 DEF S, n

(* As many bytes as offsets. *)
LEMMA BytesAtOffsets ==
  ASSUME NEW m \in Manifests, GoodPlan(m), NEW W \in SUBSET (0..(Cardinality(Bytes(m)) - 1))
  PROVE  /\ IsFiniteSet(W) /\ IsFiniteSet({b \in Bytes(m) : Offset(m, b) \in W})
         /\ Cardinality({b \in Bytes(m) : Offset(m, b) \in W}) = Cardinality(W)
<1> DEFINE S == {b \in Bytes(m) : Offset(m, b) \in W}
           f == [b \in S |-> Offset(m, b)]
<1>1. f \in Bijection(S, W)
  <2>1. f \in [S -> W]
    OBVIOUS
  <2>2. \A a, b \in S : f[a] = f[b] => a = b
    BY OffsetsNumberTheBytes
  <2>3. \A w \in W : \E b \in S : f[b] = w
    <3> TAKE w \in W
    <3>1. PICK b \in Bytes(m) : Offset(m, b) = w
      BY OffsetsNumberTheBytes
    <3>2. b \in S /\ f[b] = w
      BY <3>1
    <3>3. QED
      BY <3>2
  <2>4. QED
    BY <2>1, <2>2, <2>3 DEF Bijection, Injection, IsInjective, Surjection
<1>2. IsFiniteSet(S)
  BY EarlierSegments, FS_Subset
<1>3. IsFiniteSet(W) /\ Cardinality(W) = Cardinality(S)
  BY <1>1, <1>2, FS_Bijection DEF ExistsBijection
<1>4. QED
  BY <1>2, <1>3

-------------------------------------------------------------------------------
(* Byte maps.  Chunks(mp, m): mp lists the first segments of manifest m end  *)
(* to end, each with the length upstream told or, if it told none, 1.      *)

Chunks(mp, m) ==
  /\ mp \in ByteMaps
  /\ Len(mp) <= Len(Plan(m))
  /\ \A i \in 1..Len(mp) :
       /\ mp[i].url = <<m, Plan(m)[i]>>
       /\ mp[i].length = Len(Body(mp[i].url)) \/ mp[i].length = 1
       /\ mp[i].end = mp[i].start + mp[i].length - 1
       /\ mp[i].start = IF i = 1 THEN 0 ELSE mp[i - 1].end + 1

(* A byte map of some manifest with the key. *)
Whole(mp, k) ==
  \E m \in Manifests : KeyOf(m) = k /\ GoodPlan(m) /\ Chunks(mp, m) /\ Len(mp) = Len(Plan(m))

AllTold(mp) == \A i \in 1..Len(mp) : mp[i].length = Len(Body(mp[i].url))

ChunkType == [url : Manifests \X Nat, start : Nat, end : Nat, length : Nat]

LEMMA BodyBytes ==
  ASSUME NEW m \in Manifests, GoodPlan(m), NEW n \in Announced(m)
  PROVE  /\ Body(<<m, n>>) \in Seq(Streams \X Nat \X Nat)
         /\ Len(Body(<<m, n>>)) = SizeIn(m, n)
         /\ \A x \in 1..SizeIn(m, n) : Body(<<m, n>>)[x] = <<StreamOf[m], n, x - 1>>
<1>1. Body(<<m, n>>) = [x \in 1..SizeIn(m, n) |-> <<StreamOf[m], n, x - 1>>]
  BY DEF Body, SegmentBytes, SizeIn
<1>2. n \in Nat /\ StreamOf[m] \in Streams /\ SizeIn(m, n) \in Nat
  BY SegmentSizes
<1>3. \A x \in 1..SizeIn(m, n) : <<StreamOf[m], n, x - 1>> \in Streams \X Nat \X Nat
  BY <1>2
<1>4. QED
  <2> DEFINE s == SizeIn(m, n)
             T == Streams \X Nat \X Nat
             B == [x \in 1..s |-> <<StreamOf[m], n, x - 1>>]
  <2>1. s \in Nat /\ \A x \in 1..s : B[x] \in T
    BY <1>2, <1>3
  <2>2. \A x \in 1..s : B[x] = <<StreamOf[m], n, x - 1>>
    OBVIOUS
  <2>3. B \in [1..s -> T]
    BY <2>1
  <2>4. B \in Seq(T) /\ Len(B) = s
    <3> HIDE DEF B, T, s
    <3>1. QED
      BY <2>1, <2>3
  <2>5. QED
    BY <1>1, <2>2, <2>4

LEMMA ChunkFacts ==
  ASSUME NEW m \in Manifests, GoodPlan(m), NEW mp, Chunks(mp, m), NEW i \in 1..Len(mp)
  PROVE  /\ mp[i] \in ChunkType /\ Len(mp) \in Nat
         /\ i \in 1..Len(Plan(m)) /\ Plan(m)[i] \in Announced(m) /\ mp[i].url = <<m, Plan(m)[i]>>
         /\ Len(Body(mp[i].url)) = SizeIn(m, Plan(m)[i]) /\ SizeIn(m, Plan(m)[i]) \in Nat \ {0}
         /\ mp[i].length \in 1..SizeIn(m, Plan(m)[i])
         /\ mp[i].end = mp[i].start + mp[i].length - 1
         /\ mp[i].start = IF i = 1 THEN 0 ELSE mp[i - 1].end + 1
<1>1. mp \in Seq(ChunkType)
  BY DEF Chunks, ByteMaps, ChunkType
<1>2. mp[i] \in ChunkType /\ Len(mp) \in Nat
  BY <1>1, ElementOfSeq, LenProperties
<1>3. i \in 1..Len(Plan(m))
  <2>1. Len(Plan(m)) \in Nat
    BY PlanIsAnnounced
  <2>2. QED
    BY <1>2, <2>1 DEF Chunks
<1>4. Plan(m)[i] \in Announced(m)
  BY <1>3, PlanIsAnnounced
<1>5. SizeIn(m, Plan(m)[i]) \in Nat \ {0}
  BY <1>4, SegmentSizes
<1>6. mp[i].url = <<m, Plan(m)[i]>> /\ Len(Body(<<m, Plan(m)[i]>>)) = SizeIn(m, Plan(m)[i])
  BY <1>4, BodyBytes DEF Chunks
<1>7. mp[i].length \in 1..SizeIn(m, Plan(m)[i])
  <2>1. mp[i].length = Len(Body(mp[i].url)) \/ mp[i].length = 1
    BY DEF Chunks
  <2>2. mp[i].length = SizeIn(m, Plan(m)[i]) \/ mp[i].length = 1
    BY <1>6, <2>1
  <2>3. QED
    BY <1>5, <2>2
<1>8. QED
  BY <1>2, <1>3, <1>4, <1>5, <1>6, <1>7 DEF Chunks

LEMMA WholeIsNotEmpty ==
  ASSUME NEW k, NEW mp, Whole(mp, k)
  PROVE  /\ mp \in ByteMaps /\ mp # <<>> /\ Len(mp) \in Nat \ {0}
         /\ Total(mp) = mp[Len(mp)].end + 1 /\ Total(mp) \in Nat \ {0}
<1>1. PICK m \in Manifests : GoodPlan(m) /\ Chunks(mp, m) /\ Len(mp) = Len(Plan(m))
  BY DEF Whole
<1>2. Len(mp) \in Nat \ {0}
  BY <1>1, PlanIsAnnounced
<1>3. mp \in ByteMaps
  BY <1>1 DEF Chunks
<1>4. mp # <<>>
  BY <1>2
<1>5. mp[Len(mp)] \in ChunkType
  BY <1>1, <1>2, ChunkFacts
<1>6. QED
  BY <1>2, <1>3, <1>4, <1>5 DEF Total, ChunkType

(* With true lengths a chunk starts at the offset of its first byte, and   *)
(* the map is as long as the file.                                         *)
LEMMA ChunksAreWhereTheBytesAre ==
  ASSUME NEW m \in Manifests, GoodPlan(m), NEW mp, Chunks(mp, m),
         Len(mp) = Len(Plan(m)), AllTold(mp)
  PROVE  /\ \A i \in 1..Len(mp) : mp[i].start = Cardinality(Earlier(m, Plan(m)[i]))
         /\ Total(mp) = Cardinality(Bytes(m))
<1> DEFINE n == Len(mp)
           Card(i) == Cardinality(Earlier(m, Plan(m)[i]))
           P == {i \in 0..(n - 1) : mp[i + 1].start = Card(i + 1)}
<1>1. n \in Nat \ {0}
  BY PlanIsAnnounced
<1>2. \A i \in 1..n : /\ mp[i] \in ChunkType /\ mp[i].length = SizeIn(m, Plan(m)[i])
                      /\ mp[i].end = mp[i].start + mp[i].length - 1
                      /\ mp[i].start = IF i = 1 THEN 0 ELSE mp[i - 1].end + 1
  BY ChunkFacts DEF AllTold
<1>3. \A i \in 1..n : /\ Card(i) \in Nat
                      /\ Card(i) = IF i = 1 THEN 0 ELSE Card(i - 1) + SizeIn(m, Plan(m)[i - 1])
  BY EarlierSegments
<1> HIDE DEF n, Card
<1>4. 0 \in P
  <2>1. 0 \in 0..(n - 1) /\ 0 + 1 = 1 /\ 1 \in 1..n
    BY <1>1
  <2>2. mp[1].start = Card(1)
    BY <1>2, <1>3, <2>1
  <2>3. QED
    BY <2>1, <2>2
<1>5. ASSUME NEW i \in 0..((n - 1) - 1), i \in P
      PROVE  i + 1 \in P
  <2> DEFINE k == i + 1
  <2>1. k \in 1..n /\ k + 1 \in 1..n /\ k + 1 # 1 /\ (k + 1) - 1 = k /\ k \in 0..(n - 1)
    BY <1>1
  <2>2. mp[k].start = Card(k)
    BY <1>5
  <2> HIDE DEF k
  <2>3. mp[k + 1].start = mp[k].end + 1 /\ mp[k].end = mp[k].start + SizeIn(m, Plan(m)[k]) - 1
    BY <1>2, <2>1
  <2>4. Card(k + 1) = Card(k) + SizeIn(m, Plan(m)[k])
    BY <1>3, <2>1
  <2>5. mp[k].start \in Nat /\ mp[k].length \in Nat /\ mp[k].length = SizeIn(m, Plan(m)[k])
    BY <1>2, <2>1 DEF ChunkType
  <2>6. mp[k + 1].start = Card(k + 1)
    BY <2>2, <2>3, <2>4, <2>5
  <2>7. k \in P
    BY <2>1, <2>6
  <2>8. QED
    BY <2>7 DEF k
<1>6. \A i \in 0..(n - 1) : i \in P
  <2> HIDE DEF P
  <2>1. n - 1 \in Nat
    BY <1>1
  <2>2. QED
    BY <1>4, <1>5, <2>1, BoundedInduction
<1>7. ASSUME NEW i \in 1..n
      PROVE  mp[i].start = Card(i)
  <2>1. i - 1 \in 0..(n - 1) /\ (i - 1) + 1 = i
    BY <1>1
  <2>2. QED
    BY <1>6, <2>1
<1>8. Total(mp) = Cardinality(Bytes(m))
  <2>1. n \in 1..n
    BY <1>1
  <2>2. mp # <<>>
    BY <1>1 DEF n
  <2>3. Cardinality(Bytes(m)) = Card(n) + SizeIn(m, Plan(m)[n])
    BY EarlierSegments DEF Card, n
  <2>4. mp[n].end = Card(n) + SizeIn(m, Plan(m)[n]) - 1
    BY <1>2, <1>7, <2>1
  <2>5. mp[n].length \in Nat /\ mp[n].length = SizeIn(m, Plan(m)[n]) /\ Card(n) \in Nat
    BY <1>2, <1>3, <2>1 DEF ChunkType
  <2>6. Total(mp) = mp[n].end + 1
    BY <2>2 DEF Total, n
  <2>7. QED
    BY <2>3, <2>4, <2>5, <2>6
<1>9. QED
  BY <1>7, <1>8 DEF n, Card

-------------------------------------------------------------------------------
(* Range headers.                                                          *)

Fit(h) == h \in RangeHeader /\ (h.kind \in {"from", "span"} => h.a >= 0)

(* parseStreamRange accepts no unsupported header, and of the others those *)
(* that want a byte of the file, or have no range; it gives the offsets    *)
(* they want.                                                              *)
LEMMA RangesMeanWhatTheySay ==
  ASSUME NEW h, Fit(h), NEW total \in Nat \ {0}
  PROVE  /\ ParseRange(h, total) \in Spans
         /\ ParseRange(h, total).ok <=> Supported(h) /\ Wanted(h, total) # {}
         /\ ParseRange(h, total).ok /\ ~ParseRange(h, total).partial
            => h.kind = "none" /\ Wanted(h, total) = 0..(total - 1)
         /\ ParseRange(h, total).ok /\ ParseRange(h, total).partial
            => /\ h.kind # "none"
               /\ Wanted(h, total) = ParseRange(h, total).start..ParseRange(h, total).end
<1>1. h.kind \in {"none", "unsupported", "suffix", "from", "span"} /\ h.a \in Int /\ h.b \in Int
  BY DEF Fit, RangeHeader
<1>2. NoRange \in Spans /\ BadRange \in Spans
  BY DEF NoRange, BadRange, Spans
<1>3. \A a, b \in Nat : Span(a, b) \in Spans
  BY DEF Span, Spans
<1>4. 0 \in 0..(total - 1) /\ total - 1 \in Nat
  OBVIOUS
<1>5. CASE h.kind = "none"
  <2>1. ParseRange(h, total) = NoRange
    BY <1>5 DEF ParseRange
  <2>2. Wanted(h, total) = 0..(total - 1)
    BY <1>5 DEF Wanted
  <2>3. NoRange.ok /\ ~NoRange.partial
    BY DEF NoRange
  <2>4. QED
    BY <1>2, <1>4, <1>5, <2>1, <2>2, <2>3 DEF Supported
<1>6. CASE h.kind = "unsupported"
  <2>1. ParseRange(h, total) = BadRange
    BY <1>6 DEF ParseRange
  <2>2. ~BadRange.ok
    BY DEF BadRange
  <2>3. QED
    BY <1>2, <1>6, <2>1, <2>2 DEF Supported
<1>7. ASSUME NEW a \in Nat, NEW b \in Nat, a <= b,
             ParseRange(h, total) = Span(a, b), Wanted(h, total) = a..b
      PROVE  /\ ParseRange(h, total) \in Spans
             /\ ParseRange(h, total).ok /\ ParseRange(h, total).partial
             /\ Wanted(h, total) # {}
             /\ Wanted(h, total) = ParseRange(h, total).start..ParseRange(h, total).end
  <2>1. Span(a, b).ok /\ Span(a, b).partial /\ Span(a, b).start = a /\ Span(a, b).end = b
    BY DEF Span
  <2>2. a \in a..b
    BY <1>7
  <2>3. QED
    BY <1>3, <1>7, <2>1, <2>2
<1>8. ASSUME ParseRange(h, total) = BadRange, Wanted(h, total) = {}
      PROVE  ParseRange(h, total) \in Spans /\ ~ParseRange(h, total).ok
  BY <1>2, <1>8 DEF BadRange
<1>9. CASE h.kind = "suffix"
  <2> DEFINE n == Least(h.a, total)
  <2>1. Wanted(h, total) = {i \in 0..(total - 1) : i >= total - h.a}
    BY <1>9 DEF Wanted
  <2>2. CASE h.a > 0
    <3>1. n \in 1..total /\ total - n \in Nat /\ total - n < total /\ total - n <= total - 1
      BY <1>1, <2>2 DEF Least
    <3>2. ParseRange(h, total) = Span(total - n, total - 1)
      BY <1>9, <2>2, <3>1 DEF ParseRange, InFile, SuffixStart
    <3>3. \A i \in 0..(total - 1) : i >= total - h.a <=> i >= total - n
      BY <1>1 DEF Least
    <3>4. Wanted(h, total) = (total - n)..(total - 1)
      <4> HIDE DEF n
      <4>1. \A i : i \in (total - n)..(total - 1) <=> i \in 0..(total - 1) /\ i >= total - n
        BY <3>1
      <4>2. QED
        BY <2>1, <3>3, <4>1
    <3>5. QED
      BY <1>4, <1>7, <1>9, <3>1, <3>2, <3>4 DEF Supported
  <2>3. CASE ~(h.a > 0)
    <3>1. ParseRange(h, total) = BadRange
      BY <1>9, <2>3 DEF ParseRange
    <3>2. Wanted(h, total) = {}
      BY <1>1, <2>1, <2>3
    <3>3. QED
      BY <1>8, <3>1, <3>2
  <2>4. QED
    BY <2>2, <2>3
<1>10. CASE h.kind = "from"
  <2>1. Wanted(h, total) = {i \in 0..(total - 1) : i >= h.a}
    BY <1>10 DEF Wanted
  <2>2. h.a \in Nat
    BY <1>1, <1>10 DEF Fit
  <2>3. CASE h.a < total
    <3>1. ParseRange(h, total) = Span(h.a, total - 1)
      BY <1>10, <2>3 DEF ParseRange, InFile
    <3>2. Wanted(h, total) = h.a..(total - 1) /\ h.a <= total - 1
      BY <2>1, <2>2, <2>3
    <3>3. QED
      BY <1>4, <1>7, <1>10, <2>2, <3>1, <3>2 DEF Supported
  <2>4. CASE ~(h.a < total)
    <3>1. ParseRange(h, total) = BadRange
      BY <1>10, <2>4 DEF ParseRange, InFile
    <3>2. Wanted(h, total) = {}
      BY <2>1, <2>2, <2>4
    <3>3. QED
      BY <1>8, <3>1, <3>2
  <2>5. QED
    BY <2>3, <2>4
<1>11. CASE h.kind = "span"
  <2>1. Wanted(h, total) = {i \in 0..(total - 1) : i >= h.a /\ i <= h.b}
    BY <1>11 DEF Wanted
  <2>2. h.a \in Nat
    BY <1>1, <1>11 DEF Fit
  <2>3. CASE h.a <= h.b /\ h.a < total
    <3> DEFINE e == Least(h.b, total - 1)
    <3>1. ParseRange(h, total) = Span(h.a, e)
      BY <1>11, <2>3 DEF ParseRange, InFile
    <3>2. e \in Nat /\ h.a <= e /\ \A i \in Int : i <= e <=> i <= h.b /\ i <= total - 1
      BY <1>1, <2>2, <2>3 DEF Least
    <3>3. Wanted(h, total) = h.a..e
      <4> HIDE DEF e
      <4>1. QED
        BY <2>1, <2>2, <3>2
    <3>4. QED
      BY <1>7, <1>11, <2>2, <3>1, <3>2, <3>3 DEF Supported
  <2>4. CASE ~(h.a <= h.b /\ h.a < total)
    <3>1. ParseRange(h, total) = BadRange
      BY <1>11, <2>4 DEF ParseRange, InFile
    <3>2. Wanted(h, total) = {}
      BY <1>1, <2>1, <2>2, <2>4
    <3>3. QED
      BY <1>8, <3>1, <3>2
  <2>5. QED
    BY <2>3, <2>4
<1>12. QED
  BY <1>1, <1>5, <1>6, <1>9, <1>10, <1>11

-------------------------------------------------------------------------------
(* The invariant.  Until it replies a request has written nothing; the map *)
(* it builds lists the first segments of its manifest; what it and the     *)
(* cache have afterwards is a whole map, and the reply is the one          *)
(* parseStreamRange gives for its length.                                  *)

HasMap(j) == GoodPlan(manifest[j]) /\ Whole(map[j], Key(j))

Replied(j) ==
  LET total == Total(map[j])
      r     == ParseRange(header[j], total) IN
    /\ r.ok
    /\ status[j] = IF r.partial THEN 206 ELSE 200
    /\ span[j] = IF r.partial THEN r ELSE Span(0, total - 1)

JobInv(j) ==
  /\ Fit(header[j])
  /\ at[j] \in {"resolve", "lookup", "proxy"} => map[j] = <<>> /\ next[j] = 1
  /\ at[j] \in {"resolve", "lookup", "proxy", "probe", "store", "range"} => status[j] = 0 /\ out[j] = <<>>
  /\ at[j] = "probe" => /\ GoodPlan(manifest[j]) /\ Chunks(map[j], manifest[j])
                        /\ next[j] = Len(map[j]) + 1 /\ Len(map[j]) < Len(Plan(manifest[j]))
  /\ at[j] = "store" => /\ GoodPlan(manifest[j]) /\ Chunks(map[j], manifest[j])
                        /\ next[j] = Len(map[j]) + 1 /\ Len(map[j]) = Len(Plan(manifest[j]))
  /\ at[j] = "range" => HasMap(j)
  /\ at[j] = "copy" => map[j] # <<>> /\ status[j] \in {200, 206} /\ next[j] \in 1..Len(map[j])
  /\ status[j] \in {200, 206} /\ map[j] # <<>> => at[j] \in {"copy", "done"} /\ HasMap(j) /\ Replied(j)
  /\ status[j] = 416 => HasMap(j) /\ ~ParseRange(header[j], Total(map[j])).ok

CacheInv ==
  \A k \in Keys : fresh[k] \/ cache[k] # NoMap => Whole(cache[k], k)

IInv == TypeOK /\ CacheInv /\ \A j \in Requests : JobInv(j)

(* A step of one request leaves the others alone. *)
OthersStay(j) ==
  \A k \in Requests \ {j} :
    /\ at'[k] = at[k] /\ map'[k] = map[k] /\ next'[k] = next[k]
    /\ status'[k] = status[k] /\ span'[k] = span[k] /\ out'[k] = out[k]

LEMMA OneRequestMoves ==
  ASSUME TypeOK, NEW j \in Requests, Step(j)
  PROVE  OthersStay(j) /\ manifest' = manifest /\ header' = header
<1> USE DEF OthersStay, TypeOK, asked, caching
<1>1. CASE Resolve(j)
  BY <1>1 DEF Resolve, Move, Answer
<1>2. CASE Proxy(j)
  BY <1>2 DEF Proxy, Move, Answer
<1>3. CASE Lookup(j)
  BY <1>3 DEF Lookup, Move, Answer
<1>4. CASE Probe(j)
  BY <1>4 DEF Probe, Move, Answer
<1>5. CASE Store(j)
  BY <1>5 DEF Store, Move
<1>6. CASE Reply(j)
  BY <1>6 DEF Reply, Move, Answer
<1>7. CASE Skip(j)
  BY <1>7 DEF Skip, Continue, Move
<1>8. CASE CopyChunk(j)
  BY <1>8 DEF CopyChunk, Fetch, Continue, Move
<1>9. CASE CopyFails(j)
  BY <1>9 DEF CopyFails, Fetch, Move
<1>10. QED
  BY <1>1, <1>2, <1>3, <1>4, <1>5, <1>6, <1>7, <1>8, <1>9 DEF Step

LEMMA OthersKeepJobInv ==
  ASSUME NEW j \in Requests, OthersStay(j), manifest' = manifest, header' = header,
         NEW k \in Requests \ {j}, JobInv(k)
  PROVE  JobInv(k)'
BY DEF OthersStay, JobInv, HasMap, Replied, Key

LEMMA InvariantStarts ==
  Init => IInv
<1> SUFFICES ASSUME Init
             PROVE  IInv
  OBVIOUS
<1>1. TypeOK
  <2>1. NoRange \in Spans
    BY DEF NoRange, Spans
  <2>2. <<>> \in ByteMaps /\ Len(<<>>) = 0 /\ <<>> \in Seq(Streams \X Nat \X Nat)
    BY EmptySeq DEF ByteMaps
  <2>3. header \in [Requests -> RangeHeader]
    BY DashAssumption DEF Init
  <2>4. QED
    BY <2>1, <2>2, <2>3 DEF Init, TypeOK, PCs, Statuses
<1>2. CacheInv
  BY DEF Init, CacheInv
<1>3. ASSUME NEW j \in Requests
      PROVE  JobInv(j)
  <2>1. Fit(header[j])
    BY DashAssumption DEF Init, Fit
  <2>2. QED
    BY <2>1 DEF Init, JobInv
<1>4. QED
  BY <1>1, <1>2, <1>3 DEF IInv

LEMMA AppendedChunk ==
  ASSUME NEW m \in Manifests, GoodPlan(m), NEW mp, Chunks(mp, m), Len(mp) < Len(Plan(m)),
         NEW n \in Nat, n = Len(Body(<<m, Plan(m)[Len(mp) + 1]>>)) \/ n = 1
  PROVE  /\ Chunks(WithChunk(mp, <<m, Plan(m)[Len(mp) + 1]>>, n), m)
         /\ Len(WithChunk(mp, <<m, Plan(m)[Len(mp) + 1]>>, n)) = Len(mp) + 1
<1> DEFINE l == Len(mp)
           url == <<m, Plan(m)[l + 1]>>
           c == [url |-> url, start |-> Total(mp), end |-> Total(mp) + n - 1, length |-> n]
           mq == WithChunk(mp, url, n)
<1>1. mp \in Seq(ChunkType) /\ l \in Nat
  BY DEF Chunks, ByteMaps, ChunkType
<1>2. l + 1 \in 1..Len(Plan(m)) /\ Len(Plan(m)) \in Nat
  BY <1>1, PlanIsAnnounced
<1>3. Plan(m)[l + 1] \in Announced(m)
  BY <1>2, PlanIsAnnounced
<1>4. url \in Manifests \X Nat
  BY <1>3, SegmentSizes
<1>5. n >= 1
  BY <1>3, SegmentSizes, BodyBytes
<1>6. Total(mp) \in Nat /\ Total(mp) = IF l = 0 THEN 0 ELSE mp[l].end + 1
  <2>1. CASE mp = <<>>
    BY <2>1 DEF Total
  <2>2. CASE mp # <<>>
    <3>1. l # 0 /\ l \in 1..l
      BY <1>1, <2>2
    <3>2. mp[l] \in ChunkType
      BY <1>1, <3>1, ElementOfSeq
    <3>3. QED
      BY <2>2, <3>1, <3>2 DEF Total, ChunkType
  <2>3. QED
    BY <2>1, <2>2
<1>7. c \in ChunkType
  BY <1>4, <1>5, <1>6 DEF ChunkType
<1>8. mq = Append(mp, c)
  BY DEF WithChunk
<1> HIDE DEF mq, c
<1>9. /\ mq \in Seq(ChunkType) /\ Len(mq) = l + 1
      /\ \A i \in 1..l : mq[i] = mp[i]
      /\ mq[l + 1] = c
  BY <1>1, <1>7, <1>8
<1>10. ASSUME NEW i \in 1..(l + 1)
       PROVE  /\ mq[i].url = <<m, Plan(m)[i]>>
              /\ mq[i].length = Len(Body(mq[i].url)) \/ mq[i].length = 1
              /\ mq[i].end = mq[i].start + mq[i].length - 1
              /\ mq[i].start = IF i = 1 THEN 0 ELSE mq[i - 1].end + 1
  <2>1. CASE i \in 1..l
    <3>1. /\ mp[i].url = <<m, Plan(m)[i]>>
          /\ mp[i].length = Len(Body(mp[i].url)) \/ mp[i].length = 1
          /\ mp[i].end = mp[i].start + mp[i].length - 1
          /\ mp[i].start = IF i = 1 THEN 0 ELSE mp[i - 1].end + 1
      BY <2>1 DEF Chunks
    <3>2. i # 1 => i - 1 \in 1..l
      BY <1>1, <2>1
    <3>3. mq[i] = mp[i] /\ (i # 1 => mq[i - 1] = mp[i - 1])
      BY <1>9, <2>1, <3>2
    <3>4. QED
      BY <3>1, <3>3
  <2>2. CASE i = l + 1
    <3>1. mq[i] = c
      BY <1>9, <2>2
    <3>2. c.url = url /\ c.length = n /\ c.start = Total(mp) /\ c.end = Total(mp) + n - 1
      BY DEF c
    <3>3. c.start = IF i = 1 THEN 0 ELSE mq[i - 1].end + 1
      <4>1. CASE l = 0
        BY <1>6, <2>2, <3>2, <4>1
      <4>2. CASE l # 0
        <5>1. i - 1 = l /\ l \in 1..l /\ i # 1
          BY <1>1, <2>2, <4>2
        <5>2. mq[l] = mp[l]
          BY <1>9, <5>1
        <5>3. QED
          BY <1>6, <3>2, <4>2, <5>1, <5>2
      <4>3. QED
        BY <4>1, <4>2
    <3>4. QED
      BY <2>2, <3>1, <3>2, <3>3
  <2>3. QED
    BY <1>1, <2>1, <2>2
<1>11. Chunks(mq, m)
  <2>1. mq \in ByteMaps
    BY <1>9 DEF ByteMaps, ChunkType
  <2>2. Len(mq) <= Len(Plan(m))
    BY <1>1, <1>2, <1>9
  <2>3. \A i \in 1..Len(mq) :
          /\ mq[i].url = <<m, Plan(m)[i]>>
          /\ mq[i].length = Len(Body(mq[i].url)) \/ mq[i].length = 1
          /\ mq[i].end = mq[i].start + mq[i].length - 1
          /\ mq[i].start = IF i = 1 THEN 0 ELSE mq[i - 1].end + 1
    BY <1>9, <1>10
  <2>4. QED
    BY <2>1, <2>2, <2>3 DEF Chunks
<1>12. QED
  BY <1>9, <1>11 DEF mq

(* What copyChunkRange writes: bytes of the chunk's segment, in order,     *)
(* each at an offset within the span.                                      *)
PieceOf(piece, j, m) ==
  /\ piece \in Seq(Streams \X Nat \X Nat)
  /\ \A x \in 1..Len(piece) :
       \E k \in 0..(SizeIn(m, Plan(m)[next[j]]) - 1) :
         /\ piece[x] = <<StreamOf[m], Plan(m)[next[j]], k>>
         /\ Chunk(j).start + k \in span[j].start..span[j].end
  /\ \A x, y \in 1..Len(piece) : x < y => piece[x][3] < piece[y][3]

LEMMA FetchWritesAPiece ==
  ASSUME TypeOK, NEW j \in Requests, JobInv(j), Fetch(j),
         NEW m \in Manifests, GoodPlan(m), Chunks(map[j], m)
  PROVE  \E piece : out' = [out EXCEPT ![j] = @ \o piece] /\ PieceOf(piece, j, m)
<1> DEFINE c     == Chunk(j)
           start == LocalStart(c, span[j].start)
           end   == LocalEnd(c, span[j].end)
           body  == Body(c.url)
           T     == Streams \X Nat \X Nat
           seg   == Plan(m)[next[j]]
           s     == SizeIn(m, seg)
<1>1. next[j] \in 1..Len(map[j])
  BY DEF JobInv, Fetch
<1>2. /\ c \in ChunkType /\ seg \in Announced(m) /\ c.url = <<m, seg>>
      /\ s \in Nat \ {0} /\ c.length \in 1..s /\ c.end = c.start + c.length - 1
  BY <1>1, ChunkFacts DEF Chunk
<1>3. body \in Seq(T) /\ Len(body) = s /\ \A x \in 1..s : body[x] = <<StreamOf[m], seg, x - 1>>
  <2>1. /\ Body(<<m, seg>>) \in Seq(T) /\ Len(Body(<<m, seg>>)) = s
        /\ \A x \in 1..s : Body(<<m, seg>>)[x] = <<StreamOf[m], seg, x - 1>>
    <3> HIDE DEF seg
    <3>1. QED
      BY <1>2, BodyBytes
  <2>2. body = Body(<<m, seg>>)
    BY <1>2
  <2> HIDE DEF body, T, s, seg
  <2>3. QED
    BY <2>1, <2>2
<1>4. span[j].start \in Nat /\ span[j].end \in Nat /\ c.start \in Nat /\ c.length \in Nat
  <2>1. span[j] \in Spans
    BY DEF TypeOK
  <2>2. span[j].start \in Nat /\ span[j].end \in Nat
    BY <2>1 DEF Spans
  <2> HIDE DEF c
  <2>3. QED
    BY <1>2, <2>2 DEF ChunkType
<1>5. Touches(c, span[j].start, span[j].end)
  BY DEF Fetch
<1> HIDE DEF c, seg, s
<1>6. /\ start \in Nat /\ end \in Nat
      /\ start \in 0..(c.length - 1) /\ end \in 0..(c.length - 1)
      /\ c.start + start >= span[j].start /\ c.start + end <= span[j].end
  BY <1>2, <1>4, <1>5 DEF Touches, LocalStart, LocalEnd
<1>7. PICK got \in {SubSeq(body, start + 1, end + 1), Discarded(body, start)} :
        \E n \in 0..Least(end - start + 1, Len(got)) :
          out' = [out EXCEPT ![j] = @ \o SubSeq(got, 1, n)]
  BY DEF Fetch, c
<1> HIDE DEF start, end, body, T
<1>8. PICK last \in {end + 1, s} : got = SubSeq(body, start + 1, last)
  BY <1>3, <1>7 DEF Discarded
<1>9. last \in 1..s /\ start + 1 \in 1..s
  BY <1>2, <1>6, <1>8
<1>10. \A i \in (start + 1)..last : body[i] \in T
  <2>1. \A i \in (start + 1)..last : i \in 1..s
    BY <1>2, <1>6, <1>9
  <2>2. QED
    BY <1>3, <2>1, ElementOfSeq
<1>11. /\ got \in Seq(T)
       /\ Len(got) = IF start + 1 <= last THEN last - (start + 1) + 1 ELSE 0
       /\ \A i \in 1..(last - (start + 1) + 1) : got[i] = body[start + 1 + i - 1]
  BY <1>8, <1>9, <1>10, SubSeqProperties
<1>12. Len(got) \in Nat
  BY <1>11, LenProperties
<1>13. PICK n \in 0..Least(end - start + 1, Len(got)) :
         out' = [out EXCEPT ![j] = @ \o SubSeq(got, 1, n)]
  BY <1>7
<1>14. n \in Nat /\ n <= Len(got) /\ n <= end - start + 1
  BY <1>6, <1>12 DEF Least
<1> DEFINE piece == SubSeq(got, 1, n)
<1>15. piece \in Seq(T) /\ Len(piece) = n /\ \A x \in 1..n : piece[x] = got[x]
  <2>1. \A i \in 1..n : got[i] \in T
    BY <1>11, <1>12, <1>14, ElementOfSeq
  <2>2. /\ piece \in Seq(T) /\ Len(piece) = (IF 1 <= n THEN n - 1 + 1 ELSE 0)
        /\ \A x \in 1..(n - 1 + 1) : piece[x] = got[1 + x - 1]
    BY <1>14, <2>1, SubSeqProperties
  <2>3. \A x \in 1..n : x \in 1..(n - 1 + 1) /\ 1 + x - 1 = x
    BY <1>14
  <2>4. Len(piece) = n
    <3> HIDE DEF piece
    <3>1. QED
      BY <1>14, <2>2
  <2>5. QED
    BY <2>2, <2>3, <2>4
<1>16. ASSUME NEW x \in 1..n
       PROVE  /\ start + x - 1 \in 0..(s - 1) /\ piece[x] = <<StreamOf[m], seg, start + x - 1>>
              /\ c.start + (start + x - 1) \in span[j].start..span[j].end
  <2>1. x \in Nat /\ x >= 1 /\ x <= end - start + 1 /\ x <= Len(got)
    BY <1>6, <1>12, <1>14
  <2>2. x \in 1..(last - (start + 1) + 1)
    BY <1>6, <1>9, <1>11, <2>1
  <2>3. start + x \in 1..s /\ start + 1 + x - 1 = start + x
    BY <1>2, <1>6, <1>9, <2>2
  <2>4. piece[x] = body[start + x]
    <3>1. piece[x] = got[x]
      BY <1>15
    <3>2. got[x] = body[start + 1 + x - 1]
      BY <1>11, <2>2
    <3>3. QED
      BY <2>3, <3>1, <3>2
  <2>5. body[start + x] = <<StreamOf[m], seg, (start + x) - 1>>
    BY <1>3, <2>3
  <2>6. (start + x) - 1 = start + x - 1 /\ start + x - 1 \in 0..(s - 1)
    BY <1>2, <1>6, <2>1, <2>3
  <2>7. c.start + (start + x - 1) \in span[j].start..span[j].end
    <3> DEFINE k == start + x - 1
               a == c.start
               from == span[j].start
               to == span[j].end
    <3>1. k \in Nat /\ k >= start /\ k <= end
      <4>1. start \in Nat /\ end \in Nat /\ x \in Nat /\ x >= 1 /\ x <= end - start + 1
        BY <1>6, <2>1
      <4>2. QED
        BY <4>1
    <3>2. a \in Nat /\ from \in Nat /\ to \in Nat /\ a + start >= from /\ a + end <= to
      BY <1>4, <1>6
    <3> HIDE DEF k, a, from, to
    <3>3. a + k \in from..to
      <4>1. start \in Nat /\ end \in Nat
        BY <1>6
      <4>2. QED
        BY <3>1, <3>2, <4>1
    <3>4. QED
      BY <3>3 DEF k, a, from, to
  <2>8. QED
    BY <2>4, <2>5, <2>6, <2>7
<1> HIDE DEF piece
<1>17. \A x \in 1..Len(piece) :
         \E k \in 0..(s - 1) : piece[x] = <<StreamOf[m], seg, k>> /\ c.start + k \in span[j].start..span[j].end
  BY <1>15, <1>16
<1>18. \A x, y \in 1..Len(piece) : x < y => piece[x][3] < piece[y][3]
  <2> SUFFICES ASSUME NEW x \in 1..n, NEW y \in 1..n, x < y
               PROVE  piece[x][3] < piece[y][3]
    BY <1>15
  <2>1. piece[x] = <<StreamOf[m], seg, start + x - 1>> /\ piece[y] = <<StreamOf[m], seg, start + y - 1>>
    BY <1>16
  <2>2. QED
    BY <1>6, <1>14, <2>1
<1>19. PieceOf(piece, j, m)
  BY <1>15, <1>17, <1>18 DEF PieceOf, T, c, seg, s
<1>20. QED
  BY <1>13, <1>19 DEF piece

LEMMA TheMapIsWhole ==
  ASSUME TypeOK, NEW j \in Requests, JobInv(j), at[j] \in {"store", "range", "copy"}
  PROVE  HasMap(j)
<1>1. manifest[j] \in Manifests
  BY DEF TypeOK
<1>2. CASE at[j] = "store"
  BY <1>1, <1>2 DEF JobInv, HasMap, Whole, Key
<1>3. CASE at[j] = "range"
  BY <1>3 DEF JobInv
<1>4. CASE at[j] = "copy"
  BY <1>4 DEF JobInv
<1>5. QED
  BY <1>2, <1>3, <1>4

LEMMA ProbeAppends ==
  ASSUME TypeOK, NEW j \in Requests, JobInv(j), at[j] = "probe",
         NEW answer \in ProbeAnswers,
         Probed(answer, <<manifest[j], Plan(manifest[j])[next[j]]>>) # 0
  PROVE  LET url == <<manifest[j], Plan(manifest[j])[next[j]]>>
             mp  == WithChunk(map[j], url, Probed(answer, url)) IN
           Chunks(mp, manifest[j]) /\ Len(mp) = Len(map[j]) + 1 /\ mp \in ByteMaps
<1> DEFINE m   == manifest[j]
           url == <<m, Plan(m)[next[j]]>>
           n   == Probed(answer, url)
<1>1. m \in Manifests
  BY DEF TypeOK
<1>2. GoodPlan(m) /\ Chunks(map[j], m) /\ next[j] = Len(map[j]) + 1 /\ Len(map[j]) < Len(Plan(m))
  BY DEF JobInv
<1>3. Len(map[j]) \in Nat /\ Len(Plan(m)) \in Nat
  BY <1>1, <1>2, PlanIsAnnounced DEF TypeOK, ByteMaps
<1>4. Plan(m)[next[j]] \in Announced(m)
  <2>1. next[j] \in 1..Len(Plan(m))
    BY <1>2, <1>3
  <2>2. QED
    BY <1>1, <1>2, <2>1, PlanIsAnnounced
<1>5. Len(Body(url)) \in Nat
  BY <1>1, <1>2, <1>4, SegmentSizes, BodyBytes
<1>6. n = Len(Body(url)) \/ n = 1
  <2>1. answer \in {"head", "total", "length", "unknown", "silent", "fails"}
    BY DashAssumption
  <2>2. CASE answer \in {"head", "total", "length"}
    BY <2>2 DEF Probed
  <2>3. CASE answer = "unknown"
    BY <2>3 DEF Probed
  <2>4. CASE answer \in {"silent", "fails"}
    BY <2>4 DEF Probed
  <2>5. QED
    BY <2>1, <2>2, <2>3, <2>4
<1>7. n \in Nat
  BY <1>5, <1>6
<1>8. Chunks(WithChunk(map[j], url, n), m) /\ Len(WithChunk(map[j], url, n)) = Len(map[j]) + 1
  <2> HIDE DEF n, m
  <2>1. url = <<m, Plan(m)[Len(map[j]) + 1]>>
    BY <1>2
  <2>2. QED
    BY <1>1, <1>2, <1>6, <1>7, <2>1, AppendedChunk
<1>9. QED
  BY <1>8 DEF Chunks

LEMMA FetchTypes ==
  ASSUME TypeOK, NEW j \in Requests, JobInv(j), Fetch(j)
  PROVE  out' \in [Requests -> Seq(Streams \X Nat \X Nat)]
<1>1. at[j] = "copy"
  BY DEF Fetch
<1>2. PICK m \in Manifests : GoodPlan(m) /\ Chunks(map[j], m)
  BY <1>1, TheMapIsWhole DEF HasMap, Whole
<1>3. PICK piece : out' = [out EXCEPT ![j] = @ \o piece] /\ PieceOf(piece, j, m)
  BY <1>2, FetchWritesAPiece
<1> DEFINE T == Streams \X Nat \X Nat
<1>4. piece \in Seq(T) /\ out[j] \in Seq(T)
  BY <1>3 DEF PieceOf, TypeOK
<1>5. out[j] \o piece \in Seq(T)
  <2> HIDE DEF T
  <2>1. QED
    BY <1>4, ConcatProperties
<1>6. QED
  BY <1>3, <1>5 DEF TypeOK

LEMMA MoveTypes ==
  ASSUME TypeOK, NEW j \in Requests
  PROVE  /\ \A pc \in PCs : Move(j, pc) => at' \in [Requests -> PCs]
         /\ \A code \in Statuses : Answer(j, code)
              => at' \in [Requests -> PCs] /\ status' \in [Requests -> Statuses]
<1>1. at \in [Requests -> PCs] /\ status \in [Requests -> Statuses]
  BY DEF TypeOK
<1>2. \A pc \in PCs : Move(j, pc) => at' \in [Requests -> PCs]
  BY <1>1 DEF Move
<1>3. "done" \in PCs
  BY DEF PCs
<1>4. QED
  BY <1>1, <1>2, <1>3 DEF Answer

LEMMA TypesKept ==
  ASSUME IInv, NEW j \in Requests, Step(j)
  PROVE  TypeOK'
<1> USE DEF asked, caching
<1>1. TypeOK /\ JobInv(j)
  BY DEF IInv
<1>2. manifest[j] \in Manifests /\ Key(j) \in Keys
  BY <1>1 DEF TypeOK, Key, Keys
<1> DEFINE Moved == at' \in [Requests -> PCs]
           Said  == status' \in [Requests -> Statuses]
<1>3. /\ \A pc \in PCs : Move(j, pc) => Moved
      /\ \A code \in Statuses : Answer(j, code) => Moved /\ Said
  BY <1>1, MoveTypes
<1>4. status' = status => Said
  BY <1>1 DEF TypeOK
<1>5. /\ \A pc \in {"lookup", "proxy", "probe", "store", "range", "copy", "done"} : pc \in PCs
      /\ \A code \in {200, 206, 416, 502} : code \in Statuses
  BY DEF PCs, Statuses
<1> HIDE DEF Moved, Said
<1>6. CASE Resolve(j)
  <2>1. Moved /\ Said
    BY <1>3, <1>4, <1>5, <1>6 DEF Resolve
  <2>2. UNCHANGED <<cache, fresh, manifest, header, map, next, span, out>>
    BY <1>6 DEF Resolve
  <2>3. QED
    BY <1>1, <2>1, <2>2 DEF TypeOK, Moved, Said
<1>7. CASE Proxy(j)
  <2>1. Moved /\ Said
    BY <1>3, <1>5, <1>7 DEF Proxy
  <2>2. UNCHANGED <<cache, fresh, manifest, header, map, next, span, out>>
    BY <1>7 DEF Proxy
  <2>3. QED
    BY <1>1, <2>1, <2>2 DEF TypeOK, Moved, Said
<1>8. CASE Lookup(j)
  <2>1. Moved /\ Said
    BY <1>3, <1>4, <1>5, <1>8 DEF Lookup
  <2>2. UNCHANGED <<cache, fresh, manifest, header, next, span, out>>
    BY <1>8 DEF Lookup
  <2>3. fresh[Key(j)] => cache[Key(j)] \in ByteMaps
    BY <1>2, WholeIsNotEmpty DEF IInv, CacheInv
  <2>4. map' \in [Requests -> ByteMaps]
    BY <1>1, <1>8, <2>3 DEF Lookup, TypeOK
  <2>5. QED
    BY <1>1, <2>1, <2>2, <2>4 DEF TypeOK, Moved, Said
<1>9. CASE Probe(j)
  <2> DEFINE url == <<manifest[j], Plan(manifest[j])[next[j]]>>
  <2>1. PICK answer \in ProbeAnswers :
          IF Probed(answer, url) = 0
          THEN Answer(j, 502) /\ UNCHANGED <<map, next>>
          ELSE /\ map' = [map EXCEPT ![j] = WithChunk(@, url, Probed(answer, url))]
               /\ next' = [next EXCEPT ![j] = @ + 1]
               /\ Move(j, IF next[j] = Len(Plan(manifest[j])) THEN "store" ELSE "probe")
               /\ UNCHANGED status
    BY <1>9 DEF Probe
  <2>2. at[j] = "probe" /\ UNCHANGED <<cache, fresh, manifest, header, span, out>>
    BY <1>9 DEF Probe
  <2> HIDE DEF url
  <2>3. Moved /\ Said
    <3>1. (IF next[j] = Len(Plan(manifest[j])) THEN "store" ELSE "probe") \in PCs
      BY <1>5
    <3>2. QED
      BY <1>3, <1>4, <1>5, <2>1, <3>1
  <2>4. map' \in [Requests -> ByteMaps] /\ next' \in [Requests -> Nat \ {0}]
    <3>1. map \in [Requests -> ByteMaps] /\ next \in [Requests -> Nat \ {0}]
      BY <1>1 DEF TypeOK
    <3>2. CASE Probed(answer, url) = 0
      BY <2>1, <3>1, <3>2
    <3>3. CASE Probed(answer, url) # 0
      <4>1. WithChunk(map[j], url, Probed(answer, url)) \in ByteMaps
        BY <1>1, <2>2, <3>3, ProbeAppends DEF url
      <4>2. /\ map' = [map EXCEPT ![j] = WithChunk(map[j], url, Probed(answer, url))]
            /\ next' = [next EXCEPT ![j] = next[j] + 1]
        BY <2>1, <3>3
      <4>3. next[j] + 1 \in Nat \ {0}
        BY <3>1
      <4>4. QED
        BY <3>1, <4>1, <4>2, <4>3
    <3>4. QED
      BY <3>2, <3>3
  <2>5. QED
    BY <1>1, <2>2, <2>3, <2>4 DEF TypeOK, Moved, Said
<1>10. CASE Store(j)
  <2>1. map[j] \in ByteMaps /\ map[j] # <<>>
    BY <1>1, <1>10, TheMapIsWhole, WholeIsNotEmpty DEF Store, HasMap
  <2>2. Moved /\ Said
    BY <1>3, <1>4, <1>5, <1>10 DEF Store
  <2>3. UNCHANGED <<manifest, header, map, next, span, out>>
    BY <1>10 DEF Store
  <2>4. cache' \in [Keys -> {NoMap} \cup (ByteMaps \ {<<>>})]
    BY <1>1, <1>2, <1>10, <2>1 DEF Store, TypeOK
  <2>5. fresh' \in [Keys -> BOOLEAN]
    BY <1>1, <1>2, <1>10 DEF Store, TypeOK
  <2>6. QED
    BY <1>1, <2>2, <2>3, <2>4, <2>5 DEF TypeOK, Moved, Said
<1>11. CASE Reply(j)
  <2> DEFINE total == Total(map[j])
             r == ParseRange(header[j], total)
  <2>1. total \in Nat \ {0}
    BY <1>1, <1>11, TheMapIsWhole, WholeIsNotEmpty DEF Reply, HasMap
  <2>2. r \in Spans
    BY <1>1, <2>1, RangesMeanWhatTheySay DEF JobInv
  <2>3. Span(0, total - 1) \in Spans
    BY <2>1 DEF Span, Spans
  <2>4. /\ at[j] = "range" /\ UNCHANGED <<cache, fresh, manifest, header, map, out>>
        /\ IF ~r.ok THEN Answer(j, 416) /\ UNCHANGED <<span, next>>
           ELSE /\ span' = [span EXCEPT ![j] = IF r.partial THEN r ELSE Span(0, total - 1)]
                /\ status' = [status EXCEPT ![j] = IF r.partial THEN 206 ELSE 200]
                /\ next' = [next EXCEPT ![j] = 1]
                /\ Move(j, "copy")
    BY <1>11 DEF Reply
  <2> HIDE DEF r, total
  <2>5. CASE ~r.ok
    BY <1>1, <1>3, <1>5, <2>4, <2>5 DEF TypeOK, Moved, Said
  <2>6. CASE r.ok
    <3>1. Moved
      BY <1>3, <1>5, <2>4, <2>6
    <3>2. status \in [Requests -> Statuses] /\ (IF r.partial THEN 206 ELSE 200) \in Statuses
      BY <1>1, <1>5 DEF TypeOK
    <3>3. Said
      BY <2>4, <2>6, <3>2 DEF Said
    <3>4. span' \in [Requests -> Spans] /\ next' \in [Requests -> Nat \ {0}]
      <4>1. span \in [Requests -> Spans] /\ next \in [Requests -> Nat \ {0}]
        BY <1>1 DEF TypeOK
      <4>2. (IF r.partial THEN r ELSE Span(0, total - 1)) \in Spans
        BY <2>2, <2>3
      <4>3. /\ span' = [span EXCEPT ![j] = IF r.partial THEN r ELSE Span(0, total - 1)]
            /\ next' = [next EXCEPT ![j] = 1]
        BY <2>4, <2>6
      <4>4. QED
        BY <4>1, <4>2, <4>3
    <3>5. QED
      BY <1>1, <2>4, <3>1, <3>3, <3>4 DEF TypeOK, Moved, Said
  <2>7. QED
    BY <2>5, <2>6
<1>12. Continue(j) => Moved /\ next' \in [Requests -> Nat \ {0}]
  <2>1. (IF next[j] = Len(map[j]) THEN "done" ELSE "copy") \in PCs
    BY <1>5
  <2>2. next \in [Requests -> Nat \ {0}]
    BY <1>1 DEF TypeOK
  <2>3. QED
    BY <1>3, <2>1, <2>2 DEF Continue
<1>13. CASE Skip(j)
  <2>1. Moved /\ next' \in [Requests -> Nat \ {0}] /\ Said
    BY <1>4, <1>12, <1>13 DEF Skip
  <2>2. UNCHANGED <<cache, fresh, manifest, header, map, span, out>>
    BY <1>13 DEF Skip
  <2>3. QED
    BY <1>1, <2>1, <2>2 DEF TypeOK, Moved, Said
<1>14. CASE CopyChunk(j)
  <2>1. Moved /\ next' \in [Requests -> Nat \ {0}] /\ Said
    BY <1>4, <1>12, <1>14 DEF CopyChunk
  <2>2. UNCHANGED <<cache, fresh, manifest, header, map, span>>
    BY <1>14 DEF CopyChunk
  <2>3. out' \in [Requests -> Seq(Streams \X Nat \X Nat)]
    BY <1>1, <1>14, FetchTypes DEF CopyChunk
  <2>4. QED
    BY <1>1, <2>1, <2>2, <2>3 DEF TypeOK, Moved, Said
<1>15. CASE CopyFails(j)
  <2>1. Moved /\ Said
    BY <1>3, <1>4, <1>5, <1>15 DEF CopyFails
  <2>2. UNCHANGED <<cache, fresh, manifest, header, map, next, span>>
    BY <1>15 DEF CopyFails
  <2>3. out' \in [Requests -> Seq(Streams \X Nat \X Nat)]
    BY <1>1, <1>15, FetchTypes DEF CopyFails
  <2>4. QED
    BY <1>1, <2>1, <2>2, <2>3 DEF TypeOK, Moved, Said
<1>16. QED
  BY <1>6, <1>7, <1>8, <1>9, <1>10, <1>11, <1>13, <1>14, <1>15 DEF Step

LEMMA CacheKept ==
  ASSUME IInv, [Next]_vars
  PROVE  CacheInv'
<1> SUFFICES ASSUME NEW k \in Keys, fresh'[k] \/ cache'[k] # NoMap
             PROVE  Whole(cache'[k], k)
  BY DEF CacheInv
<1>1. TypeOK /\ CacheInv
  BY DEF IInv
<1>2. CASE UNCHANGED caching
  BY <1>1, <1>2 DEF caching, CacheInv
<1>3. CASE \E l \in Keys : Expire(l)
  BY <1>1, <1>3 DEF Expire, CacheInv, TypeOK
<1>4. ASSUME NEW j \in Requests, Store(j)
      PROVE  Whole(cache'[k], k)
  <2>1. Whole(map[j], Key(j))
    BY <1>4, TheMapIsWhole DEF IInv, Store, HasMap
  <2>2. CASE k = Key(j)
    BY <1>1, <1>4, <2>1, <2>2 DEF Store, TypeOK
  <2>3. CASE k # Key(j)
    <3>1. cache'[k] = cache[k] /\ fresh'[k] = fresh[k]
      BY <1>1, <1>4, <2>3 DEF Store, TypeOK
    <3>2. QED
      BY <1>1, <3>1 DEF CacheInv
  <2>4. QED
    BY <2>2, <2>3
<1>5. ASSUME NEW j \in Requests, Step(j), ~Store(j)
      PROVE  UNCHANGED caching
  BY <1>5 DEF Step, Resolve, Proxy, Lookup, Probe, Reply, Skip, CopyChunk, CopyFails, caching
<1>6. QED
  BY <1>2, <1>3, <1>4, <1>5 DEF Next, Answered, vars, caching

LEMMA JobInvKept ==
  ASSUME IInv, NEW j \in Requests, Step(j)
  PROVE  JobInv(j)'
<1>1. TypeOK /\ JobInv(j)
  BY DEF IInv
<1>2. manifest' = manifest /\ header' = header
  BY <1>1, OneRequestMoves
<1>3. Fit(header[j])
  BY <1>1 DEF JobInv
<1>4. /\ \A pc : Move(j, pc) => at'[j] = pc
      /\ \A code : Answer(j, code) => at'[j] = "done" /\ status'[j] = code
  BY <1>1 DEF TypeOK, Move, Answer
<1>5. CASE Resolve(j)
  <2>1. at[j] = "resolve" /\ UNCHANGED <<map, next, out>>
    BY <1>5 DEF Resolve
  <2>2. map[j] = <<>> /\ next[j] = 1 /\ status[j] = 0 /\ out[j] = <<>>
    BY <1>1, <2>1 DEF JobInv
  <2>3. (at'[j] \in {"lookup", "proxy"} /\ status'[j] = 0) \/ (at'[j] = "done" /\ status'[j] = 502)
    BY <1>4, <1>5, <2>2 DEF Resolve
  <2>4. QED
    BY <1>2, <1>3, <2>1, <2>2, <2>3 DEF JobInv
<1>6. CASE Proxy(j)
  <2>1. at[j] = "proxy" /\ UNCHANGED <<map, next, out>>
    BY <1>6 DEF Proxy
  <2>2. map[j] = <<>>
    BY <1>1, <2>1 DEF JobInv
  <2>3. at'[j] = "done" /\ status'[j] \in {200, 206, 502}
    BY <1>4, <1>6 DEF Proxy
  <2>4. QED
    BY <1>2, <1>3, <2>1, <2>2, <2>3 DEF JobInv
<1>7. CASE Lookup(j)
  <2>1. at[j] = "lookup" /\ UNCHANGED <<next, out>>
    BY <1>7 DEF Lookup
  <2>2. map[j] = <<>> /\ next[j] = 1 /\ status[j] = 0 /\ out[j] = <<>>
    BY <1>1, <2>1 DEF JobInv
  <2>3. CASE ~GoodPlan(manifest[j])
    <3>1. at'[j] = "done" /\ status'[j] = 502 /\ map' = map
      BY <1>4, <1>7, <2>3 DEF Lookup
    <3>2. QED
      BY <1>2, <1>3, <2>1, <2>2, <3>1 DEF JobInv
  <2>4. CASE GoodPlan(manifest[j]) /\ fresh[Key(j)]
    <3>1. at'[j] = "range" /\ status' = status /\ map'[j] = cache[Key(j)]
      BY <1>1, <1>4, <1>7, <2>4 DEF Lookup, TypeOK
    <3>2. Key(j) \in Keys
      BY <1>1 DEF TypeOK, Key, Keys
    <3>3. Whole(map'[j], Key(j))
      BY <2>4, <3>1, <3>2 DEF IInv, CacheInv
    <3>4. HasMap(j)'
      BY <1>2, <2>4, <3>3 DEF HasMap, Key
    <3>5. QED
      BY <1>2, <1>3, <2>1, <2>2, <3>1, <3>4 DEF JobInv
  <2>5. CASE GoodPlan(manifest[j]) /\ ~fresh[Key(j)]
    <3>1. at'[j] = "probe" /\ status' = status /\ map' = map
      BY <1>4, <1>7, <2>5 DEF Lookup
    <3>2. Chunks(map[j], manifest[j]) /\ Len(map[j]) = 0 /\ 0 < Len(Plan(manifest[j]))
      <4>1. manifest[j] \in Manifests
        BY <1>1 DEF TypeOK
      <4>2. Len(Plan(manifest[j])) \in Nat \ {0}
        BY <2>5, <4>1, PlanIsAnnounced
      <4>3. <<>> \in ByteMaps /\ Len(<<>>) = 0
        BY EmptySeq DEF ByteMaps
      <4>4. QED
        BY <2>2, <4>2, <4>3 DEF Chunks
    <3>3. QED
      BY <1>2, <1>3, <2>1, <2>2, <2>5, <3>1, <3>2 DEF JobInv
  <2>6. QED
    BY <2>3, <2>4, <2>5
<1>8. CASE Probe(j)
  <2> DEFINE m   == manifest[j]
             url == <<m, Plan(m)[next[j]]>>
  <2>1. PICK answer \in ProbeAnswers :
          IF Probed(answer, url) = 0
          THEN Answer(j, 502) /\ UNCHANGED <<map, next>>
          ELSE /\ map' = [map EXCEPT ![j] = WithChunk(@, url, Probed(answer, url))]
               /\ next' = [next EXCEPT ![j] = @ + 1]
               /\ Move(j, IF next[j] = Len(Plan(m)) THEN "store" ELSE "probe")
               /\ UNCHANGED status
    BY <1>8 DEF Probe
  <2>2. at[j] = "probe" /\ UNCHANGED out
    BY <1>8 DEF Probe
  <2>3. /\ GoodPlan(m) /\ Chunks(map[j], m) /\ next[j] = Len(map[j]) + 1 /\ Len(map[j]) < Len(Plan(m))
        /\ status[j] = 0 /\ out[j] = <<>>
    BY <1>1, <2>2 DEF JobInv
  <2>4. m \in Manifests /\ Len(Plan(m)) \in Nat /\ Len(map[j]) \in Nat
    BY <1>1, <2>3, PlanIsAnnounced DEF TypeOK, ByteMaps
  <2> HIDE DEF url
  <2>5. CASE Probed(answer, url) = 0
    <3>1. at'[j] = "done" /\ status'[j] = 502
      BY <1>4, <2>1, <2>5
    <3>2. QED
      BY <1>2, <1>3, <2>2, <2>3, <3>1 DEF JobInv
  <2>6. CASE Probed(answer, url) # 0
    <3> DEFINE mp == WithChunk(map[j], url, Probed(answer, url))
    <3>1. Chunks(mp, m) /\ Len(mp) = Len(map[j]) + 1
      BY <1>1, <2>2, <2>6, ProbeAppends DEF url
    <3> HIDE DEF mp
    <3>2. map'[j] = mp /\ next'[j] = next[j] + 1 /\ status' = status
      BY <1>1, <2>1, <2>6 DEF TypeOK, mp
    <3>3. at'[j] = IF next[j] = Len(Plan(m)) THEN "store" ELSE "probe"
      BY <1>4, <2>1, <2>6
    <3>4. next'[j] = Len(mp) + 1
      BY <2>3, <2>4, <3>1, <3>2
    <3>5. CASE next[j] = Len(Plan(m))
      <4>1. Len(mp) = Len(Plan(m))
        BY <2>3, <3>1, <3>5
      <4>2. QED
        BY <1>2, <1>3, <2>2, <2>3, <3>1, <3>2, <3>3, <3>4, <3>5, <4>1 DEF JobInv
    <3>6. CASE next[j] # Len(Plan(m))
      <4>1. Len(mp) < Len(Plan(m))
        BY <2>3, <2>4, <3>1, <3>6
      <4>2. QED
        BY <1>2, <1>3, <2>2, <2>3, <3>1, <3>2, <3>3, <3>4, <3>6, <4>1 DEF JobInv
    <3>7. QED
      BY <3>5, <3>6
  <2>7. QED
    BY <2>5, <2>6
<1>9. CASE Store(j)
  <2>1. at[j] = "store" /\ at'[j] = "range" /\ UNCHANGED <<map, next, status, out>>
    BY <1>4, <1>9 DEF Store
  <2>2. HasMap(j)
    BY <1>1, <2>1, TheMapIsWhole
  <2>3. HasMap(j)'
    BY <1>2, <2>1, <2>2 DEF HasMap, Key
  <2>4. status[j] = 0 /\ out[j] = <<>>
    BY <1>1, <2>1 DEF JobInv
  <2>5. QED
    BY <1>2, <1>3, <2>1, <2>3, <2>4 DEF JobInv
<1>10. CASE Reply(j)
  <2> DEFINE total == Total(map[j])
             r == ParseRange(header[j], total)
  <2>1. at[j] = "range" /\ UNCHANGED <<map, out>>
    BY <1>10 DEF Reply
  <2>2. HasMap(j) /\ map[j] # <<>> /\ Len(map[j]) \in Nat \ {0}
    BY <1>1, <2>1, TheMapIsWhole, WholeIsNotEmpty DEF HasMap
  <2>3. HasMap(j)'
    BY <1>2, <2>1, <2>2 DEF HasMap, Key
  <2>4. CASE ~r.ok
    <3>1. at'[j] = "done" /\ status'[j] = 416
      BY <1>4, <1>10, <2>4 DEF Reply
    <3>2. QED
      BY <1>2, <1>3, <2>1, <2>3, <2>4, <3>1 DEF JobInv
  <2>5. CASE r.ok
    <3>1. /\ at'[j] = "copy" /\ next'[j] = 1
          /\ status'[j] = IF r.partial THEN 206 ELSE 200
          /\ span'[j] = IF r.partial THEN r ELSE Span(0, total - 1)
      BY <1>1, <1>4, <1>10, <2>5 DEF Reply, TypeOK
    <3>2. Replied(j)'
      BY <1>2, <2>1, <2>5, <3>1 DEF Replied
    <3>3. status'[j] \in {200, 206}
      BY <3>1
    <3>4. QED
      BY <1>2, <1>3, <2>1, <2>2, <2>3, <3>1, <3>2, <3>3 DEF JobInv
  <2>6. QED
    BY <2>4, <2>5
<1>11. ASSUME at[j] = "copy", UNCHANGED <<map, status, span>>, at'[j] = "done"
       PROVE  JobInv(j)'
  <2>1. map[j] # <<>> /\ status[j] \in {200, 206} /\ HasMap(j) /\ Replied(j)
    BY <1>1, <1>11 DEF JobInv
  <2>2. HasMap(j)' /\ Replied(j)'
    BY <1>2, <1>11, <2>1 DEF HasMap, Replied, Key
  <2>3. QED
    BY <1>2, <1>3, <1>11, <2>1, <2>2 DEF JobInv
<1>12. ASSUME at[j] = "copy", UNCHANGED <<map, status, span>>, Continue(j)
       PROVE  JobInv(j)'
  <2>1. at'[j] = (IF next[j] = Len(map[j]) THEN "done" ELSE "copy") /\ next'[j] = next[j] + 1
    BY <1>1, <1>4, <1>12 DEF Continue, TypeOK
  <2>2. CASE next[j] = Len(map[j])
    BY <1>11, <1>12, <2>1, <2>2
  <2>3. CASE next[j] # Len(map[j])
    <3>1. /\ map[j] # <<>> /\ status[j] \in {200, 206} /\ HasMap(j) /\ Replied(j)
          /\ next[j] \in 1..Len(map[j])
      BY <1>1, <1>12 DEF JobInv
    <3>2. Len(map[j]) \in Nat
      BY <1>1 DEF TypeOK, ByteMaps
    <3>3. next'[j] \in 1..Len(map'[j])
      BY <1>12, <2>1, <2>3, <3>1, <3>2
    <3>4. HasMap(j)' /\ Replied(j)'
      BY <1>2, <1>12, <3>1 DEF HasMap, Replied, Key
    <3>5. QED
      BY <1>2, <1>3, <1>12, <2>1, <2>3, <3>1, <3>3, <3>4 DEF JobInv
  <2>4. QED
    BY <2>2, <2>3
<1>13. CASE Skip(j)
  BY <1>12, <1>13 DEF Skip
<1>14. CASE CopyChunk(j)
  BY <1>12, <1>14 DEF CopyChunk, Fetch
<1>15. CASE CopyFails(j)
  BY <1>4, <1>11, <1>15 DEF CopyFails, Fetch
<1>16. QED
  BY <1>5, <1>6, <1>7, <1>8, <1>9, <1>10, <1>13, <1>14, <1>15 DEF Step

LEMMA InvariantKept ==
  IInv /\ [Next]_vars => IInv'
<1> SUFFICES ASSUME IInv, [Next]_vars
             PROVE  IInv'
  OBVIOUS
<1>1. CacheInv'
  BY CacheKept
<1>2. CASE UNCHANGED vars
  BY <1>1, <1>2 DEF IInv, TypeOK, JobInv, HasMap, Replied, Key, vars
<1>3. ASSUME NEW k \in Keys, Expire(k)
      PROVE  IInv'
  <2>1. UNCHANGED <<cache, at, manifest, header, map, next, status, span, out>>
    BY <1>3 DEF Expire, asked
  <2>2. fresh' \in [Keys -> BOOLEAN]
    BY <1>3 DEF IInv, TypeOK, Expire
  <2>3. TypeOK'
    BY <2>1, <2>2 DEF IInv, TypeOK
  <2>4. \A j \in Requests : JobInv(j)'
    BY <2>1 DEF IInv, JobInv, HasMap, Replied, Key
  <2>5. QED
    BY <1>1, <2>3, <2>4 DEF IInv
<1>4. ASSUME NEW j \in Requests, Step(j)
      PROVE  IInv'
  <2>1. TypeOK'
    BY <1>4, TypesKept
  <2>2. JobInv(j)'
    BY <1>4, JobInvKept
  <2>3. OthersStay(j) /\ manifest' = manifest /\ header' = header
    BY <1>4, OneRequestMoves DEF IInv
  <2>4. ASSUME NEW k \in Requests \ {j}
        PROVE  JobInv(k)'
    BY <2>3, OthersKeepJobInv DEF IInv
  <2>5. \A k \in Requests : JobInv(k)'
    BY <2>2, <2>4
  <2>6. QED
    BY <1>1, <2>1, <2>5 DEF IInv
<1>5. QED
  BY <1>2, <1>3, <1>4 DEF Next, Answered

(* Every variable has its type; in particular the span of a reply has no   *)
(* negative bound.                                                         *)
THEOREM DashTypeCorrect == Spec => []TypeOK
<1>1. IInv => TypeOK
  BY DEF IInv
<1>2. QED
  BY <1>1, InvariantStarts, InvariantKept, PTL DEF Spec

-------------------------------------------------------------------------------
(* The cache.                                                              *)

(* A cached byte map lists the segments its manifest announces, end to     *)
(* end, with their true lengths, or 1 where upstream told none, whoever of *)
(* several builders stored it and even if some of their probes failed.     *)
THEOREM CacheFits == Spec => []CachedMapsFit
<1>1. IInv => CachedMapsFit
  <2> SUFFICES ASSUME IInv, NEW k \in Keys, cache[k] # NoMap
               PROVE  \E m \in Manifests :
                        /\ KeyOf(m) = k
                        /\ {cache[k][i].url[2] : i \in DOMAIN cache[k]} = Announced(m)
                        /\ \A i \in DOMAIN cache[k] :
                             LET c == cache[k][i] IN
                               /\ c.url[1] = m
                               /\ c.length = Len(Body(c.url)) \/ c.length = Probed("unknown", c.url)
                               /\ c.end = c.start + c.length - 1
                               /\ c.start = IF i = 1 THEN 0 ELSE cache[k][i - 1].end + 1
    BY DEF CachedMapsFit
  <2> DEFINE mp == cache[k]
  <2>1. PICK m \in Manifests : /\ KeyOf(m) = k /\ GoodPlan(m) /\ Chunks(mp, m)
                               /\ Len(mp) = Len(Plan(m))
    BY DEF IInv, CacheInv, Whole
  <2> HIDE DEF mp
  <2>2. DOMAIN mp = 1..Len(mp) /\ Len(mp) \in Nat
    BY <2>1 DEF Chunks, ByteMaps
  <2>3. \A i \in 1..Len(mp) :
          /\ mp[i].url = <<m, Plan(m)[i]>>
          /\ mp[i].length = Len(Body(mp[i].url)) \/ mp[i].length = 1
          /\ mp[i].end = mp[i].start + mp[i].length - 1
          /\ mp[i].start = IF i = 1 THEN 0 ELSE mp[i - 1].end + 1
    BY <2>1 DEF Chunks
  <2>4. \A url : Probed("unknown", url) = 1
    BY DEF Probed
  <2>5. {mp[i].url[2] : i \in DOMAIN mp} = Announced(m)
    <3>1. \A i \in 1..Len(mp) : mp[i].url[2] = Plan(m)[i] /\ Plan(m)[i] \in Announced(m)
      BY <2>1, <2>3, PlanIsAnnounced
    <3>2. \A n \in Announced(m) : \E i \in 1..Len(mp) : Plan(m)[i] = n
      BY <2>1, PlanIsAnnounced
    <3>3. QED
      BY <2>2, <3>1, <3>2
  <2>6. \A i \in DOMAIN mp : mp[i].url[1] = m
    BY <2>2, <2>3
  <2>7. \A i \in DOMAIN mp :
          /\ mp[i].url[1] = m
          /\ mp[i].length = Len(Body(mp[i].url)) \/ mp[i].length = Probed("unknown", mp[i].url)
          /\ mp[i].end = mp[i].start + mp[i].length - 1
          /\ mp[i].start = IF i = 1 THEN 0 ELSE mp[i - 1].end + 1
    BY <2>2, <2>3, <2>4, <2>6
  <2>8. QED
    BY <2>1, <2>5, <2>7 DEF mp
<1>2. QED
  BY <1>1, InvariantStarts, InvariantKept, PTL DEF Spec

-------------------------------------------------------------------------------
(* Replies.  The map of a request was made from one manifest, all of it.   *)
LEMMA SourceIs ==
  ASSUME NEW j \in Requests, HasMap(j)
  PROVE  /\ Source(j) \in Manifests /\ KeyOf(Source(j)) = Key(j) /\ GoodPlan(Source(j))
         /\ Chunks(map[j], Source(j)) /\ Len(map[j]) = Len(Plan(Source(j)))
<1>1. PICK m \in Manifests :
        KeyOf(m) = Key(j) /\ GoodPlan(m) /\ Chunks(map[j], m) /\ Len(map[j]) = Len(Plan(m))
  BY DEF HasMap, Whole
<1>2. 1 \in 1..Len(map[j])
  <2>1. Len(Plan(m)) \in Nat /\ Len(Plan(m)) >= 1
    BY <1>1, PlanIsAnnounced
  <2>2. QED
    BY <1>1, <2>1
<1>3. map[j][1].url = <<m, Plan(m)[1]>>
  BY <1>1, <1>2 DEF Chunks
<1>4. Source(j) = m
  BY <1>3 DEF Source
<1>5. QED
  BY <1>1, <1>4

(* It is of the file that was asked for, if the hash of that is known.     *)
LEMMA HashedSourceIsTheFile ==
  ASSUME NEW j \in Requests, TypeOK, HasMap(j), Hash[manifest[j]] # NoHash
  PROVE  Bytes(Source(j)) = Bytes(manifest[j])
<1>1. /\ Source(j) \in Manifests /\ GoodPlan(Source(j)) /\ KeyOf(Source(j)) = KeyOf(manifest[j])
      /\ manifest[j] \in Manifests /\ GoodPlan(manifest[j])
  BY SourceIs DEF TypeOK, HasMap, Key
<1>2. Hash[Source(j)] = Hash[manifest[j]]
  BY <1>1 DEF KeyOf
<1>3. StreamOf[Source(j)] = StreamOf[manifest[j]] /\ Announced(Source(j)) = Announced(manifest[j])
  BY <1>1, <1>2, HashesTellFilesApart
<1>4. QED
  BY <1>3 DEF Bytes

LEMMA ToldMapsAreAsLongAsTheFile ==
  ASSUME TypeOK, NEW j \in Requests, HasMap(j), Told(j)
  PROVE  /\ Total(map[j]) = FileLength(j) /\ FileLength(j) \in Nat \ {0}
         /\ \A i \in 1..Len(map[j]) :
              map[j][i].start = Cardinality(Earlier(Source(j), Plan(Source(j))[i]))
<1>1. /\ Source(j) \in Manifests /\ KeyOf(Source(j)) = Key(j) /\ GoodPlan(Source(j))
      /\ Chunks(map[j], Source(j)) /\ Len(map[j]) = Len(Plan(Source(j)))
  BY SourceIs
<1>2. AllTold(map[j])
  <2>1. DOMAIN map[j] = 1..Len(map[j])
    BY DEF TypeOK, ByteMaps
  <2>2. QED
    BY <2>1 DEF Told, AllTold
<1>3. /\ \A i \in 1..Len(map[j]) :
           map[j][i].start = Cardinality(Earlier(Source(j), Plan(Source(j))[i]))
      /\ Total(map[j]) = Cardinality(Bytes(Source(j)))
  BY <1>1, <1>2, ChunksAreWhereTheBytesAre
<1>4. Total(map[j]) \in Nat \ {0}
  BY WholeIsNotEmpty DEF HasMap
<1>5. QED
  BY <1>3, <1>4 DEF FileLength

LEMMA ServedHasReplied ==
  ASSUME IInv, NEW j \in Requests, Served(j)
  PROVE  /\ at[j] \in {"copy", "done"} /\ HasMap(j) /\ Replied(j) /\ Told(j)
         /\ FileLength(j) \in Nat \ {0}
         /\ Wanted(header[j], FileLength(j)) = span[j].start..span[j].end
         /\ Supported(header[j]) /\ Wanted(header[j], FileLength(j)) # {}
         /\ status[j] = 206 <=> header[j].kind # "none"
<1>1. TypeOK /\ JobInv(j)
  BY DEF IInv
<1>2. at[j] \in {"copy", "done"} /\ HasMap(j) /\ Replied(j) /\ Told(j)
  BY <1>1 DEF Served, Told, JobInv
<1> DEFINE total == Total(map[j])
           r == ParseRange(header[j], total)
           W == Wanted(header[j], total)
<1>3. total = FileLength(j) /\ total \in Nat \ {0}
  BY <1>1, <1>2, ToldMapsAreAsLongAsTheFile
<1>4. /\ r.ok /\ status[j] = (IF r.partial THEN 206 ELSE 200)
      /\ span[j] = IF r.partial THEN r ELSE Span(0, total - 1)
  BY <1>2 DEF Replied
<1>5. Fit(header[j])
  BY <1>1 DEF JobInv
<1>6. /\ r.ok <=> Supported(header[j]) /\ W # {}
      /\ r.ok /\ ~r.partial => header[j].kind = "none" /\ W = 0..(total - 1)
      /\ r.ok /\ r.partial => header[j].kind # "none" /\ W = r.start..r.end
  BY <1>3, <1>5, RangesMeanWhatTheySay
<1>7. Span(0, total - 1).start = 0 /\ Span(0, total - 1).end = total - 1
  BY DEF Span
<1> HIDE DEF W, r
<1>8. /\ W = span[j].start..span[j].end /\ Supported(header[j]) /\ W # {}
      /\ (status[j] = 206 <=> header[j].kind # "none")
  <2>1. CASE r.partial
    BY <1>4, <1>6, <2>1
  <2>2. CASE ~r.partial
    BY <1>4, <1>6, <1>7, <2>2
  <2>3. QED
    BY <2>1, <2>2
<1>9. QED
  BY <1>2, <1>3, <1>8 DEF W

(* Of the headers the code supports, 416 is the answer to exactly those    *)
(* that ask for nothing of the file, and 206 to those that ask for a part  *)
(* of it; no other header is taken for a part.                             *)
THEOREM RangesAnswered == Spec => []RangesAreAnswered
<1>1. IInv => RangesAreAnswered
  <2> SUFFICES ASSUME IInv, NEW j \in Requests
               PROVE  /\ Told(j) /\ status[j] = 416 /\ Supported(header[j])
                           => Wanted(header[j], FileLength(j)) = {}
                      /\ Served(j) => /\ Supported(header[j])
                                      /\ Wanted(header[j], FileLength(j)) # {}
                                      /\ status[j] = 206 <=> header[j].kind # "none"
    BY DEF RangesAreAnswered
  <2>1. ASSUME Told(j), status[j] = 416, Supported(header[j])
        PROVE  Wanted(header[j], FileLength(j)) = {}
    <3>1. TypeOK /\ HasMap(j) /\ ~ParseRange(header[j], Total(map[j])).ok /\ Fit(header[j])
      BY <2>1 DEF IInv, JobInv
    <3>2. Total(map[j]) = FileLength(j) /\ FileLength(j) \in Nat \ {0}
      BY <2>1, <3>1, ToldMapsAreAsLongAsTheFile
    <3>3. QED
      BY <2>1, <3>1, <3>2, RangesMeanWhatTheySay
  <2>2. QED
    BY <2>1, ServedHasReplied
<1>2. QED
  BY <1>1, InvariantStarts, InvariantKept, PTL DEF Spec
(* What is written lies in the slice asked for, in the order of the file,  *)
(* and before the chunk that is copied next.                               *)
Written(j) ==
  Served(j) =>
    /\ InOrder(out[j])
    /\ \A x \in DOMAIN out[j] : /\ out[j][x] \in Slice(j)
                                /\ at[j] = "copy" => out[j][x][2] < Chunk(j).url[2]

LEMMA SliceBytes ==
  ASSUME TypeOK, NEW j \in Requests, HasMap(j), NEW b \in Slice(j)
  PROVE  b \in Streams \X Nat \X Nat
<1>1. Source(j) \in Manifests /\ GoodPlan(Source(j)) /\ b \in Bytes(Source(j))
  BY SourceIs DEF Slice
<1>2. QED
  BY <1>1, BytesAreTriples

(* A piece of the next chunk lies in the slice and belongs after what is   *)
(* there already.                                                          *)
LEMMA PieceFits ==
  ASSUME IInv, NEW j \in Requests, Served(j), at[j] = "copy", Written(j), Fetch(j)
  PROVE  /\ out'[j] \in Seq(Streams \X Nat \X Nat)
         /\ InOrder(out'[j])
         /\ \A x \in DOMAIN out'[j] : out'[j][x] \in Slice(j) /\ out'[j][x][2] <= Chunk(j).url[2]
<1> DEFINE T == Streams \X Nat \X Nat
<1>1. TypeOK /\ JobInv(j)
  BY DEF IInv
<1>2. /\ HasMap(j) /\ Told(j)
      /\ Wanted(header[j], FileLength(j)) = span[j].start..span[j].end
  BY ServedHasReplied
<1>3. PICK m \in Manifests :
        /\ m = Source(j) /\ KeyOf(m) = Key(j) /\ GoodPlan(m)
        /\ Chunks(map[j], m) /\ Len(map[j]) = Len(Plan(m))
        /\ \A i \in 1..Len(map[j]) : map[j][i].start = Cardinality(Earlier(m, Plan(m)[i]))
  BY <1>1, <1>2, SourceIs, ToldMapsAreAsLongAsTheFile
<1>4. PICK piece : out' = [out EXCEPT ![j] = @ \o piece] /\ PieceOf(piece, j, m)
  BY <1>1, <1>3, FetchWritesAPiece
<1> DEFINE seg == Plan(m)[next[j]]
           old == out[j]
           new == out'[j]
<1>5. next[j] \in 1..Len(map[j]) /\ Chunk(j).url = <<m, seg>> /\ seg \in Nat
  <2>1. next[j] \in 1..Len(map[j])
    BY <1>1 DEF JobInv
  <2>2. Chunk(j).url = <<m, seg>> /\ seg \in Announced(m)
    BY <1>3, <2>1, ChunkFacts DEF Chunk
  <2>3. QED
    BY <1>3, <2>1, <2>2, SegmentSizes
<1>6. old \in Seq(T) /\ piece \in Seq(T) /\ new = old \o piece
  BY <1>1, <1>4 DEF TypeOK, PieceOf
<1>7. /\ Len(old) \in Nat /\ Len(piece) \in Nat
      /\ DOMAIN old = 1..Len(old) /\ DOMAIN piece = 1..Len(piece)
  BY <1>6, LenProperties
<1>8. /\ new \in Seq(T) /\ Len(new) = Len(old) + Len(piece) /\ DOMAIN new = 1..Len(new)
      /\ \A x \in 1..Len(new) : new[x] = IF x <= Len(old) THEN old[x] ELSE piece[x - Len(old)]
  <2> HIDE DEF T, old, new
  <2>1. /\ old \o piece \in Seq(T) /\ Len(old \o piece) = Len(old) + Len(piece)
        /\ \A x \in 1..(Len(old) + Len(piece)) :
             (old \o piece)[x] = IF x <= Len(old) THEN old[x] ELSE piece[x - Len(old)]
    BY <1>6, ConcatProperties
  <2>2. DOMAIN (old \o piece) = 1..Len(old \o piece)
    BY <2>1, LenProperties
  <2>3. QED
    BY <1>6, <2>1, <2>2
<1>9. \A x \in 1..Len(piece) : piece[x][2] = seg /\ piece[x] \in Slice(j)
  <2> TAKE x \in 1..Len(piece)
  <2>1. PICK k \in 0..(SizeIn(m, seg) - 1) :
          piece[x] = <<StreamOf[m], seg, k>> /\ Chunk(j).start + k \in span[j].start..span[j].end
    BY <1>4 DEF PieceOf
  <2>2. Chunk(j).start = Cardinality(Earlier(m, seg))
    BY <1>3, <1>5 DEF Chunk
  <2>3. /\ <<StreamOf[m], seg, k>> \in Bytes(m)
        /\ Offset(m, <<StreamOf[m], seg, k>>) = Cardinality(Earlier(m, seg)) + k
    BY <1>3, <1>5, OffsetInSegment
  <2>4. piece[x] \in Bytes(Source(j)) /\ Offset(Source(j), piece[x]) \in span[j].start..span[j].end
    BY <1>3, <2>1, <2>2, <2>3
  <2>5. QED
    BY <1>2, <2>1, <2>4 DEF Slice
<1>10. /\ \A x \in 1..Len(old) : old[x] \in Slice(j) /\ old[x][2] < seg
       /\ \A x, y \in 1..Len(old) : x < y => Before(old[x], old[y])
  BY <1>5, <1>7 DEF Written, InOrder
<1>11. \A x, y \in 1..Len(piece) : x < y => Before(piece[x], piece[y])
  BY <1>4, <1>9 DEF PieceOf, Before
<1>12. \A x \in 1..Len(old) : \A y \in 1..Len(piece) : Before(old[x], piece[y])
  BY <1>9, <1>10 DEF Before
<1> HIDE DEF old, new, seg
<1>13. ASSUME NEW x \in 1..Len(new), ~(x <= Len(old))
       PROVE  x - Len(old) \in 1..Len(piece) /\ new[x] = piece[x - Len(old)]
  <2> DEFINE a == Len(old)
             b == Len(piece)
  <2>1. a \in Nat /\ b \in Nat /\ x \in 1..(a + b) /\ ~(x <= a)
    BY <1>7, <1>8, <1>13
  <2>2. x - a \in 1..b
    <3> HIDE DEF a, b
    <3>1. QED
      BY <2>1
  <2>3. new[x] = piece[x - Len(old)]
    BY <1>8, <1>13
  <2>4. QED
    BY <2>2, <2>3
<1>14. ASSUME NEW x \in 1..Len(new), x <= Len(old)
       PROVE  x \in 1..Len(old) /\ new[x] = old[x]
  BY <1>7, <1>8, <1>14
<1>15. ASSUME NEW x \in 1..Len(new), NEW y \in 1..Len(new), x < y
       PROVE  Before(new[x], new[y])
  <2>1. CASE y <= Len(old)
    <3>1. x <= Len(old)
      BY <1>7, <1>8, <1>15, <2>1
    <3>2. QED
      BY <1>10, <1>14, <1>15, <2>1, <3>1
  <2>2. CASE x <= Len(old) /\ ~(y <= Len(old))
    BY <1>12, <1>13, <1>14, <2>2
  <2>3. CASE ~(x <= Len(old))
    <3>1. ~(y <= Len(old)) /\ x - Len(old) < y - Len(old)
      <4> DEFINE a == Len(old)
      <4>1. a \in Nat /\ x \in Int /\ y \in Int /\ x < y /\ ~(x <= a)
        BY <1>7, <1>15, <2>3
      <4>2. ~(y <= a) /\ x - a < y - a
        <5> HIDE DEF a
        <5>1. QED
          BY <4>1
      <4>3. QED
        BY <4>2
    <3>2. QED
      BY <1>11, <1>13, <2>3, <3>1
  <2>4. QED
    BY <2>1, <2>2, <2>3
<1>16. ASSUME NEW x \in 1..Len(new)
       PROVE  new[x] \in Slice(j) /\ new[x][2] <= seg
  <2>1. CASE x <= Len(old)
    <3>1. new[x] \in Slice(j) /\ new[x][2] < seg
      BY <1>10, <1>14, <2>1
    <3>2. new[x] \in Streams \X Nat \X Nat
      BY <1>1, <1>2, <3>1, SliceBytes
    <3>3. QED
      BY <1>5, <3>1, <3>2 DEF seg
  <2>2. CASE ~(x <= Len(old))
    BY <1>5, <1>9, <1>13, <2>2 DEF seg
  <2>3. QED
    BY <2>1, <2>2
<1>17. InOrder(new)
  BY <1>8, <1>15 DEF InOrder
<1>18. /\ new \in Seq(T) /\ InOrder(new)
       /\ \A x \in DOMAIN new : new[x] \in Slice(j) /\ new[x][2] <= seg
  <2> HIDE DEF T
  <2>1. QED
    BY <1>8, <1>16, <1>17
<1>19. Chunk(j).url[2] = seg
  BY <1>5
<1>20. QED
  BY <1>18, <1>19 DEF new

(* The chunk after the next one is of a later segment. *)
LEMMA LaterChunk ==
  ASSUME TypeOK, NEW j \in Requests, JobInv(j), at[j] = "copy", next[j] # Len(map[j])
  PROVE  /\ Chunk(j).url[2] \in Nat /\ map[j][next[j] + 1].url[2] \in Nat
         /\ Chunk(j).url[2] < map[j][next[j] + 1].url[2]
<1>1. PICK m \in Manifests : GoodPlan(m) /\ Chunks(map[j], m) /\ Len(map[j]) = Len(Plan(m))
  BY TheMapIsWhole DEF HasMap, Whole
<1> DEFINE n == Len(map[j])
           i == next[j]
<1>2. n \in Nat /\ i \in 1..n /\ i # n
  BY DEF JobInv, TypeOK, ByteMaps
<1>3. i \in 1..n /\ i + 1 \in 1..n /\ i \in 1..(n - 1)
  <2> HIDE DEF n, i
  <2>1. QED
    BY <1>2
<1> HIDE DEF n, i
<1>4. /\ map[j][i].url = <<m, Plan(m)[i]>> /\ Plan(m)[i] \in Announced(m)
      /\ map[j][i + 1].url = <<m, Plan(m)[i + 1]>> /\ Plan(m)[i + 1] \in Announced(m)
  BY <1>1, <1>3, ChunkFacts DEF n
<1>5. Plan(m)[i] < Plan(m)[i + 1]
  BY <1>1, <1>3, PlanIsAnnounced DEF n
<1>6. Plan(m)[i] \in Nat /\ Plan(m)[i + 1] \in Nat
  BY <1>1, <1>4, SegmentSizes
<1>7. QED
  BY <1>4, <1>5, <1>6 DEF Chunk, i

(* Bytes that come no later than the chunk just copied come before the     *)
(* next one.                                                               *)
LEMMA WrittenNext ==
  ASSUME IInv, NEW j \in Requests, Served(j), at[j] = "copy",
         manifest' = manifest, header' = header, map' = map,
         at'[j] = "copy" => next'[j] = next[j] + 1 /\ next[j] # Len(map[j]),
         out'[j] \in Seq(Streams \X Nat \X Nat), InOrder(out'[j]),
         \A x \in DOMAIN out'[j] : out'[j][x] \in Slice(j) /\ out'[j][x][2] <= Chunk(j).url[2]
  PROVE  Written(j)'
<1>1. TypeOK /\ JobInv(j)
  BY DEF IInv
<1>2. Slice(j)' = Slice(j)
  BY DEF Slice, FileLength, Source
<1>3. InOrder(out[j])'
  BY DEF InOrder
<1>4. ASSUME NEW x \in DOMAIN out'[j], at'[j] = "copy"
      PROVE  out'[j][x][2] < map'[j][next'[j]].url[2]
  <2> DEFINE b == out'[j][x][2]
             here == Chunk(j).url[2]
             there == map[j][next[j] + 1].url[2]
  <2>1. here \in Nat /\ there \in Nat /\ here < there
    BY <1>1, <1>4, LaterChunk
  <2>2. HasMap(j)
    BY <1>1, TheMapIsWhole
  <2>3. out'[j][x] \in Streams \X Nat \X Nat
    BY <1>1, <2>2, SliceBytes
  <2>4. b \in Nat /\ b <= here
    BY <2>3
  <2>5. b < there
    <3> HIDE DEF b, here, there
    <3>1. QED
      BY <2>1, <2>4
  <2>6. QED
    BY <1>4, <2>5
<1>5. QED
  BY <1>2, <1>3, <1>4 DEF Written, Chunk

LEMMA WrittenKept ==
  ASSUME IInv, NEW j \in Requests, Written(j), Step(j)
  PROVE  Written(j)'
<1> SUFFICES ASSUME Served(j)'
             PROVE  Written(j)'
  BY DEF Written
<1>1. TypeOK /\ JobInv(j)
  BY DEF IInv
<1>2. manifest' = manifest /\ header' = header
  BY <1>1, OneRequestMoves
<1>3. \A pc : Move(j, pc) => at'[j] = pc
  BY <1>1 DEF Move, TypeOK
<1>4. \A code : Answer(j, code) => status'[j] = code
  BY <1>1 DEF Answer, TypeOK
<1>5. status'[j] \in {200, 206} /\ map'[j] # <<>>
  BY DEF Served, Told
<1>6. CASE Resolve(j) \/ Proxy(j)
  <2>1. at[j] \in {"resolve", "proxy"} /\ map' = map
    BY <1>6 DEF Resolve, Proxy
  <2>2. map'[j] = <<>>
    BY <1>1, <2>1 DEF JobInv
  <2>3. QED
    BY <1>5, <2>2
<1>7. CASE Lookup(j) \/ Probe(j) \/ Store(j)
  <2>1. at[j] \in {"lookup", "probe", "store"}
    BY <1>7 DEF Lookup, Probe, Store
  <2>2. status' = status \/ status'[j] = 502
    BY <1>4, <1>7 DEF Lookup, Probe, Store
  <2>3. status[j] = 0
    BY <1>1, <2>1 DEF JobInv
  <2>4. QED
    BY <1>5, <2>2, <2>3
<1>8. CASE Reply(j)
  <2>1. at[j] = "range" /\ out' = out
    BY <1>8 DEF Reply
  <2>2. out'[j] = <<>>
    BY <1>1, <2>1 DEF JobInv
  <2>3. QED
    BY <2>2 DEF Written, InOrder
<1>9. ASSUME at[j] = "copy", UNCHANGED <<map, status>>
      PROVE  /\ Served(j) /\ InOrder(out[j])
             /\ \A x \in DOMAIN out[j] : out[j][x] \in Slice(j) /\ out[j][x][2] < Chunk(j).url[2]
  <2>1. Served(j)
    BY <1>9 DEF Served, Told
  <2>2. QED
    BY <1>9, <2>1 DEF Written
<1>10. ASSUME Continue(j), at'[j] = "copy"
       PROVE  next'[j] = next[j] + 1 /\ next[j] # Len(map[j])
  <2>1. Move(j, IF next[j] = Len(map[j]) THEN "done" ELSE "copy") /\ next'[j] = next[j] + 1
    BY <1>1, <1>10 DEF Continue, TypeOK
  <2>2. QED
    BY <1>3, <1>10, <2>1
<1>11. CASE Skip(j)
  <2>1. at[j] = "copy" /\ UNCHANGED <<map, status, out>> /\ Continue(j)
    BY <1>11 DEF Skip
  <2>2. HasMap(j) /\ Chunk(j).url[2] \in Nat
    <3>1. HasMap(j)
      BY <1>1, <2>1, TheMapIsWhole
    <3>2. PICK m \in Manifests : GoodPlan(m) /\ Chunks(map[j], m)
      BY <3>1 DEF HasMap, Whole
    <3>3. next[j] \in 1..Len(map[j])
      BY <1>1, <2>1 DEF JobInv
    <3>4. Chunk(j) \in ChunkType
      BY <3>2, <3>3, ChunkFacts DEF Chunk
    <3>5. QED
      BY <3>1, <3>4 DEF ChunkType
  <2>3. \A x \in DOMAIN out'[j] : out'[j][x] \in Slice(j) /\ out'[j][x][2] <= Chunk(j).url[2]
    <3> TAKE x \in DOMAIN out'[j]
    <3>1. out[j][x] \in Slice(j) /\ out[j][x][2] < Chunk(j).url[2]
      BY <1>9, <2>1
    <3>2. out[j][x] \in Streams \X Nat \X Nat
      BY <1>1, <2>2, <3>1, SliceBytes
    <3>3. QED
      BY <2>1, <2>2, <3>1, <3>2
  <2>4. out'[j] \in Seq(Streams \X Nat \X Nat) /\ InOrder(out'[j])
    BY <1>1, <1>9, <2>1 DEF TypeOK
  <2>5. QED
    BY <1>2, <1>9, <1>10, <2>1, <2>3, <2>4, WrittenNext
<1>12. CASE CopyChunk(j)
  <2>1. at[j] = "copy" /\ UNCHANGED <<map, status>> /\ Continue(j) /\ Fetch(j)
    BY <1>12 DEF CopyChunk, Fetch
  <2>2. Served(j)
    BY <1>9, <2>1
  <2>3. /\ out'[j] \in Seq(Streams \X Nat \X Nat) /\ InOrder(out'[j])
        /\ \A x \in DOMAIN out'[j] : out'[j][x] \in Slice(j) /\ out'[j][x][2] <= Chunk(j).url[2]
    BY <2>1, <2>2, PieceFits
  <2>4. QED
    BY <1>2, <1>10, <2>1, <2>2, <2>3, WrittenNext
<1>13. CASE CopyFails(j)
  <2>1. at[j] = "copy" /\ UNCHANGED <<map, status>> /\ Fetch(j) /\ at'[j] = "done"
    BY <1>3, <1>13 DEF CopyFails, Fetch
  <2>2. Served(j)
    BY <1>9, <2>1
  <2>3. /\ out'[j] \in Seq(Streams \X Nat \X Nat) /\ InOrder(out'[j])
        /\ \A x \in DOMAIN out'[j] : out'[j][x] \in Slice(j) /\ out'[j][x][2] <= Chunk(j).url[2]
    BY <2>1, <2>2, PieceFits
  <2>4. QED
    BY <1>2, <2>1, <2>2, <2>3, WrittenNext
<1>14. QED
  BY <1>6, <1>7, <1>8, <1>11, <1>12, <1>13 DEF Step

AllWritten == IInv /\ \A j \in Requests : Written(j)

LEMMA AllWrittenStarts ==
  Init => AllWritten
BY InvariantStarts DEF AllWritten, Written, Served, Init

LEMMA AllWrittenKept ==
  AllWritten /\ [Next]_vars => AllWritten'
<1> SUFFICES ASSUME AllWritten, [Next]_vars, NEW k \in Requests
             PROVE  Written(k)'
  BY InvariantKept DEF AllWritten
<1> USE DEF AllWritten
<1>1. ASSUME manifest' = manifest, header' = header,
             /\ at'[k] = at[k] /\ map'[k] = map[k] /\ next'[k] = next[k]
             /\ status'[k] = status[k] /\ out'[k] = out[k]
      PROVE  Written(k)'
  <2>1. Written(k)
    OBVIOUS
  <2>2. QED
    BY <1>1, <2>1 DEF Written, Served, Told, InOrder, Slice, FileLength, Source, Chunk
<1>2. CASE UNCHANGED vars
  BY <1>1, <1>2 DEF vars
<1>3. ASSUME NEW c \in Keys, Expire(c)
      PROVE  Written(k)'
  BY <1>1, <1>3 DEF Expire, asked
<1>4. ASSUME NEW j \in Requests, Step(j)
      PROVE  Written(k)'
  <2>1. CASE j = k
    BY <1>4, <2>1, WrittenKept
  <2>2. CASE j # k
    <3>1. OthersStay(j) /\ manifest' = manifest /\ header' = header
      BY <1>4, OneRequestMoves DEF IInv
    <3>2. QED
      BY <1>1, <2>2, <3>1 DEF OthersStay
  <2>3. QED
    BY <2>1, <2>2
<1>5. QED
  BY <1>2, <1>3, <1>4 DEF Next, Answered

(* A reply is a part of one file, the one resolved if its manifest has a   *)
(* hash: the Content-Length declared is the number of bytes the client     *)
(* wants, never more is written, and only bytes it wants, each once and in *)
(* the order of the file; a reply that is not cut short has them all.      *)
THEOREM RepliesCorrect == Spec => []RepliesAreSlices
<1>1. AllWritten => RepliesAreSlices
  <2> SUFFICES ASSUME AllWritten, NEW j \in Requests, Served(j)
               PROVE  /\ Declared(j) = Cardinality(Wanted(header[j], FileLength(j)))
                      /\ Len(out[j]) <= Declared(j)
                      /\ LET written == {out[j][x] : x \in DOMAIN out[j]} IN
                           /\ InOrder(out[j]) /\ written \subseteq Slice(j)
                           /\ Len(out[j]) = Declared(j) => written = Slice(j)
                      /\ Hash[manifest[j]] # NoHash => Bytes(Source(j)) = Bytes(manifest[j])
    BY DEF RepliesAreSlices
  <2> DEFINE n == Len(out[j])
             W == Wanted(header[j], FileLength(j))
             S == Slice(j)
             f == [x \in 1..n |-> out[j][x]]
  <2>1. /\ HasMap(j) /\ FileLength(j) \in Nat \ {0}
        /\ W = span[j].start..span[j].end /\ W # {}
    BY ServedHasReplied DEF AllWritten
  <2>2. TypeOK /\ span[j].start \in Nat /\ span[j].end \in Nat
    BY DEF AllWritten, IInv, TypeOK, Spans
  <2>3. Declared(j) = Cardinality(W)
    <3> DEFINE a == span[j].start
               b == span[j].end
    <3>1. a \in Int /\ b \in Int /\ a..b # {}
      BY <2>1, <2>2
    <3>2. Cardinality(a..b) = IF a > b THEN 0 ELSE b - a + 1
      BY <3>1, FS_Interval
    <3>3. ~(a > b)
      <4> HIDE DEF a, b
      <4>1. QED
        BY <3>1
    <3>4. QED
      BY <2>1, <3>2, <3>3 DEF Declared
  <2>4. IsFiniteSet(S) /\ Cardinality(S) = Cardinality(W)
    <3>1. Source(j) \in Manifests /\ GoodPlan(Source(j))
      BY <2>1, SourceIs
    <3>2. W \in SUBSET (0..(Cardinality(Bytes(Source(j))) - 1))
      BY DEF Wanted, FileLength
    <3>3. S = {b \in Bytes(Source(j)) : Offset(Source(j), b) \in W}
      BY DEF Slice
    <3>4. QED
      BY <3>1, <3>2, <3>3, BytesAtOffsets
  <2>5. n \in Nat /\ DOMAIN out[j] = 1..n
    BY <2>2 DEF TypeOK
  <2>6. InOrder(out[j]) /\ \A x \in 1..n : out[j][x] \in S
    BY <2>5 DEF AllWritten, Written
  <2>7. f \in Injection(1..n, S)
    <3>1. f \in [1..n -> S]
      BY <2>6
    <3>2. \A x, y \in 1..n : f[x] = f[y] => x = y
      <4> SUFFICES ASSUME NEW x \in 1..n, NEW y \in 1..n, x < y
                   PROVE  out[j][x] # out[j][y]
        BY <2>5
      <4>1. Before(out[j][x], out[j][y])
        BY <2>5, <2>6 DEF InOrder
      <4>2. out[j][x] \in Streams \X Nat \X Nat
        BY <2>1, <2>2, <2>6, SliceBytes
      <4>3. QED
        BY <4>1, <4>2 DEF Before
    <3>3. QED
      BY <3>1, <3>2 DEF Injection, IsInjective
  <2>8. /\ IsFiniteSet(1..n) /\ Cardinality(1..n) = n
    BY <2>5, FS_Interval
  <2>9. n <= Cardinality(S) /\ (n = Cardinality(S) => f \in Surjection(1..n, S))
    <3> HIDE DEF S, f, n
    <3>1. /\ Cardinality(1..n) <= Cardinality(S)
          /\ Cardinality(1..n) = Cardinality(S) <=> f \in Surjection(1..n, S)
      BY <2>4, <2>7, <2>8, FS_Injection
    <3>2. QED
      BY <2>8, <3>1
  <2>10. {out[j][x] : x \in DOMAIN out[j]} \subseteq S
    BY <2>5, <2>6
  <2>11. ASSUME n = Cardinality(S)
         PROVE  {out[j][x] : x \in DOMAIN out[j]} = S
    <3>1. \A b \in S : \E x \in 1..n : f[x] = b
      BY <2>9, <2>11 DEF Surjection
    <3>2. QED
      BY <2>5, <2>10, <3>1
  <2>12. Hash[manifest[j]] # NoHash => Bytes(Source(j)) = Bytes(manifest[j])
    BY <2>1, <2>2, HashedSourceIsTheFile
  <2>13. QED
    BY <2>3, <2>4, <2>6, <2>9, <2>10, <2>11, <2>12
<1>2. QED
  BY <1>1, AllWrittenStarts, AllWrittenKept, PTL DEF Spec
===============================================================================
