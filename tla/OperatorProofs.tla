--------------------------- MODULE OperatorProofs ----------------------------
(***************************************************************************)
(* Facts about the pure operators the components are built from, for every *)
(* argument: what dropping a chapter from a list leaves, the maximum of    *)
(* bounded numbers, how many chapters a part of the layered outline has    *)
(* and where its arcs start, what growing the outline keeps and does when  *)
(* it is repeated, and what the boundary asks for at the end of an arc, of *)
(* a volume and of the outline.                                            *)
(***************************************************************************)
EXTENDS Outline, ProgressOps, FiniteSetTheorems, SequenceTheorems, WellFoundedInduction, TLAPS

-----------------------------------------------------------------------------
(* Numbers. *)

\* The natural numbers are well founded, said of sets.
LEMMA LeastNumber ==
  ASSUME NEW S, S \subseteq Nat, S # {}
  PROVE  \E n \in S : \A m \in S : n <= m
<1> DEFINE less == OpToRel(<, Nat)
<1>1. \E n \in S : \A m \in S : <<m, n>> \notin less
  BY NatLessThanWellFounded, WFMin
<1>2. \A n, m \in Nat : <<m, n>> \notin less => n <= m
  BY DEF OpToRel
<1> QED
  BY <1>1, <1>2

\* A bounded set of numbers has a maximum.
LEMMA MaxOfBounded ==
  ASSUME NEW S, S \subseteq Nat, S # {}, NEW b \in Nat, \A n \in S : n <= b
  PROVE  Max(S) \in S /\ \A n \in S : n <= Max(S)
<1> DEFINE bounds == {u \in Nat : \A n \in S : n <= u}
<1>1. PICK u \in bounds : \A v \in bounds : u <= v
  <2>1. b \in bounds
    OBVIOUS
  <2> HIDE DEF bounds
  <2>2. bounds \subseteq Nat
    BY DEF bounds
  <2> QED
    BY <2>1, <2>2, LeastNumber
<1>2. u \in S
  <2> SUFFICES ASSUME u \notin S PROVE FALSE
    OBVIOUS
  <2>1. \A n \in S : n <= u - 1
    OBVIOUS
  <2>2. u - 1 \in Nat
    <3>1. PICK n \in S : n <= u - 1
      BY <2>1
    <3> QED
      BY <3>1
  <2>3. u - 1 \in bounds
    BY <2>1, <2>2
  <2> QED
    BY <1>1, <2>3
<1>3. \A n \in S : u >= n
  OBVIOUS
<1>4. \E m \in S : \A n \in S : m >= n
  BY <1>2, <1>3
<1> QED
  BY <1>4 DEF Max

-----------------------------------------------------------------------------
(* Dropping a chapter from a list. *)

\* What stays of a list, and its places up to i.
Stays(s, ch) == {i \in DOMAIN s : s[i] # ch}

Upto(s, ch, i) == {j \in Stays(s, ch) : j <= i}

Rank(s, ch, i) == Cardinality(Upto(s, ch, i))

LEMMA WithoutByRank ==
  ASSUME NEW s, NEW ch
  PROVE  Without(s, ch) =
           [n \in 1..Cardinality(Stays(s, ch)) |->
              s[CHOOSE i \in Stays(s, ch) : Rank(s, ch, i) = n]]
BY DEF Without, Stays, Rank, Upto

\* The ranks of the places: none before the first, one more for each that stays.
LEMMA Ranks ==
  ASSUME NEW S, NEW s \in Seq(S), NEW ch
  PROVE  /\ Stays(s, ch) \subseteq 1..Len(s) /\ Cardinality(Stays(s, ch)) \in Nat
         /\ \A i \in 0..Len(s) : Rank(s, ch, i) \in 0..Cardinality(Stays(s, ch))
         /\ Rank(s, ch, 0) = 0
         /\ Rank(s, ch, Len(s)) = Cardinality(Stays(s, ch))
         /\ \A i \in 1..Len(s) :
              Rank(s, ch, i) = Rank(s, ch, i - 1) + IF i \in Stays(s, ch) THEN 1 ELSE 0
         /\ \A i, j \in 0..Len(s) : i <= j => Rank(s, ch, i) <= Rank(s, ch, j)
<1>1. Stays(s, ch) \subseteq 1..Len(s) /\ Len(s) \in Nat
  BY DEF Stays
<1>2. IsFiniteSet(Stays(s, ch)) /\ Cardinality(Stays(s, ch)) \in Nat
  <2>1. IsFiniteSet(1..Len(s))
    BY <1>1, FS_Interval
  <2>2. IsFiniteSet(Stays(s, ch))
    BY <1>1, <2>1, FS_Subset
  <2> QED
    BY <2>2, FS_CardinalityType
<1>3. ASSUME NEW i \in 0..Len(s)
      PROVE  /\ IsFiniteSet(Upto(s, ch, i))
             /\ Rank(s, ch, i) \in 0..Cardinality(Stays(s, ch))
  <2>1. Upto(s, ch, i) \subseteq Stays(s, ch)
    BY DEF Upto
  <2>2. IsFiniteSet(Upto(s, ch, i)) /\ Cardinality(Upto(s, ch, i)) <= Cardinality(Stays(s, ch))
    BY <1>2, <2>1, FS_Subset
  <2>3. Cardinality(Upto(s, ch, i)) \in Nat
    BY <2>2, FS_CardinalityType
  <2> QED
    BY <1>2, <2>2, <2>3 DEF Rank
<1>4. Rank(s, ch, 0) = 0
  <2>1. Upto(s, ch, 0) = {}
    BY <1>1 DEF Upto
  <2> QED
    BY <2>1, FS_EmptySet DEF Rank
<1>5. Rank(s, ch, Len(s)) = Cardinality(Stays(s, ch))
  <2>1. Upto(s, ch, Len(s)) = Stays(s, ch)
    BY <1>1 DEF Upto
  <2> QED
    BY <2>1 DEF Rank
<1>6. ASSUME NEW i \in 1..Len(s)
      PROVE  Rank(s, ch, i) = Rank(s, ch, i - 1) + IF i \in Stays(s, ch) THEN 1 ELSE 0
  <2>1. i - 1 \in 0..Len(s) /\ Rank(s, ch, i - 1) \in Nat
    BY <1>1, <1>2, <1>3
  <2>2. CASE i \in Stays(s, ch)
    <3>1. Upto(s, ch, i) = Upto(s, ch, i - 1) \cup {i} /\ i \notin Upto(s, ch, i - 1)
      BY <1>1, <2>2 DEF Upto
    <3>2. IsFiniteSet(Upto(s, ch, i - 1))
      BY <1>3, <2>1
    <3>3. Cardinality(Upto(s, ch, i)) = Cardinality(Upto(s, ch, i - 1)) + 1
      BY <3>1, <3>2, FS_AddElement
    <3> QED
      BY <2>2, <3>3 DEF Rank
  <2>3. CASE i \notin Stays(s, ch)
    <3>1. Upto(s, ch, i) = Upto(s, ch, i - 1)
      BY <1>1, <2>3 DEF Upto
    <3> QED
      BY <2>1, <2>3, <3>1 DEF Rank
  <2> QED
    BY <2>2, <2>3
<1>7. ASSUME NEW i \in 0..Len(s), NEW j \in 0..Len(s), i <= j
      PROVE  Rank(s, ch, i) <= Rank(s, ch, j)
  <2>1. Upto(s, ch, i) \subseteq Upto(s, ch, j)
    BY <1>1, <1>7 DEF Upto
  <2> QED
    BY <1>3, <2>1, FS_Subset DEF Rank
<1> QED
  BY <1>1, <1>2, <1>3, <1>4, <1>5, <1>6, <1>7

\* Every rank up to the number of places that stay is that of one of them.
LEMMA RankIsTaken ==
  ASSUME NEW S, NEW s \in Seq(S), NEW ch, NEW n \in 1..Cardinality(Stays(s, ch))
  PROVE  \E i \in Stays(s, ch) : Rank(s, ch, i) = n
<1> DEFINE reached == {i \in 0..Len(s) : Rank(s, ch, i) >= n}
<1>0. /\ Len(s) \in Nat /\ Cardinality(Stays(s, ch)) \in Nat
      /\ \A i \in 0..Len(s) : Rank(s, ch, i) \in Nat
  BY Ranks
<1>1. PICK i \in reached : \A j \in reached : i <= j
  <2>1. Len(s) \in reached
    BY <1>0, Ranks
  <2>2. reached \subseteq Nat
    BY <1>0
  <2> HIDE DEF reached
  <2> QED
    BY <2>1, <2>2, LeastNumber
<1>2. i # 0
  BY <1>0, Ranks
<1>3. i \in 1..Len(s) /\ i - 1 \in 0..Len(s) /\ i - 1 \notin reached
  BY <1>0, <1>1, <1>2
<1>4. Rank(s, ch, i - 1) < n /\ Rank(s, ch, i - 1) \in Nat
  BY <1>0, <1>3
<1>5. Rank(s, ch, i) = Rank(s, ch, i - 1) + IF i \in Stays(s, ch) THEN 1 ELSE 0
  BY <1>3, Ranks
<1> QED
  BY <1>0, <1>1, <1>3, <1>4, <1>5

\* No two places that stay have the same rank.
LEMMA RankIsOwn ==
  ASSUME NEW S, NEW s \in Seq(S), NEW ch, NEW i \in Stays(s, ch), NEW j \in Stays(s, ch),
         Rank(s, ch, i) = Rank(s, ch, j)
  PROVE  i = j
<1>1. ASSUME NEW k \in Stays(s, ch), NEW l \in Stays(s, ch), k < l
      PROVE  Rank(s, ch, k) < Rank(s, ch, l)
  <2>1. k \in 0..Len(s) /\ l - 1 \in 0..Len(s) /\ l \in 1..Len(s) /\ k <= l - 1
    BY <1>1, Ranks
  <2>2. Rank(s, ch, k) <= Rank(s, ch, l - 1) /\ Rank(s, ch, l) = Rank(s, ch, l - 1) + 1
    BY <2>1, Ranks
  <2>3. Rank(s, ch, k) \in Nat /\ Rank(s, ch, l - 1) \in Nat
    BY <2>1, Ranks
  <2> QED
    BY <2>2, <2>3
<1>2. i \in Nat /\ j \in Nat /\ Rank(s, ch, i) \in Nat
  BY Ranks
<1> QED
  BY <1>1, <1>2

\* The list keeps everything but the chapter.
LEMMA WithoutDrops ==
  ASSUME NEW S, NEW s \in Seq(S), NEW ch
  PROVE  /\ Without(s, ch) \in Seq(S)
         /\ ToSet(Without(s, ch)) = ToSet(s) \ {ch}
<1> DEFINE count == Cardinality(Stays(s, ch))
           Place(n) == CHOOSE i \in Stays(s, ch) : Rank(s, ch, i) = n
           left == [n \in 1..count |-> s[Place(n)]]
<1>1. Without(s, ch) = left
  BY WithoutByRank
<1>2. count \in Nat /\ Stays(s, ch) \subseteq 1..Len(s)
  BY Ranks
<1>3. \A n \in 1..count : Place(n) \in Stays(s, ch) /\ Rank(s, ch, Place(n)) = n
  BY RankIsTaken
<1>4. \A i \in Stays(s, ch) : Rank(s, ch, i) \in 1..count
  <2> SUFFICES ASSUME NEW i \in Stays(s, ch) PROVE Rank(s, ch, i) \in 1..count
    OBVIOUS
  <2>1. i \in 1..Len(s) /\ i - 1 \in 0..Len(s) /\ i \in 0..Len(s)
    BY <1>2
  <2>2. Rank(s, ch, i) = Rank(s, ch, i - 1) + 1 /\ Rank(s, ch, i - 1) \in 0..count
    BY <2>1, Ranks
  <2>3. Rank(s, ch, i) \in 0..count
    BY <2>1, Ranks
  <2> QED
    BY <1>2, <2>2, <2>3
<1>5. \A i \in Stays(s, ch) : Place(Rank(s, ch, i)) = i
  BY <1>3, <1>4, RankIsOwn
<1> HIDE DEF count, Place
<1>6. \A i \in Stays(s, ch) : s[i] \in S /\ s[i] # ch
  BY <1>2 DEF Stays
<1>7. left \in Seq(S) /\ DOMAIN left = 1..count
  <2>1. left \in [1..count -> S]
    BY <1>3, <1>6
  <2> QED
    BY <1>2, <2>1, IsASeq
<1>8. ToSet(left) = ToSet(s) \ {ch}
  <2>1. ASSUME NEW x \in ToSet(left) PROVE x \in ToSet(s) \ {ch}
    <3>1. PICK n \in 1..count : x = s[Place(n)]
      BY <1>7 DEF ToSet
    <3> QED
      BY <1>3, <3>1 DEF ToSet, Stays
  <2>2. ASSUME NEW x \in ToSet(s) \ {ch} PROVE x \in ToSet(left)
    <3>1. PICK i \in Stays(s, ch) : x = s[i]
      BY DEF ToSet, Stays
    <3>2. left[Rank(s, ch, i)] = x
      BY <1>4, <1>5, <3>1
    <3> QED
      BY <1>4, <1>7, <3>2 DEF ToSet
  <2> QED
    BY <2>1, <2>2
<1> QED
  BY <1>1, <1>7, <1>8

\* And changes nothing when the chapter is not in it.
LEMMA WithoutOfOthers ==
  ASSUME NEW S, NEW s \in Seq(S), NEW ch, ch \notin ToSet(s)
  PROVE  Without(s, ch) = s
<1>1. Len(s) \in Nat /\ Stays(s, ch) = 1..Len(s)
  BY DEF Stays, ToSet
<1>2. Cardinality(Stays(s, ch)) = Len(s)
  BY <1>1, FS_Interval
<1>3. ASSUME NEW n \in 1..Len(s) PROVE Rank(s, ch, n) = n
  <2>1. Upto(s, ch, n) = 1..n
    BY <1>1 DEF Upto
  <2> QED
    BY <1>1, <2>1, FS_Interval DEF Rank
<1>4. ASSUME NEW n \in 1..Len(s)
      PROVE  (CHOOSE i \in Stays(s, ch) : Rank(s, ch, i) = n) = n
  BY <1>1, <1>3
<1>5. Without(s, ch) = [n \in 1..Len(s) |-> s[CHOOSE i \in Stays(s, ch) : Rank(s, ch, i) = n]]
  BY <1>2, WithoutByRank
<1>6. Without(s, ch) = [n \in 1..Len(s) |-> s[n]]
  BY <1>4, <1>5
<1> QED
  BY <1>6

LEMMA WithoutOfEmpty ==
  ASSUME NEW ch
  PROVE  Without(<<>>, ch) = <<>>
<1>1. <<>> \in Seq({})
  OBVIOUS
<1>2. Without(<<>>, ch) \in Seq({})
  BY <1>1, WithoutDrops
<1> QED
  BY <1>2

\* The same of a list of whatever elements, and of one that grows.
IsSequence(f) == \E S : f \in Seq(S)

LEMMA ListChanges ==
  ASSUME NEW l, IsSequence(l), NEW ch
  PROVE  /\ IsSequence(Append(l, ch)) /\ ToSet(Append(l, ch)) = ToSet(l) \cup {ch}
         /\ IsSequence(Without(l, ch)) /\ ToSet(Without(l, ch)) = ToSet(l) \ {ch}
         /\ ch \notin ToSet(l) => Without(l, ch) = l
<1>1. PICK S : l \in Seq(S)
  BY DEF IsSequence
<1>2. l \in Seq(S \cup {ch})
  BY <1>1
<1>3. /\ Append(l, ch) \in Seq(S \cup {ch}) /\ Len(Append(l, ch)) = Len(l) + 1
      /\ \A i \in 1..Len(l) : Append(l, ch)[i] = l[i]
      /\ Append(l, ch)[Len(l) + 1] = ch
  BY <1>2, AppendProperties
<1>4. ToSet(Append(l, ch)) = ToSet(l) \cup {ch}
  <2>1. /\ DOMAIN l = 1..Len(l) /\ Len(l) \in Nat
        /\ DOMAIN Append(l, ch) = 1..(Len(l) + 1)
    BY <1>1, <1>3, LenProperties
  <2> HIDE <1>1, <1>2
  <2> DEFINE longer == Append(l, ch)
  <2>2. DOMAIN longer = 1..(Len(l) + 1) /\ longer[Len(l) + 1] = ch
        /\ \A i \in 1..Len(l) : longer[i] = l[i]
    BY <1>3, <2>1
  <2> HIDE DEF longer
  <2>3. ToSet(longer) = ToSet(l) \cup {ch}
    BY <2>1, <2>2 DEF ToSet
  <2> QED
    BY <2>3 DEF longer
<1>5. IsSequence(Append(l, ch)) /\ IsSequence(Without(l, ch))
  BY <1>1, <1>3, WithoutDrops DEF IsSequence
<1>6. ToSet(Without(l, ch)) = ToSet(l) \ {ch} /\ (ch \notin ToSet(l) => Without(l, ch) = l)
  BY <1>1, WithoutDrops, WithoutOfOthers
<1> QED
  BY <1>4, <1>5, <1>6

-----------------------------------------------------------------------------
(* The arcs of a layered outline and the chapters they hold. *)

\* A position is that of an arc of a volume.
LEMMA ArcsByPlace ==
  ASSUME NEW vols \in Seq(VolumeOutline)
  PROVE  /\ Len(vols) \in Nat
         /\ \A v \in 1..Len(vols) :
              vols[v] \in VolumeOutline /\ vols[v].arcs \in Seq(ArcOutline)
              /\ Len(vols[v].arcs) \in Nat
         /\ \A v, a : <<v, a>> \in Arcs(vols) <=> v \in 1..Len(vols) /\ a \in 1..Len(vols[v].arcs)
         /\ \A x \in Arcs(vols) : /\ x[1] \in 1..Len(vols) /\ x[2] \in 1..Len(vols[x[1]].arcs)
                                  /\ x = <<x[1], x[2]>>
                                  /\ ArcAt(vols, x) \in ArcOutline
<1>1. /\ Len(vols) \in Nat /\ DOMAIN vols = 1..Len(vols)
      /\ \A v \in 1..Len(vols) : vols[v] \in VolumeOutline
  OBVIOUS
<1>2. ASSUME NEW v \in 1..Len(vols)
      PROVE  vols[v].arcs \in Seq(ArcOutline)
  BY <1>1 DEF VolumeOutline
<1>3. ASSUME NEW v \in 1..Len(vols)
      PROVE  Len(vols[v].arcs) \in Nat /\ DOMAIN vols[v].arcs = 1..Len(vols[v].arcs)
  BY <1>2
<1>4. \A v, a : <<v, a>> \in Arcs(vols) <=> v \in 1..Len(vols) /\ a \in 1..Len(vols[v].arcs)
  BY <1>1, <1>3 DEF Arcs
<1>5. ASSUME NEW x \in Arcs(vols)
      PROVE  /\ x[1] \in 1..Len(vols) /\ x[2] \in 1..Len(vols[x[1]].arcs)
             /\ x = <<x[1], x[2]>>
             /\ ArcAt(vols, x) \in ArcOutline
  <2>1. PICK v \in 1..Len(vols) : \E a \in 1..Len(vols[v].arcs) : x = <<v, a>>
    BY <1>1, <1>3 DEF Arcs
  <2>3. PICK a \in 1..Len(vols[v].arcs) : x = <<v, a>>
    BY <2>1
  <2>2. vols[v].arcs[a] \in ArcOutline
    BY <1>2, <1>3, <2>3
  <2> QED
    BY <2>3, <2>2 DEF ArcAt
<1> QED
  BY <1>1, <1>2, <1>3, <1>4, <1>5

\* Finitely many finite sets, named by numbers or by anything else.
LEMMA UnionIsFinite ==
  ASSUME NEW I, IsFiniteSet(I), NEW f, \A i \in I : IsFiniteSet(f[i])
  PROVE  IsFiniteSet(UNION {f[i] : i \in I})
<1> DEFINE S == {f[i] : i \in I}
           g == [i \in I |-> f[i]]
<1>1. g \in Surjection(I, S)
  BY DEF Surjection
<1>2. IsFiniteSet(S)
  BY <1>1, FS_Surjection
<1> QED
  BY <1>2, FS_UNION

\* A column of n pairs.
LEMMA Column ==
  ASSUME NEW x, NEW n \in Nat
  PROVE  IsFiniteSet({x} \X (1..n)) /\ Cardinality({x} \X (1..n)) = n
<1>1. IsFiniteSet({x}) /\ Cardinality({x}) = 1
  BY FS_Singleton, Zenon
<1>2. IsFiniteSet(1..n) /\ Cardinality(1..n) = n
  <2>1. /\ IsFiniteSet(1..n)
        /\ Cardinality(1..n) = IF 1 > n THEN 0 ELSE n - 1 + 1
    BY FS_Interval
  <2> QED
    BY <2>1
<1>3. /\ IsFiniteSet({x} \X (1..n))
      /\ Cardinality({x} \X (1..n)) = Cardinality({x}) * Cardinality(1..n)
  BY <1>1, <1>2, FS_Product, Zenon
<1> QED
  BY <1>1, <1>2, <1>3

LEMMA ArcsAreFinite ==
  ASSUME NEW vols \in Seq(VolumeOutline)
  PROVE  IsFiniteSet(Arcs(vols))
<1> DEFINE f == [v \in 1..Len(vols) |-> {v} \X (1..Len(vols[v].arcs))]
<1>1. IsFiniteSet(1..Len(vols))
  <2>1. Len(vols) \in Int /\ 1 \in Int
    BY ArcsByPlace
  <2> QED
    BY <2>1, FS_Interval, Zenon
<1>2. ASSUME NEW v \in 1..Len(vols) PROVE IsFiniteSet(f[v])
  <2>1. Len(vols[v].arcs) \in Nat
    BY ArcsByPlace
  <2>2. IsFiniteSet({v} \X (1..Len(vols[v].arcs)))
    BY <2>1, Column
  <2> QED
    BY <2>2
<1>3. Arcs(vols) = UNION {f[v] : v \in 1..Len(vols)}
  <2>1. ASSUME NEW x \in Arcs(vols) PROVE x \in UNION {f[v] : v \in 1..Len(vols)}
    BY ArcsByPlace
  <2>2. ASSUME NEW v \in 1..Len(vols), NEW x \in f[v] PROVE x \in Arcs(vols)
    BY ArcsByPlace
  <2> QED
    BY <2>1, <2>2
<1> HIDE DEF f
<1>4. IsFiniteSet(UNION {f[v] : v \in 1..Len(vols)})
  BY <1>1, <1>2, UnionIsFinite
<1> QED
  BY <1>3, <1>4

\* Counting chapters: none, those of one arc, of two groups, of fewer.
LEMMA ChaptersAreFinite ==
  ASSUME NEW vols \in Seq(VolumeOutline), NEW A \in SUBSET Arcs(vols)
  PROVE  IsFiniteSet(Detailed(vols, A)) /\ ChapterCount(vols, A) \in Nat
<1> DEFINE f == [x \in A |-> {x} \X (1..ArcAt(vols, x).size)]
<1>1. IsFiniteSet(A)
  BY ArcsAreFinite, FS_Subset
<1>2. \A x \in A : IsFiniteSet(f[x])
  <2> SUFFICES ASSUME NEW x \in A PROVE IsFiniteSet({x} \X (1..ArcAt(vols, x).size))
    OBVIOUS
  <2>1. ArcAt(vols, x).size \in Nat
    BY ArcsByPlace DEF ArcOutline
  <2> QED
    BY <2>1, Column
<1>3. Detailed(vols, A) = UNION {f[x] : x \in A}
  BY DEF Detailed
<1> HIDE DEF f
<1>4. IsFiniteSet(Detailed(vols, A))
  BY <1>1, <1>2, <1>3, UnionIsFinite
<1> QED
  BY <1>4, FS_CardinalityType DEF ChapterCount

\* The capacity is a number too.
LEMMA CapacityIsCounted ==
  ASSUME NEW vols \in Seq(VolumeOutline)
  PROVE  EstimatedChapterCapacity(vols) \in Nat
<1> DEFINE f == [x \in Arcs(vols) |-> {x} \X (1..Expected(ArcAt(vols, x)))]
<1>1. \A x \in Arcs(vols) : IsFiniteSet(f[x])
  <2> SUFFICES ASSUME NEW x \in Arcs(vols)
               PROVE  IsFiniteSet({x} \X (1..Expected(ArcAt(vols, x))))
    OBVIOUS
  <2>1. Expected(ArcAt(vols, x)) \in Nat
    BY ArcsByPlace DEF Expected, ArcOutline
  <2> QED
    BY <2>1, Column
<1>2. UNION {{x} \X (1..Expected(ArcAt(vols, x))) : x \in Arcs(vols)} =
        UNION {f[x] : x \in Arcs(vols)}
  OBVIOUS
<1> HIDE DEF f
<1>3. IsFiniteSet(UNION {f[x] : x \in Arcs(vols)})
  BY <1>1, ArcsAreFinite, UnionIsFinite
<1> QED
  BY <1>2, <1>3, FS_CardinalityType DEF EstimatedChapterCapacity

LEMMA CountOfMore ==
  ASSUME NEW vols \in Seq(VolumeOutline), NEW B \in SUBSET Arcs(vols), NEW A \in SUBSET B
  PROVE  ChapterCount(vols, A) <= ChapterCount(vols, B)
<1>1. Detailed(vols, A) \subseteq Detailed(vols, B)
  BY DEF Detailed
<1> QED
  BY <1>1, ChaptersAreFinite, FS_Subset DEF ChapterCount

LEMMA CountOfBoth ==
  ASSUME NEW vols \in Seq(VolumeOutline), NEW A \in SUBSET Arcs(vols),
         NEW B \in SUBSET Arcs(vols), A \cap B = {}
  PROVE  ChapterCount(vols, A \cup B) = ChapterCount(vols, A) + ChapterCount(vols, B)
<1>1. Detailed(vols, A \cup B) = Detailed(vols, A) \cup Detailed(vols, B)
  BY DEF Detailed
<1>2. Detailed(vols, A) \cap Detailed(vols, B) = {}
  BY DEF Detailed
<1>3. IsFiniteSet(Detailed(vols, A)) /\ IsFiniteSet(Detailed(vols, B))
  BY ChaptersAreFinite
<1>4. ChapterCount(vols, A) \in Nat /\ ChapterCount(vols, B) \in Nat
  BY ChaptersAreFinite
<1>5. Cardinality(Detailed(vols, A) \cup Detailed(vols, B)) =
        Cardinality(Detailed(vols, A)) + Cardinality(Detailed(vols, B))
          - Cardinality(Detailed(vols, A) \cap Detailed(vols, B))
  BY <1>3, FS_Union
<1>6. Cardinality(Detailed(vols, A) \cap Detailed(vols, B)) = 0
  BY <1>2, FS_EmptySet
<1>7. ASSUME NEW a \in Nat, NEW b \in Nat, NEW c, NEW d, c = a + b - d, d = 0 PROVE c = a + b
  BY <1>7
<1>8. /\ ChapterCount(vols, A \cup B) = Cardinality(Detailed(vols, A) \cup Detailed(vols, B))
      /\ ChapterCount(vols, A) = Cardinality(Detailed(vols, A))
      /\ ChapterCount(vols, B) = Cardinality(Detailed(vols, B))
  BY <1>1 DEF ChapterCount
<1> QED
  BY <1>4, <1>5, <1>6, <1>7, <1>8

LEMMA CountOfOne ==
  ASSUME NEW vols \in Seq(VolumeOutline), NEW x \in Arcs(vols)
  PROVE  ArcAt(vols, x).size \in Nat /\ ChapterCount(vols, {x}) = ArcAt(vols, x).size
<1>1. ArcAt(vols, x).size \in Nat
  BY ArcsByPlace DEF ArcOutline
<1>2. Detailed(vols, {x}) = {x} \X (1..ArcAt(vols, x).size)
  BY DEF Detailed
<1> QED
  BY <1>1, <1>2, Column DEF ChapterCount

LEMMA CountOfSame ==
  ASSUME NEW vols, NEW new, NEW A, \A x \in A : ArcAt(new, x).size = ArcAt(vols, x).size
  PROVE  ChapterCount(new, A) = ChapterCount(vols, A)
<1>1. Detailed(new, A) = Detailed(vols, A)
  BY DEF Detailed
<1> QED
  BY <1>1 DEF ChapterCount

\* The order of the story.
LEMMA StoryOrder ==
  ASSUME NEW vols \in Seq(VolumeOutline), NEW x \in Arcs(vols), NEW y \in Arcs(vols)
  PROVE  /\ ~StoryBefore(x, x)
         /\ x = y \/ StoryBefore(x, y) \/ StoryBefore(y, x)
         /\ ~(StoryBefore(x, y) /\ StoryBefore(y, x))
         /\ \A z \in Arcs(vols) : StoryBefore(x, y) /\ StoryBefore(y, z) => StoryBefore(x, z)
<1>1. \A z \in Arcs(vols) : z[1] \in Int /\ z[2] \in Int /\ z = <<z[1], z[2]>>
  BY ArcsByPlace
<1> QED
  BY <1>1 DEF StoryBefore

Before(vols, x) == {y \in Arcs(vols) : StoryBefore(y, x)}

LEMMA ArcStarts ==
  ASSUME NEW vols \in Seq(VolumeOutline), NEW x
  PROVE  /\ StartChapter(vols, x) \in Nat \ {0}
         /\ StartChapter(vols, x) = 1 + ChapterCount(vols, Before(vols, x))
<1>1. Before(vols, x) \in SUBSET Arcs(vols)
  BY DEF Before
<1>2. ChapterCount(vols, Before(vols, x)) \in Nat
  BY <1>1, ChaptersAreFinite
<1>3. StartChapter(vols, x) = 1 + ChapterCount(vols, Before(vols, x))
  BY DEF StartChapter, Before
<1> QED
  BY <1>2, <1>3

\* A later arc starts after an earlier one has ended.
LEMMA StartsInOrder ==
  ASSUME NEW vols \in Seq(VolumeOutline), NEW x \in Arcs(vols), NEW y \in Arcs(vols),
         StoryBefore(x, y)
  PROVE  /\ EndChapter(vols, x) \in Nat
         /\ StartChapter(vols, y) > EndChapter(vols, x)
<1>1. Before(vols, x) \in SUBSET Arcs(vols) /\ Before(vols, y) \in SUBSET Arcs(vols)
  BY DEF Before
<1>2. {x} \in SUBSET Arcs(vols) /\ Before(vols, x) \cap {x} = {}
  BY StoryOrder DEF Before
<1>3. Before(vols, x) \cup {x} \in SUBSET Before(vols, y)
  BY StoryOrder DEF Before
<1>4. ChapterCount(vols, Before(vols, x) \cup {x}) =
        ChapterCount(vols, Before(vols, x)) + ChapterCount(vols, {x})
  BY <1>1, <1>2, CountOfBoth
<1>5. ChapterCount(vols, Before(vols, x) \cup {x}) <= ChapterCount(vols, Before(vols, y))
  BY <1>1, <1>3, CountOfMore
<1>6. ArcAt(vols, x).size \in Nat /\ ChapterCount(vols, {x}) = ArcAt(vols, x).size
  BY CountOfOne
<1>7. ChapterCount(vols, Before(vols, x)) \in Nat /\ ChapterCount(vols, Before(vols, y)) \in Nat
  BY <1>1, ChaptersAreFinite
<1>8. /\ StartChapter(vols, x) = 1 + ChapterCount(vols, Before(vols, x))
      /\ StartChapter(vols, y) = 1 + ChapterCount(vols, Before(vols, y))
  BY ArcStarts
<1>9. EndChapter(vols, x) = StartChapter(vols, x) + ArcAt(vols, x).size - 1
  BY DEF EndChapter
<1> HIDE DEF Before
<1> QED
  BY <1>4, <1>5, <1>6, <1>7, <1>8, <1>9

\* Of some arcs that have chapters one comes first.
LEMMA FirstArc ==
  ASSUME NEW vols \in Seq(VolumeOutline), NEW A \in SUBSET Arcs(vols), A # {},
         \A x \in A : IsArcExpanded(ArcAt(vols, x))
  PROVE  \E x \in A : \A y \in A \ {x} : StoryBefore(x, y)
<1> DEFINE ends == {EndChapter(vols, x) : x \in A}
<1>1. \A x \in A : /\ EndChapter(vols, x) \in Nat
                   /\ EndChapter(vols, x) >= StartChapter(vols, x)
                   /\ StartChapter(vols, x) \in Nat
  <2> SUFFICES ASSUME NEW x \in A
               PROVE  /\ EndChapter(vols, x) \in Nat
                      /\ EndChapter(vols, x) >= StartChapter(vols, x)
                      /\ StartChapter(vols, x) \in Nat
    OBVIOUS
  <2>1. ArcAt(vols, x).size \in Nat /\ ArcAt(vols, x).size > 0
    BY ArcsByPlace DEF ArcOutline, IsArcExpanded
  <2>2. StartChapter(vols, x) \in Nat \ {0}
    BY ArcStarts
  <2> QED
    BY <2>1, <2>2 DEF EndChapter
<1>2. PICK e \in ends : \A d \in ends : e <= d
  <2>1. ends \subseteq Nat /\ ends # {}
    BY <1>1
  <2> HIDE DEF ends
  <2> QED
    BY <2>1, LeastNumber
<1>3. PICK x \in A : e = EndChapter(vols, x)
  BY <1>2
<1>4. ASSUME NEW y \in A, y # x PROVE StoryBefore(x, y)
  <2>1. EndChapter(vols, x) <= EndChapter(vols, y)
    BY <1>2, <1>3
  <2>2. StoryBefore(y, x) => StartChapter(vols, x) > EndChapter(vols, y)
    BY StartsInOrder
  <2>3. ~StoryBefore(y, x)
    BY <1>1, <2>1, <2>2
  <2> QED
    BY <1>4, <2>3, StoryOrder
<1> QED
  BY <1>4

\* Where an arc starts depends on the arcs before it and on nothing else.
LEMMA StartStays ==
  ASSUME NEW vols, NEW new, NEW x, Before(new, x) = Before(vols, x),
         \A y \in Before(vols, x) : ArcAt(new, y).size = ArcAt(vols, y).size
  PROVE  StartChapter(new, x) = StartChapter(vols, x)
BY CountOfSame DEF StartChapter, Before

-----------------------------------------------------------------------------
(* Growing the outline. *)

Numbered(vols) ==
  \A v \in DOMAIN vols :
    vols[v].index > 0 /\ \A a \in DOMAIN vols[v].arcs : vols[v].arcs[a].index > 0

\* A function from places is a sequence.
LEMMA SequenceByPlace ==
  ASSUME NEW S, NEW n \in Nat, NEW f, f = [i \in 1..n |-> f[i]], \A i \in 1..n : f[i] \in S
  PROVE  f \in Seq(S) /\ Len(f) = n /\ DOMAIN f = 1..n
<1>1. f \in [1..n -> S]
  OBVIOUS
<1>2. f \in Seq(S)
  BY <1>1, IsASeq
<1> QED
  BY <1>1, <1>2

LEMMA RepairedArcs ==
  ASSUME NEW arcs \in Seq(ArcOutline)
  PROVE  LET repaired == [a \in DOMAIN arcs |-> RepairedArc(arcs[a], a)]
         IN  /\ repaired \in Seq(ArcOutline) /\ Len(repaired) = Len(arcs)
             /\ \A a \in DOMAIN arcs : repaired[a].index > 0 /\ repaired[a].size = arcs[a].size
             /\ (\A a \in DOMAIN arcs : arcs[a].index > 0) => repaired = arcs
<1> DEFINE repaired == [a \in DOMAIN arcs |-> RepairedArc(arcs[a], a)]
<1>1. Len(arcs) \in Nat /\ DOMAIN arcs = 1..Len(arcs) /\ \A a \in 1..Len(arcs) : arcs[a] \in ArcOutline
  OBVIOUS
<1>2. ASSUME NEW arc \in ArcOutline, NEW a \in Nat \ {0}
      PROVE  /\ RepairedArc(arc, a) \in ArcOutline /\ RepairedArc(arc, a).index > 0
             /\ RepairedArc(arc, a).size = arc.size
             /\ arc.index > 0 => RepairedArc(arc, a) = arc
  <2> DEFINE i == RepairedIndex(arc.index, a)
  <2>1. arc.index \in Int
    BY DEF ArcOutline
  <2>2. i \in Int /\ i > 0 /\ (arc.index > 0 => i = arc.index)
    BY <2>1 DEF RepairedIndex
  <2>3. RepairedArc(arc, a) = [arc EXCEPT !.index = i]
    BY DEF RepairedArc
  <2> HIDE DEF i
  <2>4. /\ [arc EXCEPT !.index = i] \in ArcOutline /\ [arc EXCEPT !.index = i].index = i
        /\ [arc EXCEPT !.index = i].size = arc.size
        /\ i = arc.index => [arc EXCEPT !.index = i] = arc
    BY <2>2 DEF ArcOutline
  <2> QED
    BY <2>2, <2>3, <2>4
<1>3. \A a \in 1..Len(arcs) :
        /\ repaired[a] \in ArcOutline /\ repaired[a].index > 0 /\ repaired[a].size = arcs[a].size
        /\ arcs[a].index > 0 => repaired[a] = arcs[a]
  BY <1>1, <1>2
<1>4. repaired = [a \in 1..Len(arcs) |-> repaired[a]]
  BY <1>1
<1> HIDE DEF repaired
<1>5. repaired \in Seq(ArcOutline) /\ Len(repaired) = Len(arcs) /\ DOMAIN repaired = 1..Len(arcs)
  BY <1>1, <1>3, <1>4, SequenceByPlace
<1>6. (\A a \in DOMAIN arcs : arcs[a].index > 0) => repaired = arcs
  BY <1>1, <1>3, <1>5
<1> QED
  BY <1>1, <1>3, <1>5, <1>6 DEF repaired

\* repairMissingLayeredIndexes numbers what has no number and changes nothing else.
LEMMA RepairNumbers ==
  ASSUME NEW vols \in Seq(VolumeOutline)
  PROVE  LET repaired == RepairMissingLayeredIndexes(vols)
         IN  /\ repaired \in Seq(VolumeOutline) /\ Len(repaired) = Len(vols)
             /\ Numbered(repaired)
             /\ \A v \in 1..Len(vols) :
                  vols[v].index > 0 /\ (\A a \in DOMAIN vols[v].arcs : vols[v].arcs[a].index > 0)
                  => repaired[v] = vols[v]
             /\ \A v \in 1..Len(vols) :
                  /\ Len(repaired[v].arcs) = Len(vols[v].arcs)
                  /\ \A a \in 1..Len(vols[v].arcs) :
                       repaired[v].arcs[a].size = vols[v].arcs[a].size
<1> DEFINE repaired == RepairMissingLayeredIndexes(vols)
<1>1. Len(vols) \in Nat /\ DOMAIN vols = 1..Len(vols)
      /\ \A v \in 1..Len(vols) : vols[v] \in VolumeOutline
  OBVIOUS
<1>2. ASSUME NEW volume \in VolumeOutline, NEW v \in Nat \ {0}
      PROVE  /\ RepairedVolume(volume, v) \in VolumeOutline
             /\ RepairedVolume(volume, v).index > 0
             /\ \A a \in DOMAIN RepairedVolume(volume, v).arcs :
                  RepairedVolume(volume, v).arcs[a].index > 0
             /\ volume.index > 0 /\ (\A a \in DOMAIN volume.arcs : volume.arcs[a].index > 0)
                => RepairedVolume(volume, v) = volume
             /\ Len(RepairedVolume(volume, v).arcs) = Len(volume.arcs)
             /\ \A a \in 1..Len(volume.arcs) :
                  RepairedVolume(volume, v).arcs[a].size = volume.arcs[a].size
  <2> DEFINE arcs == [a \in DOMAIN volume.arcs |-> RepairedArc(volume.arcs[a], a)]
             i == RepairedIndex(volume.index, v)
  <2>1. volume.arcs \in Seq(ArcOutline) /\ volume.index \in Int
    BY DEF VolumeOutline
  <2>2. /\ arcs \in Seq(ArcOutline) /\ Len(arcs) = Len(volume.arcs)
        /\ \A a \in DOMAIN volume.arcs : arcs[a].index > 0 /\ arcs[a].size = volume.arcs[a].size
        /\ (\A a \in DOMAIN volume.arcs : volume.arcs[a].index > 0) => arcs = volume.arcs
    BY <2>1, RepairedArcs
  <2>3. i \in Int /\ i > 0 /\ (volume.index > 0 => i = volume.index)
    BY <2>1 DEF RepairedIndex
  <2>4. RepairedVolume(volume, v) = [volume EXCEPT !.index = i, !.arcs = arcs]
    BY DEF RepairedVolume
  <2> HIDE DEF arcs, i
  <2>5. /\ [volume EXCEPT !.index = i, !.arcs = arcs] \in VolumeOutline
        /\ [volume EXCEPT !.index = i, !.arcs = arcs].index = i
        /\ [volume EXCEPT !.index = i, !.arcs = arcs].arcs = arcs
    BY <2>2, <2>3 DEF VolumeOutline
  <2>6. i = volume.index /\ arcs = volume.arcs => [volume EXCEPT !.index = i, !.arcs = arcs] = volume
    BY DEF VolumeOutline
  <2>7. DOMAIN arcs = DOMAIN volume.arcs /\ DOMAIN volume.arcs = 1..Len(volume.arcs)
    BY <2>1, <2>2
  <2> QED
    BY <2>2, <2>3, <2>4, <2>5, <2>6, <2>7
<1>3. repaired = [v \in 1..Len(vols) |-> RepairedVolume(vols[v], v)]
  BY <1>1 DEF RepairMissingLayeredIndexes
<1>4. \A v \in 1..Len(vols) : repaired[v] = RepairedVolume(vols[v], v)
  BY <1>3
<1> HIDE DEF repaired
<1>5. /\ repaired \in Seq(VolumeOutline) /\ Len(repaired) = Len(vols)
      /\ DOMAIN repaired = 1..Len(vols)
  <2>1. \A v \in 1..Len(vols) : repaired[v] \in VolumeOutline
    BY <1>1, <1>2, <1>4
  <2>2. repaired = [v \in 1..Len(vols) |-> repaired[v]]
    BY <1>3
  <2> QED
    BY <1>1, <2>1, <2>2, SequenceByPlace
<1>6. Numbered(repaired)
  BY <1>1, <1>2, <1>4, <1>5 DEF Numbered
<1> QED
  BY <1>1, <1>2, <1>4, <1>5, <1>6 DEF repaired

LEMMA RepairOfNumbered ==
  ASSUME NEW vols \in Seq(VolumeOutline), Numbered(vols)
  PROVE  RepairMissingLayeredIndexes(vols) = vols
<1> DEFINE repaired == RepairMissingLayeredIndexes(vols)
<1>1. repaired \in Seq(VolumeOutline) /\ Len(repaired) = Len(vols)
  BY RepairNumbers
<1>2. \A v \in 1..Len(vols) : repaired[v] = vols[v]
  BY RepairNumbers DEF Numbered
<1> HIDE DEF repaired
<1>3. repaired = vols
  BY <1>1, <1>2
<1> QED
  BY <1>3 DEF repaired

\* A volume with its arcs numbered through.
LEMMA NumberedVolume ==
  ASSUME NEW volume \in VolumeOutline, NEW index \in Int
  PROVE  LET numbered == NumberVolume(volume, index)
         IN  /\ numbered \in VolumeOutline /\ Len(numbered.arcs) = Len(volume.arcs)
             /\ \A a \in 1..Len(volume.arcs) : numbered.arcs[a].size = volume.arcs[a].size
<1> DEFINE arcs == [a \in DOMAIN volume.arcs |-> NumberArc(volume.arcs[a], a)]
           numbered == NumberVolume(volume, index)
<1>1. /\ volume.arcs \in Seq(ArcOutline) /\ Len(volume.arcs) \in Nat
      /\ DOMAIN volume.arcs = 1..Len(volume.arcs)
      /\ \A a \in 1..Len(volume.arcs) : volume.arcs[a] \in ArcOutline
  BY DEF VolumeOutline
<1>2. ASSUME NEW arc \in ArcOutline, NEW a \in Nat
      PROVE  NumberArc(arc, a) \in ArcOutline /\ NumberArc(arc, a).size = arc.size
  BY DEF NumberArc, ArcOutline
<1>3. ASSUME NEW a \in 1..Len(volume.arcs)
      PROVE  arcs[a] \in ArcOutline /\ arcs[a].size = volume.arcs[a].size
  <2>1. arcs[a] = NumberArc(volume.arcs[a], a)
    BY <1>1
  <2>2. a \in Nat /\ volume.arcs[a] \in ArcOutline
    BY <1>1
  <2> HIDE DEF arcs, numbered
  <2>3. /\ NumberArc(volume.arcs[a], a) \in ArcOutline
        /\ NumberArc(volume.arcs[a], a).size = volume.arcs[a].size
    BY <1>2, <2>2
  <2> QED
    BY <2>1, <2>3
<1>4. arcs = [a \in 1..Len(volume.arcs) |-> arcs[a]]
  BY <1>1
<1>5. numbered = [volume EXCEPT !.index = index, !.arcs = arcs]
  BY DEF NumberVolume
<1> HIDE DEF arcs, numbered
<1>6. arcs \in Seq(ArcOutline) /\ Len(arcs) = Len(volume.arcs)
  BY <1>1, <1>3, <1>4, SequenceByPlace
<1>7. numbered \in VolumeOutline /\ numbered.arcs = arcs
  BY <1>5, <1>6 DEF VolumeOutline
<1> QED
  BY <1>3, <1>6, <1>7 DEF numbered

-----------------------------------------------------------------------------
(* What growth leaves alone. *)

\* An arc that keeps its place, its chapters and those before it.
SettledAt(vols, new, x) ==
  /\ x \in Arcs(new) /\ ArcAt(new, x) = ArcAt(vols, x)
  /\ StartChapter(new, x) = StartChapter(vols, x)

\* appendVolumePlan adds after everything that is there.
LEMMA AppendSettles ==
  ASSUME NEW vols \in Seq(VolumeOutline), Numbered(vols), NEW incoming \in VolumeOutline
  PROVE  LET appended == AppendVolumePlan(vols, incoming)
             new      == RepairMissingLayeredIndexes(appended.vols)
         IN  /\ appended.vols \in Seq(VolumeOutline)
             /\ \A x \in Arcs(vols) : SettledAt(vols, new, x)
<1> DEFINE index == IF vols = <<>> THEN 1 ELSE Last(vols).index + 1
           numbered == NumberVolume(incoming, index)
           longer == Append(vols, numbered)
           appended == AppendVolumePlan(vols, incoming)
           new == RepairMissingLayeredIndexes(appended.vols)
<1>1. RepairMissingLayeredIndexes(vols) = vols
  BY RepairOfNumbered
<1>2. appended.vols \in {vols, longer}
  BY <1>1, Zenon DEF AppendVolumePlan, Refused
<1>3. index \in Int
  <2>1. vols # <<>> => Last(vols) \in VolumeOutline
    BY DEF Last
  <2> QED
    BY <2>1 DEF VolumeOutline
<1> HIDE DEF index, appended
<1>4. numbered \in VolumeOutline
  BY <1>3, NumberedVolume
<1> HIDE DEF numbered
<1>5. /\ longer \in Seq(VolumeOutline) /\ Len(longer) = Len(vols) + 1 /\ Len(vols) \in Nat
      /\ \A v \in 1..Len(vols) : longer[v] = vols[v]
  BY <1>4, AppendProperties
<1> HIDE DEF longer
<1>6. /\ appended.vols \in Seq(VolumeOutline) /\ Len(appended.vols) >= Len(vols)
      /\ Len(appended.vols) \in Nat
      /\ \A v \in 1..Len(vols) : appended.vols[v] = vols[v]
  BY <1>2, <1>5
<1>7. /\ new \in Seq(VolumeOutline) /\ Len(new) = Len(appended.vols)
      /\ \A v \in 1..Len(vols) : new[v] = vols[v]
  BY <1>5, <1>6, RepairNumbers DEF Numbered
<1> HIDE DEF new
<1>8. ASSUME NEW x \in Arcs(vols) PROVE SettledAt(vols, new, x)
  <2>1. /\ x[1] \in 1..Len(vols) /\ x[2] \in 1..Len(vols[x[1]].arcs)
        /\ x = <<x[1], x[2]>>
    BY ArcsByPlace
  <2>2. \A y : y[1] \in 1..Len(vols) => ArcAt(new, y) = ArcAt(vols, y)
    BY <1>7 DEF ArcAt
  <2>3. x \in Arcs(new)
    <3>1. x[1] \in 1..Len(new) /\ x[2] \in 1..Len(new[x[1]].arcs)
      BY <1>5, <1>6, <1>7, <2>1
    <3>2. <<x[1], x[2]>> \in Arcs(new)
      BY <1>7, <3>1, ArcsByPlace
    <3> QED
      BY <2>1, <3>2
  <2>4. Before(new, x) = Before(vols, x)
    <3>1. ASSUME NEW y \in Before(new, x) PROVE y \in Before(vols, x)
      <4>1. /\ y \in Arcs(new) /\ y[1] \in 1..Len(new) /\ y[2] \in 1..Len(new[y[1]].arcs)
            /\ y = <<y[1], y[2]>> /\ StoryBefore(y, x)
        BY <1>7, ArcsByPlace DEF Before
      <4>2. y[1] \in 1..Len(vols)
        BY <1>5, <1>6, <1>7, <2>1, <4>1 DEF StoryBefore
      <4>3. y[2] \in 1..Len(vols[y[1]].arcs)
        BY <1>7, <4>1, <4>2
      <4>4. <<y[1], y[2]>> \in Arcs(vols)
        BY <4>2, <4>3, ArcsByPlace
      <4> QED
        BY <4>1, <4>4 DEF Before
    <3>2. ASSUME NEW y \in Before(vols, x) PROVE y \in Before(new, x)
      <4>1. /\ y \in Arcs(vols) /\ y[1] \in 1..Len(vols) /\ y[2] \in 1..Len(vols[y[1]].arcs)
            /\ y = <<y[1], y[2]>> /\ StoryBefore(y, x)
        BY ArcsByPlace DEF Before
      <4>2. y[1] \in 1..Len(new) /\ y[2] \in 1..Len(new[y[1]].arcs)
        BY <1>5, <1>6, <1>7, <4>1
      <4>3. <<y[1], y[2]>> \in Arcs(new)
        BY <1>7, <4>2, ArcsByPlace
      <4> QED
        BY <4>1, <4>3 DEF Before
    <3> QED
      BY <3>1, <3>2
  <2>5. \A y \in Before(vols, x) : ArcAt(new, y).size = ArcAt(vols, y).size
    BY <2>2, ArcsByPlace DEF Before
  <2>6. StartChapter(new, x) = StartChapter(vols, x)
    BY <2>4, <2>5, StartStays
  <2> QED
    BY <2>1, <2>2, <2>3, <2>6 DEF SettledAt
<1> QED
  BY <1>6, <1>8 DEF new, appended

\* The outline with another arc at z.
Replaced(vols, z, arc) == [vols EXCEPT ![z[1]].arcs[z[2]] = arc]

LEMMA ArcReplaced ==
  ASSUME NEW vols \in Seq(VolumeOutline), NEW z \in Arcs(vols), NEW arc \in ArcOutline
  PROVE  LET new == Replaced(vols, z, arc)
         IN  /\ new \in Seq(VolumeOutline) /\ Arcs(new) = Arcs(vols) /\ Len(new) = Len(vols)
             /\ ArcAt(new, z) = arc
             /\ \A y \in Arcs(vols) : y # z => ArcAt(new, y) = ArcAt(vols, y)
             /\ \A v \in 1..Len(vols) : /\ new[v].index = vols[v].index
                                        /\ Len(new[v].arcs) = Len(vols[v].arcs)
<1> DEFINE v == z[1]
           arcs == [vols[v].arcs EXCEPT ![z[2]] = arc]
           volume == [vols[v] EXCEPT !.arcs = arcs]
           new == Replaced(vols, z, arc)
<1>1. /\ v \in 1..Len(vols) /\ z[2] \in 1..Len(vols[v].arcs) /\ z = <<v, z[2]>>
      /\ vols[v] \in VolumeOutline /\ vols[v].arcs \in Seq(ArcOutline)
      /\ Len(vols) \in Nat /\ DOMAIN vols = 1..Len(vols)
  BY ArcsByPlace
<1>2. new = [vols EXCEPT ![v] = volume]
  BY <1>1 DEF Replaced
<1>3. /\ arcs \in Seq(ArcOutline) /\ Len(arcs) = Len(vols[v].arcs) /\ arcs[z[2]] = arc
      /\ \A a \in 1..Len(vols[v].arcs) : a # z[2] => arcs[a] = vols[v].arcs[a]
  BY <1>1
<1> HIDE DEF arcs, new
<1>4. volume \in VolumeOutline /\ volume.arcs = arcs /\ volume.index = vols[v].index
  BY <1>1, <1>3 DEF VolumeOutline
<1> HIDE DEF volume
<1>5. /\ new \in Seq(VolumeOutline) /\ Len(new) = Len(vols) /\ new[v] = volume
      /\ \A w \in 1..Len(vols) : w # v => new[w] = vols[w]
  BY <1>1, <1>2, <1>4
<1> HIDE DEF v
<1>6. \A w \in 1..Len(vols) : new[w].index = vols[w].index /\ Len(new[w].arcs) = Len(vols[w].arcs)
  BY <1>3, <1>4, <1>5
<1>7. Arcs(new) = Arcs(vols)
  <2>1. ASSUME NEW y \in Arcs(new) PROVE y \in Arcs(vols)
    <3>1. y = <<y[1], y[2]>> /\ <<y[1], y[2]>> \in Arcs(vols)
      BY <1>5, <1>6, ArcsByPlace
    <3> QED
      BY <3>1
  <2>2. ASSUME NEW y \in Arcs(vols) PROVE y \in Arcs(new)
    <3>1. y = <<y[1], y[2]>> /\ <<y[1], y[2]>> \in Arcs(new)
      BY <1>5, <1>6, ArcsByPlace
    <3> QED
      BY <3>1
  <2> QED
    BY <2>1, <2>2
<1>8. ArcAt(new, z) = arc
  BY <1>1, <1>3, <1>4, <1>5 DEF ArcAt, v
<1>9. ASSUME NEW y \in Arcs(vols), y # z PROVE ArcAt(new, y) = ArcAt(vols, y)
  <2>1. y = <<y[1], y[2]>> /\ y[1] \in 1..Len(vols) /\ y[2] \in 1..Len(vols[y[1]].arcs)
    BY ArcsByPlace
  <2>2. CASE y[1] = v
    <3>1. y[2] # z[2]
      BY <1>1, <1>9, <2>1, <2>2
    <3> QED
      BY <1>3, <1>4, <1>5, <2>1, <2>2, <3>1 DEF ArcAt
  <2>3. CASE y[1] # v
    BY <1>5, <2>1, <2>3 DEF ArcAt
  <2> QED
    BY <2>2, <2>3
<1> QED
  BY <1>5, <1>6, <1>7, <1>8, <1>9 DEF new

\* Where each arc has indexes of its own, an index finds the arc it was read from.
IndexesTell(vols) ==
  \A x, y \in Arcs(vols) :
    vols[x[1]].index = vols[y[1]].index /\ ArcAt(vols, x).index = ArcAt(vols, y).index => x = y

\* checkArcBoundary at the end of an arc: no arc that follows, or the one that
\* follows.
LEMMA BoundaryFollows ==
  ASSUME NEW vols \in Seq(VolumeOutline), NEW last
  PROVE  LET b == CheckArcBoundary(vols, last)
         IN  \/ /\ ~b.isArcEnd /\ b.nextArc = 0
                /\ \A x \in Arcs(vols) :
                     ~(IsArcExpanded(ArcAt(vols, x)) /\ EndChapter(vols, x) = last)
             \/ \E x \in Arcs(vols) :
                  /\ b.isArcEnd
                  /\ IsArcExpanded(ArcAt(vols, x)) /\ EndChapter(vols, x) = last
                  /\ \/ FollowingArc(vols, x) = {} /\ b.nextArc = 0
                        /\ b.needsNewVolume = EndsVolume(vols, x)
                     \/ \E y \in FollowingArc(vols, x) :
                          /\ b.nextVolume = vols[y[1]].index /\ b.nextArc = ArcAt(vols, y).index
                          /\ b.needsExpansion = ~IsArcExpanded(ArcAt(vols, y))
<1> DEFINE b == CheckArcBoundary(vols, last)
           ending == {x \in Arcs(vols) : IsArcExpanded(ArcAt(vols, x)) /\ EndChapter(vols, x) = last}
           x == CHOOSE y \in ending : TRUE
           after == FollowingArc(vols, x)
           y == CHOOSE z \in after : TRUE
<1>1. CASE ending = {}
  <2>1. b = NoBoundary
    BY <1>1 DEF CheckArcBoundary
  <2> QED
    BY <1>1, <2>1 DEF NoBoundary
<1>2. CASE ending # {}
  <2>1. x \in ending
    BY <1>2
  <2>2. CASE after = {}
    <3>1. b = [Boundary(vols, x) EXCEPT !.needsNewVolume = EndsVolume(vols, x)]
      BY <1>2, <2>2, Zenon DEF CheckArcBoundary
    <3>2. b.isArcEnd /\ b.nextArc = 0 /\ b.needsNewVolume = EndsVolume(vols, x)
      BY <3>1 DEF Boundary
    <3> QED
      BY <2>1, <2>2, <3>2
  <2>3. CASE after # {}
    <3>1. b = [Boundary(vols, x) EXCEPT
                 !.nextVolume = vols[y[1]].index,
                 !.nextArc = ArcAt(vols, y).index,
                 !.needsExpansion = ~IsArcExpanded(ArcAt(vols, y))]
      BY <1>2, <2>3, Zenon DEF CheckArcBoundary
    <3>2. y \in after
      BY <2>3
    <3> HIDE DEF y
    <3>3. /\ b.isArcEnd /\ b.nextVolume = vols[y[1]].index /\ b.nextArc = ArcAt(vols, y).index
          /\ b.needsExpansion = ~IsArcExpanded(ArcAt(vols, y))
      BY <3>1 DEF Boundary
    <3> QED
      BY <2>1, <3>2, <3>3
  <2> QED
    BY <2>2, <2>3
<1> QED
  BY <1>1, <1>2

OnlyAt(vols, new, z) ==
  /\ Arcs(new) = Arcs(vols) /\ Len(new) = Len(vols)
  /\ \A v \in 1..Len(vols) : Len(new[v].arcs) = Len(vols[v].arcs)
  /\ \A y \in Arcs(vols) : y # z => ArcAt(new, y) = ArcAt(vols, y)

\* expandArcAt gives chapters to the first skeleton with the indexes of the arc
\* that follows, or changes nothing.
LEMMA ExpandReplaces ==
  ASSUME NEW vols \in Seq(VolumeOutline), Numbered(vols), NEW last, NEW size \in Nat,
         NEW plan \in STRING
  PROVE  LET b   == CheckArcBoundary(vols, last)
             new == ExpandArcAt(vols, last, size, plan).vols
         IN  /\ new \in Seq(VolumeOutline) /\ Numbered(new)
             /\ \/ new = vols
                \/ \E z \in FindArc(vols, b.nextVolume, b.nextArc) :
                     /\ b.isArcEnd /\ b.nextArc > 0 /\ ~IsArcExpanded(ArcAt(vols, z))
                     /\ OnlyAt(vols, new, z)
<1> DEFINE b == CheckArcBoundary(vols, last)
           found == FindArc(vols, b.nextVolume, b.nextArc)
           z == CHOOSE y \in found : TRUE
           arc == [ArcAt(vols, z) EXCEPT !.size = size, !.est = 0, !.plan = plan]
           grown == Replaced(vols, z, arc)
           new == ExpandArcAt(vols, last, size, plan).vols
<1>1. RepairMissingLayeredIndexes(vols) = vols
  BY RepairOfNumbered
<1>2. \/ new = vols
      \/ /\ new = grown /\ b.isArcEnd /\ ~(b.nextArc <= 0) /\ found # {}
         /\ ~IsArcExpanded(ArcAt(vols, z))
  BY <1>1, Zenon DEF ExpandArcAt, Refused, Replaceable, Replaced
<1>3. CASE new = vols
  BY <1>3
<1>4. CASE /\ new = grown /\ b.isArcEnd /\ ~(b.nextArc <= 0) /\ found # {}
           /\ ~IsArcExpanded(ArcAt(vols, z))
  <2>1. z \in found /\ z \in Arcs(vols)
    BY <1>4 DEF FindArc
  <2>2. b.nextArc \in Int
    <3>1. \A y \in Arcs(vols) : ArcAt(vols, y).index \in Int
      BY ArcsByPlace DEF ArcOutline
    <3>2. b.nextArc = ArcAt(vols, z).index
      BY <2>1 DEF FindArc
    <3> QED
      BY <2>1, <3>1, <3>2
  <2> HIDE DEF b, found, z
  <2>3. arc \in ArcOutline /\ arc.index = ArcAt(vols, z).index
    <3>1. ArcAt(vols, z) \in ArcOutline
      BY <2>1, ArcsByPlace
    <3> QED
      BY <3>1 DEF ArcOutline
  <2> HIDE DEF arc
  <2>4. /\ grown \in Seq(VolumeOutline) /\ Arcs(grown) = Arcs(vols) /\ Len(grown) = Len(vols)
        /\ ArcAt(grown, z) = arc
        /\ \A y \in Arcs(vols) : y # z => ArcAt(grown, y) = ArcAt(vols, y)
        /\ \A v \in 1..Len(vols) : /\ grown[v].index = vols[v].index
                                   /\ Len(grown[v].arcs) = Len(vols[v].arcs)
    BY <2>1, <2>3, ArcReplaced
  <2> HIDE DEF grown
  <2>5. Numbered(grown)
    <3>1. \A v \in 1..Len(vols) : vols[v].index > 0
      BY DEF Numbered
    <3>2. ASSUME NEW v \in 1..Len(grown), NEW a \in 1..Len(grown[v].arcs)
          PROVE  grown[v].arcs[a].index > 0
      <4>1. <<v, a>> \in Arcs(vols) /\ a \in 1..Len(vols[v].arcs)
        BY <2>4, ArcsByPlace
      <4>2. \A y \in Arcs(vols) : ArcAt(grown, y).index = ArcAt(vols, y).index
        BY <2>3, <2>4
      <4>3. ArcAt(grown, <<v, a>>) = grown[v].arcs[a] /\ ArcAt(vols, <<v, a>>) = vols[v].arcs[a]
        BY DEF ArcAt
      <4>4. v \in DOMAIN vols /\ a \in DOMAIN vols[v].arcs
        BY <2>4, <4>1, ArcsByPlace
      <4>5. vols[v].arcs[a].index > 0
        BY <4>4 DEF Numbered
      <4> QED
        BY <4>1, <4>2, <4>3, <4>5
    <3>3. DOMAIN grown = 1..Len(grown)
      BY <2>4
    <3>4. \A v \in 1..Len(grown) : DOMAIN grown[v].arcs = 1..Len(grown[v].arcs)
      BY <2>4, ArcsByPlace
    <3>5. \A v \in 1..Len(grown) : grown[v].index > 0
      BY <2>4, <3>1
    <3> QED
      BY <3>2, <3>3, <3>4, <3>5 DEF Numbered
  <2>6. b.nextArc > 0
    BY <1>4, <2>2
  <2> QED
    BY <1>4, <2>1, <2>4, <2>5, <2>6 DEF found, b, OnlyAt
<1> QED
  BY <1>2, <1>3, <1>4

\* And that skeleton lies behind everything that is written.
LEMMA ExpansionIsAhead ==
  ASSUME NEW vols \in Seq(VolumeOutline), Numbered(vols), IndexesTell(vols),
         NEW last \in Nat, NEW size \in Nat, NEW plan \in STRING,
         NEW x \in Arcs(vols), IsArcExpanded(ArcAt(vols, x)), StartChapter(vols, x) <= last
  PROVE  LET new == RepairMissingLayeredIndexes(ExpandArcAt(vols, last, size, plan).vols)
         IN  SettledAt(vols, new, x)
<1> DEFINE b == CheckArcBoundary(vols, last)
           new == ExpandArcAt(vols, last, size, plan).vols
<1>1. /\ new \in Seq(VolumeOutline) /\ Numbered(new)
      /\ \/ new = vols
         \/ \E z \in FindArc(vols, b.nextVolume, b.nextArc) :
              /\ b.isArcEnd /\ b.nextArc > 0 /\ ~IsArcExpanded(ArcAt(vols, z))
              /\ OnlyAt(vols, new, z)
  BY ExpandReplaces
<1>2. RepairMissingLayeredIndexes(new) = new
  BY <1>1, RepairOfNumbered
<1>3. SettledAt(vols, vols, x)
  BY DEF SettledAt
<1>4. ASSUME NEW z \in FindArc(vols, b.nextVolume, b.nextArc),
             b.isArcEnd, b.nextArc > 0, ~IsArcExpanded(ArcAt(vols, z)),
             OnlyAt(vols, new, z)
      PROVE  SettledAt(vols, new, x)
  <2>1. \/ /\ ~b.isArcEnd /\ b.nextArc = 0
           /\ \A e \in Arcs(vols) :
                ~(IsArcExpanded(ArcAt(vols, e)) /\ EndChapter(vols, e) = last)
        \/ \E e \in Arcs(vols) :
             /\ b.isArcEnd
             /\ IsArcExpanded(ArcAt(vols, e)) /\ EndChapter(vols, e) = last
             /\ \/ FollowingArc(vols, e) = {} /\ b.nextArc = 0
                   /\ b.needsNewVolume = EndsVolume(vols, e)
                \/ \E y \in FollowingArc(vols, e) :
                     /\ b.nextVolume = vols[y[1]].index /\ b.nextArc = ArcAt(vols, y).index
                     /\ b.needsExpansion = ~IsArcExpanded(ArcAt(vols, y))
    BY BoundaryFollows
  <2> HIDE DEF b, new
  <2>2. PICK e \in Arcs(vols) :
          /\ EndChapter(vols, e) = last
          /\ \E y \in FollowingArc(vols, e) :
               b.nextVolume = vols[y[1]].index /\ b.nextArc = ArcAt(vols, y).index
    BY <1>4, <2>1
  <2>3. PICK y \in FollowingArc(vols, e) :
          b.nextVolume = vols[y[1]].index /\ b.nextArc = ArcAt(vols, y).index
    BY <2>2
  <2>4. y \in Arcs(vols) /\ StoryBefore(e, y)
    BY DEF FollowingArc
  <2>5. z = y /\ z \in Arcs(vols)
    BY <2>3, <2>4 DEF FindArc, IndexesTell
  <2>6. ~StoryBefore(e, x)
    <3> SUFFICES ASSUME StoryBefore(e, x) PROVE FALSE
      OBVIOUS
    <3>1. EndChapter(vols, e) \in Nat /\ StartChapter(vols, x) > EndChapter(vols, e)
      BY StartsInOrder
    <3>2. StartChapter(vols, x) \in Nat
      BY ArcStarts
    <3> QED
      BY <2>2, <3>1, <3>2
  <2>7. StoryBefore(x, z)
    BY <2>4, <2>5, <2>6, StoryOrder
  <2>8. x # z /\ ~StoryBefore(z, x)
    BY <2>5, <2>7, StoryOrder
  <2>9. Before(new, x) = Before(vols, x)
    BY <1>4 DEF Before, OnlyAt
  <2>10. \A w \in Before(vols, x) : ArcAt(new, w).size = ArcAt(vols, w).size
    BY <1>4, <2>8 DEF Before, OnlyAt
  <2>11. StartChapter(new, x) = StartChapter(vols, x)
    BY <2>9, <2>10, StartStays
  <2> QED
    BY <1>4, <2>8, <2>11 DEF SettledAt, OnlyAt
<1>5. SettledAt(vols, new, x)
  BY <1>1, <1>3, <1>4
<1> QED
  BY <1>2, <1>5 DEF new

-----------------------------------------------------------------------------
(* The end of the outline. *)

LEMMA SkeletonsAreEmpty ==
  ASSUME NEW vols \in Seq(VolumeOutline), NEW x \in Arcs(vols)
  PROVE  IsArcExpanded(ArcAt(vols, x)) <=> 1..ArcAt(vols, x).size # {}
<1>1. ArcAt(vols, x).size \in Nat
  BY CountOfOne
<1>2. \A n \in Nat : n > 0 <=> 1..n # {}
  <2>1. ASSUME NEW n \in Nat, n > 0 PROVE 1 \in 1..n
    BY <2>1
  <2>2. ASSUME NEW n \in Nat, ~(n > 0) PROVE \A i : i \notin 1..n
    BY <2>2
  <2> QED
    BY <2>1, <2>2
<1> QED
  BY <1>1, <1>2 DEF IsArcExpanded

\* What is expanded and kept by a change is counted after it too.
LEMMA GrowthCounts ==
  ASSUME NEW vols \in Seq(VolumeOutline), NEW new \in Seq(VolumeOutline),
         \A x \in Arcs(vols) : IsArcExpanded(ArcAt(vols, x)) =>
           x \in Arcs(new) /\ ArcAt(new, x) = ArcAt(vols, x)
  PROVE  FlattenedLength(vols) \in Nat /\ FlattenedLength(new) >= FlattenedLength(vols)
<1>1. ASSUME NEW x \in Arcs(vols), NEW c \in {x} \X (1..ArcAt(vols, x).size)
      PROVE  x \in Arcs(new) /\ c \in {x} \X (1..ArcAt(new, x).size)
  <2>1. IsArcExpanded(ArcAt(vols, x))
    BY <1>1, SkeletonsAreEmpty
  <2> QED
    BY <1>1, <2>1
<1>2. Detailed(vols, Arcs(vols)) \subseteq Detailed(new, Arcs(new))
  BY <1>1 DEF Detailed
<1>3. IsFiniteSet(Detailed(new, Arcs(new))) /\ ChapterCount(vols, Arcs(vols)) \in Nat
      /\ ChapterCount(new, Arcs(new)) \in Nat
  BY ChaptersAreFinite
<1>4. ChapterCount(vols, Arcs(vols)) <= ChapterCount(new, Arcs(new))
  BY <1>2, <1>3, FS_Subset DEF ChapterCount
<1> QED
  BY <1>3, <1>4 DEF FlattenedLength

\* An outline that opens with chapters has some.
LEMMA OpensWithChapters ==
  ASSUME NEW vols \in Seq(VolumeOutline), vols # <<>>, vols[1].arcs # <<>>,
         IsArcExpanded(vols[1].arcs[1])
  PROVE  FlattenedLength(vols) \in Nat /\ FlattenedLength(vols) >= 1
<1>1. Len(vols) \in Nat \ {0} /\ vols[1] \in VolumeOutline
  BY EmptySeq
<1>2. vols[1].arcs \in Seq(ArcOutline) /\ Len(vols[1].arcs) \in Nat \ {0}
  BY <1>1, EmptySeq DEF VolumeOutline
<1>3. <<1, 1>> \in Arcs(vols)
  BY <1>1, <1>2, ArcsByPlace
<1>4. ArcAt(vols, <<1, 1>>) = vols[1].arcs[1]
  BY DEF ArcAt
<1>5. /\ ArcAt(vols, <<1, 1>>).size \in Nat /\ ArcAt(vols, <<1, 1>>).size > 0
      /\ ChapterCount(vols, {<<1, 1>>}) = ArcAt(vols, <<1, 1>>).size
  BY <1>3, <1>4, CountOfOne DEF IsArcExpanded
<1>6. ChapterCount(vols, {<<1, 1>>}) <= ChapterCount(vols, Arcs(vols))
  BY <1>3, CountOfMore
<1>7. ChapterCount(vols, Arcs(vols)) \in Nat
  BY ChaptersAreFinite
<1> QED
  BY <1>5, <1>6, <1>7 DEF FlattenedLength

\* The last arc with chapters ends the outline.
LEMMA LastExpanded ==
  ASSUME NEW vols \in Seq(VolumeOutline), FlattenedLength(vols) > 0
  PROVE  \E e \in Arcs(vols) :
           /\ IsArcExpanded(ArcAt(vols, e)) /\ EndChapter(vols, e) = FlattenedLength(vols)
           /\ \A x \in Arcs(vols) :
                IsArcExpanded(ArcAt(vols, x)) => x = e \/ StoryBefore(x, e)
<1> DEFINE E == {x \in Arcs(vols) : IsArcExpanded(ArcAt(vols, x))}
           V == {v \in 1..Len(vols) : \E x \in E : x[1] = v}
           v == Max(V)
           A == {a \in 1..Len(vols[v].arcs) : <<v, a>> \in E}
           a == Max(A)
           e == <<v, a>>
<1>1. E # {}
  <2> SUFFICES ASSUME E = {} PROVE FALSE
    OBVIOUS
  <2>1. \A x \in Arcs(vols) : 1..ArcAt(vols, x).size = {}
    BY SkeletonsAreEmpty
  <2>2. Detailed(vols, Arcs(vols)) = {}
    BY <2>1 DEF Detailed
  <2> QED
    BY <2>2, FS_EmptySet DEF FlattenedLength, ChapterCount
<1>2. v \in V /\ \A w \in V : w <= v
  <2>1. V \subseteq Nat /\ Len(vols) \in Nat /\ \A w \in V : w <= Len(vols)
    BY ArcsByPlace
  <2>2. V # {}
    BY <1>1, ArcsByPlace
  <2> HIDE DEF V
  <2> QED
    BY <2>1, <2>2, MaxOfBounded
<1>3. a \in A /\ \A b \in A : b <= a
  <2> HIDE DEF v
  <2>1. v \in 1..Len(vols)
    BY <1>2
  <2>2. A \subseteq Nat /\ Len(vols[v].arcs) \in Nat /\ \A b \in A : b <= Len(vols[v].arcs)
    BY <2>1, ArcsByPlace
  <2>3. A # {}
    <3>1. PICK x \in E : x[1] = v
      BY <1>2
    <3> QED
      BY <3>1, ArcsByPlace
  <2> HIDE DEF A
  <2> QED
    BY <2>2, <2>3, MaxOfBounded
<1> HIDE DEF v, a
<1>4. e \in Arcs(vols) /\ IsArcExpanded(ArcAt(vols, e))
  BY <1>3
<1>5. ASSUME NEW x \in E PROVE x = e \/ StoryBefore(x, e)
  <2>1. /\ x = <<x[1], x[2]>> /\ x[1] \in 1..Len(vols) /\ x[2] \in 1..Len(vols[x[1]].arcs)
        /\ Len(vols) \in Nat /\ v \in 1..Len(vols)
    BY <1>2, ArcsByPlace
  <2>2. x[1] <= v
    BY <1>2, <2>1
  <2>3. x[1] = v => x[2] \in A /\ x[2] <= a
    BY <1>3, <2>1
  <2>4. Len(vols[v].arcs) \in Nat /\ Len(vols[x[1]].arcs) \in Nat /\ a \in Nat
    BY <1>3, <2>1, ArcsByPlace
  <2>5. x[1] \in Nat /\ x[2] \in Nat /\ v \in Nat
    BY <2>1, <2>4
  <2>6. e[1] = v /\ e[2] = a
    OBVIOUS
  <2>7. x[1] < v \/ (x[1] = v /\ x[2] < a) \/ (x[1] = v /\ x[2] = a)
    BY <2>2, <2>3, <2>4, <2>5
  <2> QED
    BY <2>1, <2>6, <2>7 DEF StoryBefore
<1> HIDE DEF e
<1>6. EndChapter(vols, e) = FlattenedLength(vols)
  <2>1. Before(vols, e) \in SUBSET Arcs(vols) /\ {e} \in SUBSET Arcs(vols)
        /\ Before(vols, e) \cap {e} = {}
    BY <1>4, StoryOrder DEF Before
  <2>2. Detailed(vols, Arcs(vols)) = Detailed(vols, Before(vols, e) \cup {e})
    <3>1. \A x \in Arcs(vols) : x \in Before(vols, e) \cup {e} \/ 1..ArcAt(vols, x).size = {}
      BY <1>5, SkeletonsAreEmpty DEF Before
    <3>2. Before(vols, e) \cup {e} \subseteq Arcs(vols)
      BY <2>1
    <3> QED
      BY <3>1, <3>2 DEF Detailed
  <2>3. FlattenedLength(vols) = ChapterCount(vols, Before(vols, e) \cup {e})
    BY <2>2 DEF FlattenedLength, ChapterCount
  <2>4. ChapterCount(vols, Before(vols, e) \cup {e}) =
          ChapterCount(vols, Before(vols, e)) + ChapterCount(vols, {e})
    BY <2>1, CountOfBoth
  <2>5. ArcAt(vols, e).size \in Nat /\ ChapterCount(vols, {e}) = ArcAt(vols, e).size
    BY <1>4, CountOfOne
  <2>6. ChapterCount(vols, Before(vols, e)) \in Nat
    BY <2>1, ChaptersAreFinite
  <2>7. StartChapter(vols, e) = 1 + ChapterCount(vols, Before(vols, e))
    BY ArcStarts
  <2> QED
    BY <2>3, <2>4, <2>5, <2>6, <2>7 DEF EndChapter
<1> QED
  BY <1>4, <1>5, <1>6

\* At the end of the outline the boundary asks for an arc or for a volume.
LEMMA OutlineEnds ==
  ASSUME NEW vols \in Seq(VolumeOutline), Numbered(vols), FlattenedLength(vols) > 0
  PROVE  LET b == CheckArcBoundary(vols, FlattenedLength(vols))
         IN  b.isArcEnd /\ (b.needsNewVolume \/ (b.needsExpansion /\ b.nextArc > 0))
<1> DEFINE last == FlattenedLength(vols)
           b == CheckArcBoundary(vols, last)
<1> SUFFICES b.isArcEnd /\ (b.needsNewVolume \/ (b.needsExpansion /\ b.nextArc > 0))
  OBVIOUS
<1>1. PICK e \in Arcs(vols) :
        /\ IsArcExpanded(ArcAt(vols, e)) /\ EndChapter(vols, e) = last
        /\ \A x \in Arcs(vols) : IsArcExpanded(ArcAt(vols, x)) => x = e \/ StoryBefore(x, e)
  BY LastExpanded
<1>2. \/ /\ ~b.isArcEnd /\ b.nextArc = 0
         /\ \A x \in Arcs(vols) :
              ~(IsArcExpanded(ArcAt(vols, x)) /\ EndChapter(vols, x) = last)
      \/ \E x \in Arcs(vols) :
           /\ b.isArcEnd
           /\ IsArcExpanded(ArcAt(vols, x)) /\ EndChapter(vols, x) = last
           /\ \/ FollowingArc(vols, x) = {} /\ b.nextArc = 0
                 /\ b.needsNewVolume = EndsVolume(vols, x)
              \/ \E y \in FollowingArc(vols, x) :
                   /\ b.nextVolume = vols[y[1]].index /\ b.nextArc = ArcAt(vols, y).index
                   /\ b.needsExpansion = ~IsArcExpanded(ArcAt(vols, y))
  BY BoundaryFollows
<1> HIDE DEF b
<1>3. PICK x \in Arcs(vols) :
        /\ b.isArcEnd
        /\ IsArcExpanded(ArcAt(vols, x)) /\ EndChapter(vols, x) = last
        /\ \/ FollowingArc(vols, x) = {} /\ b.nextArc = 0
              /\ b.needsNewVolume = EndsVolume(vols, x)
           \/ \E y \in FollowingArc(vols, x) :
                /\ b.nextVolume = vols[y[1]].index /\ b.nextArc = ArcAt(vols, y).index
                /\ b.needsExpansion = ~IsArcExpanded(ArcAt(vols, y))
  BY <1>1, <1>2
<1>4. x = e
  <2> SUFFICES ASSUME StoryBefore(x, e) PROVE FALSE
    BY <1>1, <1>3
  <2>1. EndChapter(vols, x) \in Nat /\ StartChapter(vols, e) > EndChapter(vols, x)
    BY StartsInOrder
  <2>2. ArcAt(vols, e).size \in Nat /\ ArcAt(vols, e).size > 0
    BY <1>1, CountOfOne DEF IsArcExpanded
  <2>3. StartChapter(vols, e) \in Nat /\ EndChapter(vols, e) >= StartChapter(vols, e)
    BY <2>2, ArcStarts DEF EndChapter
  <2> QED
    BY <1>1, <1>3, <2>1, <2>3
<1>5. CASE FollowingArc(vols, e) = {} /\ b.needsNewVolume = EndsVolume(vols, e)
  <2>1. EndsVolume(vols, e)
    <3> SUFFICES ASSUME ~EndsVolume(vols, e) PROVE FALSE
      OBVIOUS
    <3> DEFINE y == <<e[1], e[2] + 1>>
    <3>1. /\ e[1] \in 1..Len(vols) /\ e[2] \in 1..Len(vols[e[1]].arcs)
          /\ Len(vols) \in Nat /\ Len(vols[e[1]].arcs) \in Nat
      BY ArcsByPlace
    <3>2. e[2] + 1 \in 1..Len(vols[e[1]].arcs)
      BY <3>1 DEF EndsVolume
    <3>3. y \in Arcs(vols)
      BY <3>1, <3>2, ArcsByPlace
    <3>4. StoryBefore(e, y)
      BY <3>1 DEF StoryBefore
    <3>5. \A z \in Arcs(vols) : z[1] \in Int /\ z[2] \in Int
      BY ArcsByPlace
    <3>6. \A z \in Arcs(vols) : StoryBefore(e, z) => ~StoryBefore(z, y)
      BY <3>1, <3>5 DEF StoryBefore
    <3>7. y \in FollowingArc(vols, e)
      BY <3>3, <3>4, <3>6 DEF FollowingArc
    <3> QED
      BY <1>5, <3>7
  <2> QED
    BY <1>3, <1>5, <2>1
<1>6. CASE \E y \in FollowingArc(vols, e) :
             /\ b.nextArc = ArcAt(vols, y).index
             /\ b.needsExpansion = ~IsArcExpanded(ArcAt(vols, y))
  <2>1. PICK y \in FollowingArc(vols, e) :
          /\ b.nextArc = ArcAt(vols, y).index
          /\ b.needsExpansion = ~IsArcExpanded(ArcAt(vols, y))
    BY <1>6
  <2>2. y \in Arcs(vols) /\ StoryBefore(e, y)
    BY DEF FollowingArc
  <2>3. ~IsArcExpanded(ArcAt(vols, y))
    BY <1>1, <2>2, StoryOrder
  <2>4. ArcAt(vols, y).index > 0
    BY <2>2, ArcsByPlace DEF Numbered, ArcAt
  <2> QED
    BY <1>3, <2>1, <2>3, <2>4
<1> QED
  BY <1>3, <1>4, <1>5, <1>6

-----------------------------------------------------------------------------
(* An outline that has chapters to begin with keeps them. *)

OpensExpanded(vols) ==
  vols # <<>> /\ vols[1].arcs # <<>> /\ IsArcExpanded(vols[1].arcs[1])

LEMMA Opening ==
  ASSUME NEW vols \in Seq(VolumeOutline)
  PROVE  OpensExpanded(vols) <=>
           /\ Len(vols) # 0 /\ Len(vols[1].arcs) # 0
           /\ IsArcExpanded(vols[1].arcs[1])
<1>1. vols # <<>> <=> Len(vols) # 0
  BY EmptySeq
<1>2. Len(vols) # 0 => vols[1] \in VolumeOutline
  OBVIOUS
<1>3. Len(vols) # 0 => vols[1].arcs \in Seq(ArcOutline)
  BY <1>2 DEF VolumeOutline
<1>4. Len(vols) # 0 => (vols[1].arcs # <<>> <=> Len(vols[1].arcs) # 0)
  BY <1>3, EmptySeq
<1> QED
  BY <1>1, <1>4 DEF OpensExpanded

LEMMA RepairOpens ==
  ASSUME NEW vols \in Seq(VolumeOutline), OpensExpanded(vols)
  PROVE  OpensExpanded(RepairMissingLayeredIndexes(vols))
<1> DEFINE repaired == RepairMissingLayeredIndexes(vols)
<1>1. /\ Len(vols) # 0 /\ Len(vols[1].arcs) # 0 /\ IsArcExpanded(vols[1].arcs[1])
      /\ Len(vols) \in Nat /\ Len(vols[1].arcs) \in Nat
  BY Opening, ArcsByPlace
<1>2. 1 \in 1..Len(vols) /\ 1 \in 1..Len(vols[1].arcs)
  BY <1>1
<1>3. /\ repaired \in Seq(VolumeOutline) /\ Len(repaired) = Len(vols)
      /\ Len(repaired[1].arcs) = Len(vols[1].arcs)
      /\ repaired[1].arcs[1].size = vols[1].arcs[1].size
  BY <1>2, RepairNumbers
<1> HIDE DEF repaired
<1>4. IsArcExpanded(repaired[1].arcs[1])
  BY <1>1, <1>3 DEF IsArcExpanded
<1>5. OpensExpanded(repaired)
  BY <1>1, <1>3, <1>4, Opening
<1> QED
  BY <1>5 DEF repaired

LEMMA ExpansionOpens ==
  ASSUME NEW vols \in Seq(VolumeOutline), Numbered(vols), OpensExpanded(vols), NEW last,
         NEW size \in Nat, NEW plan \in STRING
  PROVE  OpensExpanded(ExpandArcAt(vols, last, size, plan).vols)
<1> DEFINE b   == CheckArcBoundary(vols, last)
           new == ExpandArcAt(vols, last, size, plan).vols
<1>1. /\ new \in Seq(VolumeOutline)
      /\ \/ new = vols
         \/ \E z \in FindArc(vols, b.nextVolume, b.nextArc) :
              ~IsArcExpanded(ArcAt(vols, z)) /\ OnlyAt(vols, new, z)
  BY ExpandReplaces
<1> HIDE DEF new, b
<1>2. /\ Len(vols) # 0 /\ Len(vols[1].arcs) # 0 /\ IsArcExpanded(vols[1].arcs[1])
      /\ Len(vols) \in Nat /\ Len(vols[1].arcs) \in Nat
  BY Opening, ArcsByPlace
<1>3. <<1, 1>> \in Arcs(vols) /\ 1 \in 1..Len(vols)
  BY <1>2, ArcsByPlace
<1>4. ASSUME NEW z, ~IsArcExpanded(ArcAt(vols, z)), OnlyAt(vols, new, z)
      PROVE  OpensExpanded(new)
  <2>1. ArcAt(vols, <<1, 1>>) = vols[1].arcs[1] /\ ArcAt(new, <<1, 1>>) = new[1].arcs[1]
    BY DEF ArcAt
  <2>2. z # <<1, 1>>
    BY <1>2, <1>4, <2>1
  <2>3. new[1].arcs[1] = vols[1].arcs[1]
    BY <1>3, <1>4, <2>1, <2>2 DEF OnlyAt
  <2>4. Len(new) = Len(vols) /\ Len(new[1].arcs) = Len(vols[1].arcs)
    BY <1>3, <1>4 DEF OnlyAt
  <2> QED
    BY <1>1, <1>2, <2>3, <2>4, Opening
<1>5. OpensExpanded(new)
  BY <1>1, <1>4
<1> QED
  BY <1>5 DEF new

LEMMA AppendOpens ==
  ASSUME NEW vols \in Seq(VolumeOutline), Numbered(vols), NEW incoming \in VolumeOutline,
         vols # <<>> => OpensExpanded(vols), AppendVolumePlan(vols, incoming).ok
  PROVE  OpensExpanded(AppendVolumePlan(vols, incoming).vols)
<1> DEFINE index == IF vols = <<>> THEN 1 ELSE Last(vols).index + 1
           numbered == NumberVolume(incoming, index)
           longer == Append(vols, numbered)
           appended == AppendVolumePlan(vols, incoming)
<1>1. RepairMissingLayeredIndexes(vols) = vols
  BY RepairOfNumbered
<1>2. \/ vols # <<>> /\ appended.vols = vols
      \/ incoming.arcs # <<>> /\ IsArcExpanded(incoming.arcs[1]) /\ appended.vols = longer
  BY <1>1, Zenon DEF AppendVolumePlan, Refused
<1>3. index \in Int
  <2>1. vols # <<>> => Last(vols) \in VolumeOutline
    BY DEF Last
  <2> QED
    BY <2>1 DEF VolumeOutline
<1> HIDE DEF index, appended
<1>4. /\ numbered \in VolumeOutline /\ Len(numbered.arcs) = Len(incoming.arcs)
      /\ \A a \in 1..Len(incoming.arcs) : numbered.arcs[a].size = incoming.arcs[a].size
  BY <1>3, NumberedVolume
<1> HIDE DEF numbered
<1>5. /\ longer \in Seq(VolumeOutline) /\ Len(longer) = Len(vols) + 1 /\ Len(vols) \in Nat
      /\ \A v \in 1..Len(vols) : longer[v] = vols[v]
      /\ longer[Len(vols) + 1] = numbered
  BY <1>4, AppendProperties
<1> HIDE DEF longer
<1>6. CASE vols # <<>>
  <2>1. /\ Len(vols) # 0 /\ Len(vols[1].arcs) # 0 /\ IsArcExpanded(vols[1].arcs[1])
    BY <1>6, Opening
  <2>2. OpensExpanded(longer)
    BY <1>5, <2>1, Opening
  <2> QED
    BY <1>2, <1>6, <2>2 DEF appended
<1>7. CASE vols = <<>>
  <2>1. incoming.arcs # <<>> /\ IsArcExpanded(incoming.arcs[1]) /\ appended.vols = longer
    BY <1>2, <1>7
  <2>2. incoming.arcs \in Seq(ArcOutline)
    BY DEF VolumeOutline
  <2>3. Len(incoming.arcs) \in Nat /\ Len(incoming.arcs) # 0
    BY <2>1, <2>2, EmptySeq
  <2>4. numbered.arcs[1].size = incoming.arcs[1].size
    BY <1>4, <2>3
  <2>5. Len(vols) = 0 /\ longer[1] = numbered /\ Len(longer) = 1
    BY <1>5, <1>7
  <2>6. IsArcExpanded(longer[1].arcs[1])
    BY <2>1, <2>4, <2>5 DEF IsArcExpanded
  <2>7. Len(longer) # 0 /\ Len(longer[1].arcs) # 0
    BY <1>4, <2>3, <2>5
  <2>8. longer \in Seq(VolumeOutline)
    BY <1>5
  <2>9. OpensExpanded(longer)
    BY <2>6, <2>7, <2>8, Opening
  <2> QED
    BY <2>1, <2>9 DEF appended
<1> QED
  BY <1>6, <1>7

-----------------------------------------------------------------------------
(* A volume supplied again. *)

\* Volumes that differ in their indexes alone.
SameButIndexes(left, right) ==
  /\ left.title = right.title /\ left.plan = right.plan /\ left.final = right.final
  /\ Len(left.arcs) = Len(right.arcs)
  /\ \A a \in 1..Len(left.arcs) :
       /\ left.arcs[a].size = right.arcs[a].size /\ left.arcs[a].est = right.arcs[a].est
       /\ left.arcs[a].plan = right.arcs[a].plan

\* sameVolumePlan compares all but the indexes.
LEMMA SamePlan ==
  ASSUME NEW left \in VolumeOutline, NEW right \in VolumeOutline
  PROVE  SameVolumePlan(left, right) <=> SameButIndexes(left, right)
<1> DEFINE Arcs1(volume) == [a \in DOMAIN volume.arcs |-> NumberArc(volume.arcs[a], a)]
<1>1. ASSUME NEW volume \in VolumeOutline
      PROVE  LET n == NumberVolume(volume, 1)
             IN  /\ n \in VolumeOutline
                 /\ n.index = 1 /\ n.title = volume.title /\ n.plan = volume.plan
                 /\ n.final = volume.final /\ n.arcs = Arcs1(volume)
                 /\ volume.arcs \in Seq(ArcOutline) /\ DOMAIN volume.arcs = 1..Len(volume.arcs)
                 /\ Len(volume.arcs) \in Nat
  <2> DEFINE n == NumberVolume(volume, 1)
  <2>1. /\ volume.arcs \in Seq(ArcOutline) /\ DOMAIN volume.arcs = 1..Len(volume.arcs)
        /\ Len(volume.arcs) \in Nat
    BY DEF VolumeOutline
  <2>2. n = [volume EXCEPT !.index = 1, !.arcs = Arcs1(volume)]
    BY DEF NumberVolume
  <2>3. n \in VolumeOutline
    BY NumberedVolume
  <2> HIDE DEF Arcs1, n
  <2>4. /\ n.index = 1 /\ n.title = volume.title /\ n.plan = volume.plan
        /\ n.final = volume.final /\ n.arcs = Arcs1(volume)
    BY <2>2 DEF VolumeOutline
  <2> QED
    BY <2>1, <2>3, <2>4 DEF n
<1>2. ASSUME NEW volume \in VolumeOutline
      PROVE  /\ DOMAIN Arcs1(volume) = 1..Len(volume.arcs)
             /\ \A a \in 1..Len(volume.arcs) : Arcs1(volume)[a] = NumberArc(volume.arcs[a], a)
  BY <1>1
<1> HIDE DEF Arcs1
<1>3. SameVolumePlan(left, right) <=>
        /\ left.title = right.title /\ left.plan = right.plan /\ left.final = right.final
        /\ Arcs1(left) = Arcs1(right)
  <2>1. ASSUME NEW one \in VolumeOutline, NEW other \in VolumeOutline
        PROVE  one = other <=> /\ one.index = other.index /\ one.title = other.title
                               /\ one.plan = other.plan /\ one.final = other.final
                               /\ one.arcs = other.arcs
    BY DEF VolumeOutline
  <2>2. SameVolumePlan(left, right) <=> NumberVolume(left, 1) = NumberVolume(right, 1)
    BY DEF SameVolumePlan
  <2> QED
    BY <1>1, <2>1, <2>2
<1>4. ASSUME NEW one \in ArcOutline, NEW other \in ArcOutline, NEW a
      PROVE  NumberArc(one, a) = NumberArc(other, a) <=>
               one.size = other.size /\ one.est = other.est /\ one.plan = other.plan
  BY DEF NumberArc, ArcOutline
<1>5. Arcs1(left) = Arcs1(right) <=>
        /\ Len(left.arcs) = Len(right.arcs)
        /\ \A a \in 1..Len(left.arcs) :
             NumberArc(left.arcs[a], a) = NumberArc(right.arcs[a], a)
  <2>1. Arcs1(left) = Arcs1(right) => Len(left.arcs) = Len(right.arcs)
    BY <1>1, <1>2
  <2>2. /\ Arcs1(left) = [a \in 1..Len(left.arcs) |-> Arcs1(left)[a]]
        /\ Arcs1(right) = [a \in 1..Len(right.arcs) |-> Arcs1(right)[a]]
    BY <1>1 DEF Arcs1
  <2> QED
    BY <1>2, <2>1, <2>2
<1>6. \A a \in 1..Len(left.arcs) : Len(left.arcs) = Len(right.arcs) =>
        left.arcs[a] \in ArcOutline /\ right.arcs[a] \in ArcOutline
  BY <1>1
<1> QED
  BY <1>3, <1>4, <1>5, <1>6 DEF SameButIndexes

\* Numbering a volume changes no plan.
LEMMA NumberedSamePlan ==
  ASSUME NEW volume \in VolumeOutline, NEW index \in Int
  PROVE  /\ SameVolumePlan(NumberVolume(volume, index), volume)
         /\ NumberVolume(volume, index).plan = volume.plan
         /\ NumberVolume(volume, index).title = volume.title
         /\ NumberVolume(volume, index).index = index
         /\ \A a \in 1..Len(volume.arcs) : NumberVolume(volume, index).arcs[a].index = a
<1> DEFINE arcs == [a \in DOMAIN volume.arcs |-> NumberArc(volume.arcs[a], a)]
           numbered == NumberVolume(volume, index)
<1>1. /\ volume.arcs \in Seq(ArcOutline) /\ DOMAIN volume.arcs = 1..Len(volume.arcs)
      /\ \A a \in 1..Len(volume.arcs) : volume.arcs[a] \in ArcOutline
  BY DEF VolumeOutline
<1>2. numbered \in VolumeOutline /\ Len(numbered.arcs) = Len(volume.arcs)
  BY NumberedVolume
<1>3. numbered = [volume EXCEPT !.index = index, !.arcs = arcs]
  BY DEF NumberVolume
<1>4. \A a \in 1..Len(volume.arcs) : arcs[a] = NumberArc(volume.arcs[a], a)
  BY <1>1
<1> HIDE DEF numbered, arcs
<1>5. /\ numbered.index = index /\ numbered.plan = volume.plan
      /\ numbered.title = volume.title /\ numbered.final = volume.final /\ numbered.arcs = arcs
  BY <1>3 DEF VolumeOutline
<1>6. ASSUME NEW arc \in ArcOutline, NEW a
      PROVE  LET n == NumberArc(arc, a)
             IN  n.index = a /\ n.size = arc.size /\ n.est = arc.est /\ n.plan = arc.plan
  BY DEF NumberArc, ArcOutline
<1>7. SameButIndexes(numbered, volume)
  BY <1>1, <1>2, <1>4, <1>5, <1>6 DEF SameButIndexes
<1> QED
  BY <1>1, <1>2, <1>4, <1>5, <1>6, <1>7, SamePlan DEF numbered

LEMMA RepairedSamePlan ==
  ASSUME NEW vols \in Seq(VolumeOutline), NEW v \in 1..Len(vols)
  PROVE  LET repaired == RepairMissingLayeredIndexes(vols)
         IN  /\ SameVolumePlan(repaired[v], vols[v])
             /\ repaired[v].plan = vols[v].plan /\ repaired[v].title = vols[v].title
<1> DEFINE volume == vols[v]
           arcs == [a \in DOMAIN volume.arcs |-> RepairedArc(volume.arcs[a], a)]
           i == RepairedIndex(volume.index, v)
           repaired == RepairMissingLayeredIndexes(vols)[v]
<1>1. volume \in VolumeOutline
  OBVIOUS
<1>2. repaired \in VolumeOutline /\ Len(repaired.arcs) = Len(volume.arcs)
  <2> DEFINE all == RepairMissingLayeredIndexes(vols)
  <2>1. all \in Seq(VolumeOutline) /\ Len(all) = Len(vols) /\ Len(all[v].arcs) = Len(vols[v].arcs)
    BY RepairNumbers
  <2> HIDE DEF all
  <2>2. all[v] \in VolumeOutline
    BY <2>1
  <2> QED
    BY <2>1, <2>2 DEF all
<1>3. repaired = [volume EXCEPT !.index = i, !.arcs = arcs]
  <2>1. v \in DOMAIN vols
    OBVIOUS
  <2>2. repaired = RepairedVolume(vols[v], v)
    BY <2>1 DEF RepairMissingLayeredIndexes
  <2> HIDE DEF repaired
  <2> QED
    BY <2>2 DEF RepairedVolume
<1> HIDE DEF repaired, i, volume
<1>4. /\ volume.arcs \in Seq(ArcOutline) /\ DOMAIN volume.arcs = 1..Len(volume.arcs)
      /\ \A a \in 1..Len(volume.arcs) : volume.arcs[a] \in ArcOutline
  BY <1>1 DEF VolumeOutline
<1>5. \A a \in 1..Len(volume.arcs) : arcs[a] = RepairedArc(volume.arcs[a], a)
  BY <1>4
<1> HIDE DEF arcs
<1>6. /\ repaired.title = volume.title /\ repaired.plan = volume.plan
      /\ repaired.final = volume.final /\ repaired.arcs = arcs
  BY <1>1, <1>3 DEF VolumeOutline
<1>7. ASSUME NEW arc \in ArcOutline, NEW a
      PROVE  LET n == RepairedArc(arc, a)
             IN  n.size = arc.size /\ n.est = arc.est /\ n.plan = arc.plan
  BY DEF RepairedArc, ArcOutline
<1>8. SameButIndexes(repaired, volume)
  BY <1>2, <1>4, <1>5, <1>6, <1>7 DEF SameButIndexes
<1> QED
  BY <1>1, <1>2, <1>6, <1>8, SamePlan DEF repaired, volume

\* appendVolumePlan adds one volume, unless it is the last one already.
LEMMA AppendAdds ==
  ASSUME NEW vols \in Seq(VolumeOutline), Numbered(vols), NEW incoming \in VolumeOutline,
         AppendVolumePlan(vols, incoming).ok
  PROVE  LET new == AppendVolumePlan(vols, incoming).vols
         IN  /\ new \in Seq(VolumeOutline) /\ Numbered(new)
             /\ \/ new = vols
                \/ /\ Len(new) = Len(vols) + 1
                   /\ \A v \in 1..Len(vols) : new[v] = vols[v]
                   /\ SameVolumePlan(new[Len(new)], incoming)
                   /\ new[Len(new)].plan = incoming.plan
                   /\ new[Len(new)].title = incoming.title
                   /\ new[Len(new)].arcs # <<>>
                   /\ vols # <<>> => new[Len(new)].index = vols[Len(vols)].index + 1
                   /\ vols # <<>> => ~SameVolumePlan(vols[Len(vols)], incoming)
<1> DEFINE index == IF vols = <<>> THEN 1 ELSE Last(vols).index + 1
           numbered == NumberVolume(incoming, index)
           longer == Append(vols, numbered)
           new == AppendVolumePlan(vols, incoming).vols
<1>1. RepairMissingLayeredIndexes(vols) = vols
  BY RepairOfNumbered
<1>2. \/ new = vols
      \/ new = longer /\ (vols # <<>> => ~SameVolumePlan(Last(vols), numbered))
  BY <1>1, Zenon DEF AppendVolumePlan, Refused
<1> HIDE DEF new
<1>3. index \in Int /\ index > 0 /\ (vols # <<>> => Last(vols) = vols[Len(vols)])
  <2>1. vols # <<>> => /\ Last(vols) = vols[Len(vols)] /\ Len(vols) \in DOMAIN vols
                       /\ vols[Len(vols)] \in VolumeOutline
    BY EmptySeq DEF Last
  <2>2. vols # <<>> => Last(vols).index > 0 /\ Last(vols).index \in Int
    BY <2>1 DEF Numbered, VolumeOutline
  <2> QED
    BY <2>1, <2>2
<1>11. numbered.arcs # <<>> /\ (vols # <<>> => index = vols[Len(vols)].index + 1)
  <2>1. incoming.arcs # <<>> /\ incoming.arcs \in Seq(ArcOutline)
    BY Zenon DEF AppendVolumePlan, Refused, VolumeOutline
  <2>2. Len(numbered.arcs) = Len(incoming.arcs) /\ numbered.arcs \in Seq(ArcOutline)
    BY <1>3, NumberedVolume DEF VolumeOutline
  <2>3. vols # <<>> => index = Last(vols).index + 1
    OBVIOUS
  <2> HIDE DEF numbered, index
  <2>4. numbered.arcs # <<>>
    BY <2>1, <2>2, EmptySeq
  <2> QED
    BY <1>3, <2>3, <2>4
<1> HIDE DEF index
<1>4. /\ numbered \in VolumeOutline /\ Len(numbered.arcs) = Len(incoming.arcs)
      /\ SameVolumePlan(numbered, incoming) /\ numbered.plan = incoming.plan
      /\ numbered.title = incoming.title
      /\ numbered.index = index /\ \A a \in 1..Len(incoming.arcs) : numbered.arcs[a].index = a
  BY <1>3, NumberedVolume, NumberedSamePlan
<1> HIDE DEF numbered
<1>5. /\ longer \in Seq(VolumeOutline) /\ Len(longer) = Len(vols) + 1 /\ Len(vols) \in Nat
      /\ \A v \in 1..Len(vols) : longer[v] = vols[v]
      /\ longer[Len(vols) + 1] = numbered
  BY <1>4, AppendProperties
<1> HIDE DEF longer
<1>6. Numbered(longer)
  <2>1. DOMAIN longer = 1..Len(vols) + 1 /\ DOMAIN vols = 1..Len(vols)
    BY <1>5
  <2>2. ASSUME NEW v \in 1..Len(vols)
        PROVE  longer[v].index > 0 /\ \A a \in DOMAIN longer[v].arcs : longer[v].arcs[a].index > 0
    BY <1>5, <2>1 DEF Numbered
  <2>3. DOMAIN numbered.arcs = 1..Len(incoming.arcs)
    BY <1>4 DEF VolumeOutline
  <2>4. \A a \in DOMAIN numbered.arcs : numbered.arcs[a].index > 0
    BY <1>4, <2>3
  <2>5. \A v \in DOMAIN longer : v \in 1..Len(vols) \/ v = Len(vols) + 1
    BY <1>5, <2>1
  <2> QED
    BY <1>3, <1>4, <1>5, <2>2, <2>4, <2>5 DEF Numbered
<1>7. vols # <<>> => (SameVolumePlan(vols[Len(vols)], numbered) <=> SameVolumePlan(vols[Len(vols)], incoming))
  BY <1>4 DEF SameVolumePlan
<1>8. \/ new = vols
      \/ new = longer /\ (vols # <<>> => ~SameVolumePlan(vols[Len(vols)], incoming))
  BY <1>2, <1>3, <1>7
<1>9. \/ new = vols
      \/ /\ Len(new) = Len(vols) + 1
         /\ \A v \in 1..Len(vols) : new[v] = vols[v]
         /\ SameVolumePlan(new[Len(new)], incoming)
         /\ new[Len(new)].plan = incoming.plan
         /\ new[Len(new)].title = incoming.title
         /\ new[Len(new)].arcs # <<>>
         /\ vols # <<>> => new[Len(new)].index = vols[Len(vols)].index + 1
         /\ vols # <<>> => ~SameVolumePlan(vols[Len(vols)], incoming)
  BY <1>3, <1>4, <1>5, <1>8, <1>11
<1>10. new \in Seq(VolumeOutline) /\ Numbered(new)
  BY <1>5, <1>6, <1>8
<1> QED
  BY <1>9, <1>10 DEF new

\* Volumes alike but for their indexes and titles.
Untitled(volume) == [volume EXCEPT !.title = NoTitle]

SameText(left, right) == SameVolumePlan(Untitled(left), Untitled(right))

LEMMA SameTextAndTitle ==
  ASSUME NEW left \in VolumeOutline, NEW right \in VolumeOutline
  PROVE  /\ SameVolumePlan(left, right) <=> left.title = right.title /\ SameText(left, right)
         /\ SameText(left, right) => SameButIndexes(Untitled(left), Untitled(right))
<1>1. ASSUME NEW volume \in VolumeOutline
      PROVE  /\ Untitled(volume) \in VolumeOutline /\ Untitled(volume).title = NoTitle
             /\ Untitled(volume).plan = volume.plan /\ Untitled(volume).final = volume.final
             /\ Untitled(volume).arcs = volume.arcs
  BY DEF Untitled, NoTitle, VolumeOutline
<1>2. SameText(left, right) <=> SameButIndexes(Untitled(left), Untitled(right))
  BY <1>1, SamePlan DEF SameText
<1> QED
  BY <1>1, <1>2, SamePlan DEF SameButIndexes

\* A volume, once parsed, that is added twice.
LEMMA AddedTwice ==
  ASSUME NEW given \in Seq(VolumeOutline), NEW incoming \in VolumeOutline,
         AppendVolumePlan(given, incoming).ok
  PROVE  LET saved == RepairMissingLayeredIndexes(AppendVolumePlan(given, incoming).vols)
         IN  /\ saved = AppendVolumePlan(given, incoming).vols /\ saved \in Seq(VolumeOutline)
             /\ Numbered(saved)
             /\ \/ Len(saved) = Len(given)
                \/ Len(saved) = Len(given) + 1 /\ saved[Len(saved)].title = incoming.title
             /\ AppendVolumePlan(saved, incoming) = [ok |-> TRUE, vols |-> saved]
<1> DEFINE vols == RepairMissingLayeredIndexes(given)
           once == AppendVolumePlan(given, incoming)
           saved == RepairMissingLayeredIndexes(once.vols)
<1>1. vols \in Seq(VolumeOutline) /\ Numbered(vols) /\ Len(vols) = Len(given)
  BY RepairNumbers
<1>2. RepairMissingLayeredIndexes(vols) = vols
  BY <1>1, RepairOfNumbered
<1>3. once = AppendVolumePlan(vols, incoming)
  BY <1>2, Zenon DEF AppendVolumePlan
<1> HIDE DEF vols
<1>4. /\ once.vols \in Seq(VolumeOutline) /\ Numbered(once.vols)
      /\ \/ once.vols = vols
         \/ /\ Len(once.vols) = Len(vols) + 1
            /\ SameVolumePlan(once.vols[Len(once.vols)], incoming)
            /\ once.vols[Len(once.vols)].title = incoming.title
  BY <1>1, <1>3, AppendAdds
<1>5. saved = once.vols
  BY <1>4, RepairOfNumbered
<1>9. /\ saved \in Seq(VolumeOutline) /\ Numbered(saved)
      /\ \/ Len(saved) = Len(given)
         \/ Len(saved) = Len(given) + 1 /\ saved[Len(saved)].title = incoming.title
  BY <1>1, <1>4, <1>5
<1>6. incoming.arcs # <<>> /\ IsArcExpanded(incoming.arcs[1])
  <2>1. once.ok
    OBVIOUS
  <2>2. CASE incoming.arcs = <<>> \/ ~IsArcExpanded(incoming.arcs[1])
    <3>1. once = Refused(RepairMissingLayeredIndexes(given))
      BY <2>2, Zenon DEF AppendVolumePlan
    <3> QED
      BY <2>1, <3>1 DEF Refused
  <2> QED
    BY <2>2
<1>7. CASE once.vols = vols
  <2>1. once = [ok |-> TRUE, vols |-> once.vols]
    <3>1. once = [ok |-> TRUE,
                  vols |-> IF vols # <<>> /\ SameVolumePlan(Last(vols), NumberVolume(incoming,
                                IF vols = <<>> THEN 1 ELSE Last(vols).index + 1))
                           THEN vols
                           ELSE Append(vols, NumberVolume(incoming,
                                IF vols = <<>> THEN 1 ELSE Last(vols).index + 1))]
      BY <1>2, <1>3, <1>6, Zenon DEF AppendVolumePlan
    <3> HIDE DEF once
    <3> QED
      BY <3>1
  <2>2. saved = vols
    BY <1>5, <1>7
  <2>3. AppendVolumePlan(saved, incoming) = [ok |-> TRUE, vols |-> saved]
    BY <1>3, <1>5, <2>1, <2>2
  <2> QED
    BY <1>5, <1>9, <2>3
<1>8. CASE /\ Len(once.vols) = Len(vols) + 1
           /\ SameVolumePlan(once.vols[Len(once.vols)], incoming)
  <2> HIDE DEF once
  <2>1. /\ saved # <<>> /\ Last(saved) = saved[Len(saved)] /\ Last(saved) \in VolumeOutline
        /\ SameVolumePlan(Last(saved), incoming)
    <3>1. Len(vols) \in Nat
      BY <1>1
    <3>2. /\ once.vols # <<>> /\ Last(once.vols) = once.vols[Len(once.vols)]
          /\ Last(once.vols) \in VolumeOutline
      BY <1>4, <1>8, <3>1, EmptySeq DEF Last
    <3> QED
      BY <1>5, <1>8, <3>2
  <2> DEFINE numbered == NumberVolume(incoming, Last(saved).index + 1)
  <2>2. SameVolumePlan(Last(saved), numbered)
    <3>1. Last(saved).index + 1 \in Int
      BY <2>1 DEF VolumeOutline
    <3>2. SameVolumePlan(numbered, incoming)
      BY <3>1, NumberedSamePlan
    <3> QED
      BY <2>1, <3>2 DEF SameVolumePlan
  <2>3. RepairMissingLayeredIndexes(saved) = saved
    BY <1>4, <1>5, RepairOfNumbered
  <2> HIDE DEF saved
  <2>4. AppendVolumePlan(saved, incoming) = [ok |-> TRUE, vols |-> saved]
    BY <1>6, <2>1, <2>2, <2>3, Zenon DEF AppendVolumePlan
  <2> QED
    BY <1>5, <1>9, <2>4 DEF saved, once
<1> QED
  BY <1>4, <1>7, <1>8

\* Parsing gives an untitled volume its title and changes nothing else.
LEMMA ParsedVolume ==
  ASSUME NEW raw \in VolumeOutline, NEW n \in Nat
  PROVE  LET volume == ParseVolumeOutline(raw, n)
         IN  /\ volume \in VolumeOutline
             /\ volume.title = (IF raw.title = NoTitle THEN n ELSE raw.title)
             /\ volume.index = raw.index /\ volume.plan = raw.plan
             /\ volume.final = raw.final /\ volume.arcs = raw.arcs
             /\ raw.title # NoTitle => volume = raw
<1> DEFINE title == IF raw.title = NoTitle THEN n ELSE raw.title
<1>1. ParseVolumeOutline(raw, n) = [raw EXCEPT !.title = title]
  BY DEF ParseVolumeOutline, VolumeOutline
<1>2. title \in Int /\ (raw.title # NoTitle => title = raw.title)
  BY DEF VolumeOutline
<1>3. title = (IF raw.title = NoTitle THEN n ELSE raw.title)
  OBVIOUS
<1> HIDE DEF title
<1> QED
  BY <1>1, <1>2, <1>3 DEF VolumeOutline

\* append_volume called again with the same volume, because its answer was lost or
\* the process died between its writes and the answer, parses it against the outline
\* that is saved by then.  A volume with a title is found to be the last one and
\* nothing changes: sameVolumePlan compares without the numbers the first call gave.
THEOREM AppendingTwiceIsOnce ==
  ASSUME NEW given \in Seq(VolumeOutline), NEW raw \in VolumeOutline, raw.title # NoTitle,
         AppendVolumePlan(given, ParseVolumeOutline(raw, Len(given) + 1)).ok
  PROVE  LET first == ParseVolumeOutline(raw, Len(given) + 1)
             saved == RepairMissingLayeredIndexes(AppendVolumePlan(given, first).vols)
             again == ParseVolumeOutline(raw, Len(saved) + 1)
         IN  /\ saved = AppendVolumePlan(given, first).vols
             /\ AppendVolumePlan(saved, again) = [ok |-> TRUE, vols |-> saved]
<1> DEFINE first == ParseVolumeOutline(raw, Len(given) + 1)
           appended == AppendVolumePlan(given, first)
           saved == RepairMissingLayeredIndexes(appended.vols)
           again == ParseVolumeOutline(raw, Len(saved) + 1)
<1>1. first = raw
  BY ParsedVolume
<1>2. /\ saved = appended.vols /\ saved \in Seq(VolumeOutline)
      /\ AppendVolumePlan(saved, raw) = [ok |-> TRUE, vols |-> saved]
  BY <1>1, AddedTwice
<1> HIDE DEF saved, appended, first
<1>3. Len(saved) + 1 \in Nat
  BY <1>2
<1>4. again = raw
  BY <1>3, ParsedVolume
<1> HIDE DEF again
<1> QED
  BY <1>2, <1>4 DEF first, appended, saved, again

\* A volume without a title is another one to the second call, which names it by the
\* volumes there are by then, and where the first call has added it the second adds it
\* again.
THEOREM UntitledIsAppendedAgain ==
  ASSUME NEW given \in Seq(VolumeOutline), NEW raw \in VolumeOutline, raw.title = NoTitle,
         LET added == AppendVolumePlan(given, ParseVolumeOutline(raw, Len(given) + 1))
         IN  added.ok /\ Len(added.vols) > Len(given)
  PROVE  LET first == ParseVolumeOutline(raw, Len(given) + 1)
             saved == RepairMissingLayeredIndexes(AppendVolumePlan(given, first).vols)
             again == AppendVolumePlan(saved, ParseVolumeOutline(raw, Len(saved) + 1))
         IN  again.ok /\ Len(again.vols) = Len(saved) + 1
<1>0. \A n \in Nat : LET volume == ParseVolumeOutline(raw, n)
                     IN  /\ volume \in VolumeOutline /\ volume.title = n
                         /\ volume.arcs = raw.arcs
  BY ParsedVolume
<1> DEFINE first == ParseVolumeOutline(raw, Len(given) + 1)
           added == AppendVolumePlan(given, first)
           saved == RepairMissingLayeredIndexes(added.vols)
           second == ParseVolumeOutline(raw, Len(saved) + 1)
           again == AppendVolumePlan(saved, second)
<1>1. Len(given) \in Nat /\ added.ok /\ Len(added.vols) > Len(given)
  OBVIOUS
<1>2. /\ first \in VolumeOutline /\ first.title = Len(given) + 1 /\ first.arcs = raw.arcs
  <2>1. Len(given) + 1 \in Nat
    BY <1>1
  <2> HIDE DEF added
  <2> QED
    BY <1>0, <2>1, Zenon
<1>3. first.arcs # <<>> /\ IsArcExpanded(first.arcs[1])
  <2> SUFFICES ASSUME first.arcs = <<>> \/ ~IsArcExpanded(first.arcs[1]) PROVE FALSE
    OBVIOUS
  <2>1. added = Refused(RepairMissingLayeredIndexes(given))
    BY Zenon DEF AppendVolumePlan
  <2> QED
    BY <1>1, <2>1 DEF Refused
<1> HIDE DEF first
<1>4. /\ saved = added.vols /\ saved \in Seq(VolumeOutline) /\ Numbered(saved)
      /\ \/ Len(saved) = Len(given)
         \/ Len(saved) = Len(given) + 1 /\ saved[Len(saved)].title = first.title
  BY <1>1, <1>2, AddedTwice
<1> HIDE DEF added
<1>5. Len(saved) = Len(given) + 1 /\ saved[Len(saved)].title = Len(given) + 1
  BY <1>1, <1>2, <1>4
<1> HIDE DEF saved
<1>6. saved # <<>> /\ Last(saved) = saved[Len(saved)] /\ Last(saved) \in VolumeOutline
  BY <1>1, <1>4, <1>5, EmptySeq DEF Last
<1>7. /\ second \in VolumeOutline /\ second.title = Len(given) + 2 /\ second.arcs = first.arcs
  <2>1. Len(saved) + 1 \in Nat /\ Len(saved) + 1 = Len(given) + 2
    BY <1>1, <1>5
  <2> QED
    BY <1>2, <1>0, <2>1, Zenon
<1> HIDE DEF second
<1> DEFINE numbered == NumberVolume(second, Last(saved).index + 1)
<1>8. numbered \in VolumeOutline /\ numbered.title = Len(given) + 2
  <2>1. Last(saved).index + 1 \in Int
    BY <1>6 DEF VolumeOutline
  <2> QED
    BY <1>7, <2>1, NumberedVolume, NumberedSamePlan
<1> HIDE DEF numbered
<1>9. ~SameVolumePlan(Last(saved), numbered)
  BY <1>1, <1>5, <1>6, <1>8, SamePlan DEF SameButIndexes
<1>10. again = [ok |-> TRUE, vols |-> Append(saved, numbered)]
  <2>1. RepairMissingLayeredIndexes(saved) = saved
    BY <1>4, RepairOfNumbered
  <2> QED
    BY <1>3, <1>6, <1>7, <1>9, <2>1, Zenon DEF AppendVolumePlan, numbered
<1>11. again.ok /\ Len(again.vols) = Len(saved) + 1
  <2> HIDE DEF again
  <2> QED
    BY <1>4, <1>8, <1>10
<1> QED
  BY <1>11 DEF first, added, saved, second

\* The first arc with the boundary's indexes is a skeleton and gets its chapters.
GrowsAt(vols, last, size, plan, z, arc) ==
  LET b == CheckArcBoundary(vols, last)
  IN  /\ z \in FindArc(vols, b.nextVolume, b.nextArc) /\ arc \in ArcOutline
      /\ b.isArcEnd /\ b.nextArc > 0 /\ ~IsArcExpanded(ArcAt(vols, z)) /\ size > 0
      /\ arc.index = ArcAt(vols, z).index /\ arc.size = size /\ arc.plan = plan
      /\ ExpandArcAt(vols, last, size, plan) = [ok |-> TRUE, vols |-> Replaced(vols, z, arc)]

\* expandArcAt does so or leaves the outline.
LEMMA ExpandInPlace ==
  ASSUME NEW vols \in Seq(VolumeOutline), Numbered(vols), NEW last, NEW size \in Nat,
         NEW plan \in STRING
  PROVE  \/ ExpandArcAt(vols, last, size, plan).vols = vols
         \/ \E z, arc : GrowsAt(vols, last, size, plan, z, arc)
<1> DEFINE b == CheckArcBoundary(vols, last)
           found == FindArc(vols, b.nextVolume, b.nextArc)
           z == CHOOSE y \in found : TRUE
           arc == [ArcAt(vols, z) EXCEPT !.size = size, !.est = 0, !.plan = plan]
           new == ExpandArcAt(vols, last, size, plan)
<1>1. RepairMissingLayeredIndexes(vols) = vols
  BY RepairOfNumbered
<1>2. \/ new = Refused(vols)
      \/ /\ ~(size = 0) /\ b.isArcEnd /\ ~(b.nextArc <= 0) /\ found # {}
         /\ \/ new = [ok |-> ArcAt(vols, z).size = size /\ ArcAt(vols, z).plan = plan, vols |-> vols]
            \/ /\ ~IsArcExpanded(ArcAt(vols, z))
               /\ new = [ok |-> TRUE, vols |-> Replaced(vols, z, arc)]
  BY <1>1, Zenon DEF ExpandArcAt, Replaceable, Replaced
<1>3. \/ new.vols = vols
      \/ /\ ~(size = 0) /\ b.isArcEnd /\ ~(b.nextArc <= 0) /\ found # {}
         /\ ~IsArcExpanded(ArcAt(vols, z))
         /\ new = [ok |-> TRUE, vols |-> Replaced(vols, z, arc)]
  <2> HIDE DEF new, b, found, z, arc
  <2> QED
    BY <1>2 DEF Refused
<1>4. CASE /\ ~(size = 0) /\ b.isArcEnd /\ ~(b.nextArc <= 0) /\ found # {}
           /\ ~IsArcExpanded(ArcAt(vols, z))
           /\ new = [ok |-> TRUE, vols |-> Replaced(vols, z, arc)]
  <2>1. z \in found /\ z \in Arcs(vols) /\ ArcAt(vols, z).index = b.nextArc
    BY <1>4 DEF FindArc
  <2> HIDE DEF new, b, found, z
  <2>2. ArcAt(vols, z) \in ArcOutline
    BY <2>1, ArcsByPlace
  <2>3. arc \in ArcOutline /\ arc.index = ArcAt(vols, z).index /\ arc.size = size /\ arc.plan = plan
    BY <2>2 DEF ArcOutline
  <2>4. b.nextArc > 0 /\ size > 0
    BY <1>4, <2>1, <2>2 DEF ArcOutline
  <2> HIDE DEF arc
  <2>5. z \in FindArc(vols, b.nextVolume, b.nextArc)
    BY <2>1 DEF found
  <2>6. GrowsAt(vols, last, size, plan, z, arc)
    BY <1>4, <2>3, <2>4, <2>5 DEF GrowsAt, new, b
  <2> QED
    BY <2>6
<1> QED
  BY <1>3, <1>4

\* The volumes of an outline with another arc at z.
LEMMA ReplacedVolumes ==
  ASSUME NEW vols \in Seq(VolumeOutline), NEW z \in Arcs(vols), NEW arc \in ArcOutline
  PROVE  \A v \in 1..Len(vols) :
           /\ Replaced(vols, z, arc)[v].plan = vols[v].plan
           /\ Replaced(vols, z, arc)[v].title = vols[v].title
           /\ Replaced(vols, z, arc)[v].index = vols[v].index
           /\ Replaced(vols, z, arc)[v].final = vols[v].final
           /\ v # z[1] => Replaced(vols, z, arc)[v] = vols[v]
<1> DEFINE v == z[1]
           arcs == [vols[v].arcs EXCEPT ![z[2]] = arc]
           volume == [vols[v] EXCEPT !.arcs = arcs]
           new == Replaced(vols, z, arc)
<1>1. v \in 1..Len(vols) /\ DOMAIN vols = 1..Len(vols) /\ vols[v] \in VolumeOutline
  BY ArcsByPlace
<1>2. new = [vols EXCEPT ![v] = volume]
  BY <1>1 DEF Replaced
<1> HIDE DEF new, arcs
<1>3. /\ volume.plan = vols[v].plan /\ volume.title = vols[v].title
      /\ volume.index = vols[v].index /\ volume.final = vols[v].final
  BY <1>1 DEF VolumeOutline
<1> HIDE DEF volume, v
<1>4. \A w \in 1..Len(vols) : /\ new[w].plan = vols[w].plan /\ new[w].title = vols[w].title
                              /\ new[w].index = vols[w].index /\ new[w].final = vols[w].final
                              /\ w # v => new[w] = vols[w]
  BY <1>1, <1>2, <1>3
<1> QED
  BY <1>4 DEF new, v

\* One arc ends with a given chapter.
LEMMA EndsAlone ==
  ASSUME NEW vols \in Seq(VolumeOutline), NEW x \in Arcs(vols), NEW y \in Arcs(vols),
         IsArcExpanded(ArcAt(vols, x)), IsArcExpanded(ArcAt(vols, y)),
         EndChapter(vols, x) = EndChapter(vols, y)
  PROVE  x = y
<1>1. ASSUME NEW w \in Arcs(vols), IsArcExpanded(ArcAt(vols, w))
      PROVE  /\ StartChapter(vols, w) \in Nat /\ EndChapter(vols, w) \in Int
             /\ StartChapter(vols, w) <= EndChapter(vols, w)
  <2>1. StartChapter(vols, w) \in Nat \ {0}
    BY ArcStarts
  <2>2. ArcAt(vols, w).size \in Nat /\ ArcAt(vols, w).size > 0
    BY <1>1, ArcsByPlace DEF IsArcExpanded, ArcOutline
  <2> QED
    BY <2>1, <2>2 DEF EndChapter
<1>2. ~StoryBefore(x, y)
  <2>1. StoryBefore(x, y) => StartChapter(vols, y) > EndChapter(vols, x)
    BY StartsInOrder
  <2> QED
    BY <1>1, <2>1
<1>3. ~StoryBefore(y, x)
  <2>1. StoryBefore(y, x) => StartChapter(vols, x) > EndChapter(vols, y)
    BY StartsInOrder
  <2> QED
    BY <1>1, <2>1
<1> QED
  BY <1>2, <1>3, StoryOrder

\* expand_next_arc repeated because its answer was lost, or because the process died
\* between its writes and the answer: while no further chapter is committed it looks
\* at the same boundary, finds the arc it has expanded, and changes nothing.  The
\* indexes of the arcs must tell them apart.  Where they do not, the arc that was
\* expanded may lie before the boundary, which then is another.
THEOREM ExpandingTwiceIsOnce ==
  ASSUME NEW vols \in Seq(VolumeOutline), Numbered(vols), IndexesTell(vols),
         NEW last \in Nat, NEW size \in Nat, NEW plan \in STRING,
         ExpandArcAt(vols, last, size, plan).ok
  PROVE  LET saved == RepairMissingLayeredIndexes(ExpandArcAt(vols, last, size, plan).vols)
         IN  /\ saved = ExpandArcAt(vols, last, size, plan).vols
             /\ ExpandArcAt(saved, last, size, plan) = [ok |-> TRUE, vols |-> saved]
<1> DEFINE once == ExpandArcAt(vols, last, size, plan)
           new == once.vols
           b == CheckArcBoundary(vols, last)
           c == CheckArcBoundary(new, last)
<1>1. new \in Seq(VolumeOutline) /\ Numbered(new)
  BY ExpandReplaces
<1>2. RepairMissingLayeredIndexes(new) = new /\ RepairMissingLayeredIndexes(vols) = vols
  BY <1>1, RepairOfNumbered
<1>3. CASE new = vols
  <2>1. \E w : \E sure \in BOOLEAN : once = [ok |-> sure, vols |-> w]
    <3>1. \/ once = Refused(RepairMissingLayeredIndexes(vols))
          \/ \E w : once = [ok |-> TRUE, vols |-> w]
          \/ \E a, w : once = [ok |-> a.size = size /\ a.plan = plan, vols |-> w]
      BY Zenon DEF ExpandArcAt
    <3>2. \A a : (a.size = size /\ a.plan = plan) \in BOOLEAN
      OBVIOUS
    <3> HIDE DEF once
    <3> QED
      BY <3>1, <3>2, Zenon DEF Refused
  <2>3. once.ok
    OBVIOUS
  <2> HIDE DEF once
  <2>4. once = [ok |-> TRUE, vols |-> new]
    BY <2>1, <2>3
  <2> QED
    BY <1>2, <1>3, <2>4 DEF once
<1>4. ASSUME NEW z, NEW arc, GrowsAt(vols, last, size, plan, z, arc)
      PROVE  ExpandArcAt(new, last, size, plan) = [ok |-> TRUE, vols |-> new]
  <2>0. /\ z \in FindArc(vols, b.nextVolume, b.nextArc) /\ arc \in ArcOutline
        /\ b.isArcEnd /\ b.nextArc > 0 /\ ~IsArcExpanded(ArcAt(vols, z)) /\ size > 0
        /\ arc.index = ArcAt(vols, z).index /\ arc.size = size /\ arc.plan = plan
        /\ once = [ok |-> TRUE, vols |-> Replaced(vols, z, arc)]
    BY <1>4 DEF GrowsAt
  <2>1. z \in Arcs(vols) /\ vols[z[1]].index = b.nextVolume /\ ArcAt(vols, z).index = b.nextArc
    BY <2>0 DEF FindArc
  <2>2. /\ new \in Seq(VolumeOutline) /\ Arcs(new) = Arcs(vols) /\ Len(new) = Len(vols)
        /\ ArcAt(new, z) = arc
        /\ \A y \in Arcs(vols) : y # z => ArcAt(new, y) = ArcAt(vols, y)
        /\ \A v \in 1..Len(vols) : new[v].index = vols[v].index
    BY <2>0, <2>1, ArcReplaced
  <2>3. \A y \in Arcs(vols) : /\ new[y[1]].index = vols[y[1]].index
                              /\ ArcAt(new, y).index = ArcAt(vols, y).index
    BY <2>0, <2>2, ArcsByPlace
  <2>4. \/ ~b.isArcEnd
        \/ \E x \in Arcs(vols) :
             /\ IsArcExpanded(ArcAt(vols, x)) /\ EndChapter(vols, x) = last
             /\ \/ b.nextArc = 0
                \/ \E y \in FollowingArc(vols, x) :
                     b.nextVolume = vols[y[1]].index /\ b.nextArc = ArcAt(vols, y).index
    BY BoundaryFollows
  <2>5. \/ /\ ~c.isArcEnd
           /\ \A x \in Arcs(new) : ~(IsArcExpanded(ArcAt(new, x)) /\ EndChapter(new, x) = last)
        \/ \E x \in Arcs(new) :
             /\ c.isArcEnd
             /\ IsArcExpanded(ArcAt(new, x)) /\ EndChapter(new, x) = last
             /\ \/ FollowingArc(new, x) = {}
                \/ \E y \in FollowingArc(new, x) :
                     c.nextVolume = new[y[1]].index /\ c.nextArc = ArcAt(new, y).index
    BY <1>1, BoundaryFollows
  <2> HIDE DEF b, c, new, once
  <2>6. PICK x \in Arcs(vols) :
          /\ IsArcExpanded(ArcAt(vols, x)) /\ EndChapter(vols, x) = last
          /\ \E y \in FollowingArc(vols, x) :
               b.nextVolume = vols[y[1]].index /\ b.nextArc = ArcAt(vols, y).index
    BY <2>0, <2>4
  <2>7. z \in FollowingArc(vols, x)
    BY <2>1, <2>6 DEF FollowingArc, IndexesTell
  <2>8. StoryBefore(x, z) /\ x # z /\ ~StoryBefore(z, x)
    <3>1. StoryBefore(x, z)
      BY <2>7 DEF FollowingArc
    <3> QED
      BY <2>1, <3>1, StoryOrder
  <2>9. ArcAt(new, x) = ArcAt(vols, x) /\ EndChapter(new, x) = last
    <3>1. Before(new, x) = Before(vols, x)
      BY <2>2 DEF Before
    <3>2. \A y \in Before(vols, x) : ArcAt(new, y).size = ArcAt(vols, y).size
      BY <2>2, <2>8 DEF Before
    <3>3. StartChapter(new, x) = StartChapter(vols, x)
      BY <3>1, <3>2, StartStays
    <3> QED
      BY <2>2, <2>6, <2>8, <3>3 DEF EndChapter
  <2>10. FollowingArc(new, x) = FollowingArc(vols, x)
    BY <2>2 DEF FollowingArc
  <2>11. \A y \in FollowingArc(vols, x) : y = z
    <3> SUFFICES ASSUME NEW y \in FollowingArc(vols, x) PROVE y = z
      OBVIOUS
    <3>1. y \in Arcs(vols) /\ ~StoryBefore(y, z) /\ ~StoryBefore(z, y)
      BY <2>1, <2>7 DEF FollowingArc
    <3> QED
      BY <2>1, <3>1, StoryOrder
  <2>12. c.isArcEnd /\ c.nextVolume = b.nextVolume /\ c.nextArc = b.nextArc
    <3>1. PICK w \in Arcs(new) :
            /\ c.isArcEnd
            /\ IsArcExpanded(ArcAt(new, w)) /\ EndChapter(new, w) = last
            /\ \/ FollowingArc(new, w) = {}
               \/ \E y \in FollowingArc(new, w) :
                    c.nextVolume = new[y[1]].index /\ c.nextArc = ArcAt(new, y).index
      BY <2>2, <2>5, <2>6, <2>9
    <3>2. w = x
      BY <2>2, <2>6, <2>9, <3>1, EndsAlone
    <3>3. c.nextVolume = new[z[1]].index /\ c.nextArc = ArcAt(new, z).index
      BY <2>7, <2>10, <2>11, <3>1, <3>2
    <3> QED
      BY <2>1, <2>3, <3>1, <3>3
  <2> DEFINE found == FindArc(new, c.nextVolume, c.nextArc)
  <2>13. found = {z}
    <3>1. z \in found
      <4>1. \A y \in Arcs(vols) :
              vols[y[1]].index = b.nextVolume /\ ArcAt(vols, y).index = b.nextArc => ~StoryBefore(y, z)
        BY <2>0 DEF FindArc
      <4> QED
        BY <2>1, <2>2, <2>3, <2>12, <4>1 DEF FindArc
    <3>2. \A y \in found : y = z
      BY <2>1, <2>2, <2>3, <2>12 DEF FindArc, IndexesTell
    <3> QED
      BY <3>1, <3>2
  <2>14. (CHOOSE y \in found : TRUE) = z /\ found # {}
    BY <2>13
  <2>15. /\ ~(size = 0) /\ ~(c.nextArc <= 0) /\ IsArcExpanded(ArcAt(new, z))
         /\ ArcAt(new, z).size = size /\ ArcAt(new, z).plan = plan
    <3>1. b.nextArc \in Int
      BY <2>1, ArcsByPlace DEF ArcOutline
    <3> QED
      BY <2>0, <2>2, <2>12, <3>1 DEF IsArcExpanded
  <2> HIDE DEF found
  <2> DEFINE sure == ArcAt(new, z).size = size /\ ArcAt(new, z).plan = plan
  <2>16. ExpandArcAt(new, last, size, plan) = [ok |-> sure, vols |-> new]
    BY <1>2, <2>12, <2>14, <2>15, Zenon DEF ExpandArcAt, Replaceable, c, found
  <2>17. sure = TRUE
    BY <2>15
  <2> HIDE DEF sure
  <2> QED
    BY <2>16, <2>17
<1>5. \/ new = vols
      \/ \E z, arc : GrowsAt(vols, last, size, plan, z, arc)
  BY ExpandInPlace
<1> HIDE DEF new, b
<1>6. ExpandArcAt(new, last, size, plan) = [ok |-> TRUE, vols |-> new]
        \/ new = vols
  BY <1>4, <1>5
<1> QED
  BY <1>2, <1>3, <1>6 DEF new

-----------------------------------------------------------------------------
(* The volume a book ends with. *)

\* The last one that has arcs.
EndsBook(vols, v) ==
  vols[v].arcs # <<>> /\ \A w \in DOMAIN vols : w > v => vols[w].arcs = <<>>

\* What checkArcBoundary says of the volume of the arc that ends there.
LEMMA BoundaryTells ==
  ASSUME NEW vols \in Seq(VolumeOutline), NEW last, CheckArcBoundary(vols, last).isArcEnd
  PROVE  LET b == CheckArcBoundary(vols, last)
         IN  \E x \in Arcs(vols) :
               /\ IsArcExpanded(ArcAt(vols, x)) /\ EndChapter(vols, x) = last
               /\ b.volume = vols[x[1]].index /\ b.isVolumeEnd = EndsVolume(vols, x)
               /\ b.needsNewVolume => FollowingArc(vols, x) = {} /\ EndsVolume(vols, x)
<1> DEFINE b == CheckArcBoundary(vols, last)
           ending == {x \in Arcs(vols) : IsArcExpanded(ArcAt(vols, x)) /\ EndChapter(vols, x) = last}
           x == CHOOSE y \in ending : TRUE
           after == FollowingArc(vols, x)
           y == CHOOSE z \in after : TRUE
<1>1. ending # {}
  <2>1. ending = {} => b = NoBoundary
    BY DEF CheckArcBoundary
  <2> HIDE DEF ending
  <2> QED
    BY <2>1 DEF NoBoundary
<1>2. x \in ending
  BY <1>1
<1>3. /\ b.volume = vols[x[1]].index /\ b.isVolumeEnd = EndsVolume(vols, x)
      /\ b.needsNewVolume => after = {} /\ EndsVolume(vols, x)
  <2>1. CASE after = {}
    <3>1. b = [Boundary(vols, x) EXCEPT !.needsNewVolume = EndsVolume(vols, x)]
      BY <1>1, <2>1, Zenon DEF CheckArcBoundary
    <3> HIDE DEF x, b
    <3> QED
      BY <2>1, <3>1 DEF Boundary
  <2>2. CASE after # {}
    <3>1. b = [Boundary(vols, x) EXCEPT
                 !.nextVolume = vols[y[1]].index,
                 !.nextArc = ArcAt(vols, y).index,
                 !.needsExpansion = ~IsArcExpanded(ArcAt(vols, y))]
      BY <1>1, <2>2, Zenon DEF CheckArcBoundary
    <3> HIDE DEF x, y, b
    <3> QED
      BY <3>1 DEF Boundary
  <2> QED
    BY <2>1, <2>2
<1> QED
  BY <1>2, <1>3

\* An arc that ends its volume and has none after it is in the last volume with arcs.
LEMMA NothingFollows ==
  ASSUME NEW vols \in Seq(VolumeOutline), NEW x \in Arcs(vols),
         EndsVolume(vols, x), FollowingArc(vols, x) = {}
  PROVE  EndsBook(vols, x[1])
<1> DEFINE later == {w \in 1..Len(vols) : w > x[1] /\ vols[w].arcs # <<>>}
<1>1. /\ x[1] \in 1..Len(vols) /\ x[2] \in 1..Len(vols[x[1]].arcs) /\ Len(vols) \in Nat
      /\ DOMAIN vols = 1..Len(vols)
  BY ArcsByPlace
<1>2. vols[x[1]].arcs # <<>>
  BY <1>1, ArcsByPlace, EmptySeq
<1>3. ASSUME later # {} PROVE FALSE
  <2>1. later \subseteq Nat
    BY <1>1
  <2>2. PICK w \in later : \A m \in later : w <= m
    <3> HIDE DEF later
    <3> QED
      BY <1>3, <2>1, LeastNumber
  <2> DEFINE y == <<w, 1>>
  <2>3. w \in 1..Len(vols) /\ w > x[1] /\ vols[w].arcs # <<>>
    BY <2>2
  <2>4. 1 \in 1..Len(vols[w].arcs)
    BY <2>3, ArcsByPlace, EmptySeq
  <2>5. y \in Arcs(vols) /\ StoryBefore(x, y)
    BY <2>3, <2>4, ArcsByPlace DEF StoryBefore
  <2>6. ASSUME NEW z \in Arcs(vols), StoryBefore(x, z), StoryBefore(z, y) PROVE FALSE
    <3>1. /\ z[1] \in 1..Len(vols) /\ z[2] \in 1..Len(vols[z[1]].arcs)
          /\ Len(vols[z[1]].arcs) \in Nat /\ z[1] \in Nat /\ z[2] \in Nat \ {0}
      <4>1. z[1] \in 1..Len(vols) /\ z[2] \in 1..Len(vols[z[1]].arcs)
            /\ Len(vols[z[1]].arcs) \in Nat
        BY ArcsByPlace
      <4> QED
        BY <1>1, <4>1
    <3>2. ~(z[1] = w /\ z[2] < 1)
      BY <3>1
    <3>3. z[1] < w
      BY <2>6, <3>2 DEF StoryBefore
    <3>4. ~(z[1] = x[1] /\ x[2] < z[2])
      BY <3>1, <1>1 DEF EndsVolume
    <3>5. x[1] < z[1]
      BY <2>6, <3>4 DEF StoryBefore
    <3>6. vols[z[1]].arcs # <<>>
      BY <3>1, ArcsByPlace, EmptySeq
    <3>7. z[1] \in later
      BY <1>1, <3>1, <3>5, <3>6
    <3> QED
      BY <1>1, <2>2, <2>3, <3>1, <3>3, <3>7
  <2>7. y \in FollowingArc(vols, x)
    BY <2>5, <2>6 DEF FollowingArc
  <2> QED
    BY <2>7
<1> QED
  BY <1>1, <1>2, <1>3 DEF EndsBook

\* The arc that ends the last volume with arcs, once it has chapters, ends with the
\* last chapter.
LEMMA BookEnds ==
  ASSUME NEW vols \in Seq(VolumeOutline), NEW x \in Arcs(vols), IsArcExpanded(ArcAt(vols, x)),
         EndsVolume(vols, x), EndsBook(vols, x[1])
  PROVE  EndChapter(vols, x) = FlattenedLength(vols)
<1>1. FlattenedLength(vols) > 0
  <2>1. ArcAt(vols, x).size \in Nat /\ ChapterCount(vols, {x}) = ArcAt(vols, x).size
    BY CountOfOne
  <2>2. ChapterCount(vols, {x}) <= ChapterCount(vols, Arcs(vols))
    BY CountOfMore
  <2>3. ChapterCount(vols, Arcs(vols)) \in Nat
    BY ChaptersAreFinite
  <2> QED
    BY <2>1, <2>2, <2>3 DEF FlattenedLength, IsArcExpanded
<1>2. PICK e \in Arcs(vols) :
        /\ EndChapter(vols, e) = FlattenedLength(vols)
        /\ x = e \/ StoryBefore(x, e)
  BY <1>1, LastExpanded
<1>3. ASSUME StoryBefore(x, e) PROVE FALSE
  <2>1. /\ x[1] \in 1..Len(vols) /\ e[1] \in 1..Len(vols) /\ e[2] \in 1..Len(vols[e[1]].arcs)
        /\ Len(vols[e[1]].arcs) \in Nat /\ DOMAIN vols = 1..Len(vols)
        /\ vols[e[1]].arcs \in Seq(ArcOutline)
    BY ArcsByPlace
  <2>2. vols[e[1]].arcs # <<>>
    BY <2>1, EmptySeq
  <2>3. ~(e[1] > x[1])
    BY <2>1, <2>2 DEF EndsBook
  <2>4. e[1] = x[1] /\ x[2] < e[2]
    BY <1>3, <2>1, <2>3 DEF StoryBefore
  <2> QED
    BY <2>1, <2>4 DEF EndsVolume
<1> QED
  BY <1>2, <1>3
=============================================================================
