----------------------- MODULE AnalysisSessionProofs -----------------------
(***************************************************************************)
(* Theorems about AnalysisSession.                                         *)
(***************************************************************************)
EXTENDS AnalysisSession, FiniteSetTheorems, WellFoundedInduction, TLAPS

----------------------------------------------------------------------------
(* Induction, and lists in order *)

\* A set of natural numbers that is not empty has a least element.
LEMMA LeastNatural ==
    ASSUME NEW T, T \subseteq Nat, T # {}
    PROVE  \E m \in T : \A n \in T : m <= n
<1> DEFINE Below == {1 .. n : n \in T}
<1>1. Below \subseteq FiniteSubsetsOf(Nat) /\ Below # {}
  <2>1. \A n \in T : n \in Int /\ 1 .. n \in SUBSET Nat
    OBVIOUS
  <2>2. \A n \in T : IsFiniteSet(1 .. n)
    BY <2>1, FS_Interval
  <2>3. QED
    BY <2>1, <2>2 DEF FiniteSubsetsOf
<1>2. PICK B \in Below : \A C \in Below : <<C, B>> \notin StrictSubsetOrdering(Nat)
  BY <1>1, FS_StrictSubsetOrderingWellFounded, WFMin
<1>3. PICK m \in T : B = 1 .. m
  OBVIOUS
<1>4. ASSUME NEW n \in T, n < m PROVE FALSE
  <2>1. 1 .. n \subseteq 1 .. m /\ m \in 1 .. m /\ m \notin 1 .. n
    BY <1>4
  <2>2. 1 .. n \in SUBSET Nat /\ 1 .. m \in SUBSET Nat /\ 1 .. n # 1 .. m
    BY <2>1
  <2>3. <<1 .. n, 1 .. m>> \in StrictSubsetOrdering(Nat)
    BY <2>1, <2>2 DEF StrictSubsetOrdering
  <2>4. QED
    BY <1>2, <1>3, <2>3
<1>5. QED
  BY <1>4

\* A set that holds 0, and a number if it holds the one before it, holds all
\* numbers up to b.
LEMMA Induction ==
    ASSUME NEW b \in Nat, NEW G, 0 \in G,
           \A n \in 1 .. b : n - 1 \in G => n \in G
    PROVE  0 .. b \subseteq G
<1> DEFINE T == (0 .. b) \ G
<1>1. SUFFICES ASSUME T # {} PROVE FALSE
  OBVIOUS
<1>2. PICK m \in T : \A n \in T : m <= n
  <2>1. T \subseteq Nat
    OBVIOUS
  <2> HIDE DEF T
  <2>2. QED
    BY <1>1, <2>1, LeastNatural
<1>3. m \in 1 .. b /\ m - 1 \in 0 .. b /\ ~(m <= m - 1)
  OBVIOUS
<1>4. m - 1 \in G
  BY <1>2, <1>3
<1>5. QED
  BY <1>3, <1>4

\* A list of the n elements of S, in the order R.
Ascends(s, S, n, R) ==
    /\ s \in [1 .. n -> S]
    /\ \A x \in S : \E k \in 1 .. n : s[k] = x
    /\ \A j, k \in 1 .. n : j < k => <<s[j], s[k]>> \in R

\* R orders all elements of X.
Orders(R, X) ==
    /\ \A x, y, z \in X : <<x, y>> \in R /\ <<y, z>> \in R => <<x, z>> \in R
    /\ \A x, y \in X : x = y \/ <<x, y>> \in R \/ <<y, x>> \in R

\* The greatest element after the others is a list of all.
LEMMA AscendsMore ==
    ASSUME NEW R, NEW A, NEW n \in Nat \ {0}, NEW y \in A, NEW t,
           \A z \in A \ {y} : <<z, y>> \in R, Ascends(t, A \ {y}, n - 1, R)
    PROVE  \E s : Ascends(s, A, n, R)
<1> DEFINE u == [k \in 1 .. n |-> IF k = n THEN y ELSE t[k]]
<1>1. \A k \in 1 .. n : k # n => k \in 1 .. n - 1
  OBVIOUS
<1>2. \A k \in 1 .. n - 1 : t[k] \in A \ {y} /\ u[k] = t[k] /\ k \in 1 .. n
  BY DEF Ascends
<1>3. u[n] = y /\ n \in 1 .. n
  OBVIOUS
<1>4. u \in [1 .. n -> A]
  BY <1>1, <1>2
<1> HIDE DEF u
<1>5. ASSUME NEW x \in A PROVE \E k \in 1 .. n : u[k] = x
  <2>1. CASE x = y
    BY <1>3, <2>1
  <2>2. CASE x # y
    <3>1. PICK k \in 1 .. n - 1 : t[k] = x
      BY <2>2 DEF Ascends
    <3>2. QED
      BY <1>2, <3>1
  <2>3. QED
    BY <2>1, <2>2
<1>6. ASSUME NEW j \in 1 .. n, NEW k \in 1 .. n, j < k PROVE <<u[j], u[k]>> \in R
  <2>1. j \in 1 .. n - 1
    BY <1>6
  <2>2. CASE k = n
    BY <1>2, <1>3, <2>1, <2>2
  <2>3. CASE k # n
    <3>1. k \in 1 .. n - 1
      BY <2>3
    <3>2. <<t[j], t[k]>> \in R
      BY <1>6, <2>1, <3>1 DEF Ascends
    <3>3. QED
      BY <1>2, <2>1, <3>1, <3>2
  <2>4. QED
    BY <2>2, <2>3
<1>7. Ascends(u, A, n, R)
  BY <1>4, <1>5, <1>6 DEF Ascends
<1>8. QED
  BY <1>7

\* Of the last of a list and one more element, one is greater than all others.
LEMMA GreatestOfMore ==
    ASSUME NEW X, NEW R, Orders(R, X),
           NEW A \in SUBSET X, NEW x \in A, NEW n \in Nat \ {0}, NEW s,
           Ascends(s, A \ {x}, n - 1, R)
    PROVE  \E y \in A : \A z \in A \ {y} : <<z, y>> \in R
<1>1. CASE n = 1
  <2>1. \A k : k \notin 1 .. n - 1
    BY <1>1
  <2>2. A = {x}
    BY <2>1 DEF Ascends
  <2>3. QED
    BY <2>2
<1>2. CASE n # 1
  <2>0. n - 1 \in 1 .. n - 1
    BY <1>2
  <2>1. PICK l : l = s[n - 1]
    OBVIOUS
  <2>2. l \in A /\ l # x
    BY <2>0, <2>1 DEF Ascends
  <2>3. ASSUME NEW z \in A, z # x, z # l PROVE <<z, l>> \in R
    <3>1. PICK k \in 1 .. n - 1 : s[k] = z
      BY <2>3 DEF Ascends
    <3>2. k < n - 1
      BY <2>1, <2>3, <3>1
    <3>3. QED
      BY <2>0, <2>1, <3>1, <3>2 DEF Ascends
  <2>4. CASE <<l, x>> \in R
    <3>1. \A z \in A \ {x} : <<z, x>> \in R
      <4>1. ASSUME NEW z \in A \ {x}, z # l PROVE <<z, x>> \in R
        <5>1. <<z, l>> \in R /\ z \in X /\ l \in X /\ x \in X
          BY <2>2, <2>3, <4>1
        <5>2. QED
          BY <2>4, <5>1 DEF Orders
      <4>2. QED
        BY <2>4, <4>1
    <3>2. QED
      BY <3>1
  <2>5. CASE <<x, l>> \in R
    <3>1. \A z \in A \ {l} : <<z, l>> \in R
      BY <2>3, <2>5
    <3>2. QED
      BY <2>2, <3>1
  <2>6. QED
    BY <2>2, <2>4, <2>5 DEF Orders
<1>3. QED
  BY <1>1, <1>2

\* A finite set can be listed in any total order.
LEMMA AscendingExists ==
    ASSUME NEW X, NEW R, Orders(R, X),
           NEW S \in SUBSET X, IsFiniteSet(S)
    PROVE  \E s : Ascends(s, S, Cardinality(S), R)
<1> DEFINE G == {n \in Nat : \A A \in SUBSET S : Cardinality(A) = n => \E s : Ascends(s, A, n, R)}
<1>0. \A A \in SUBSET S : IsFiniteSet(A) /\ Cardinality(A) \in Nat
  BY FS_Subset, FS_CardinalityType
<1>1. 0 \in G
  <2>1. ASSUME NEW A \in SUBSET S, Cardinality(A) = 0 PROVE \E s : Ascends(s, A, 0, R)
    <3>1. A = {}
      BY <1>0, <2>1, FS_EmptySet
    <3>2. Ascends([k \in 1 .. 0 |-> 0], A, 0, R)
      BY <3>1 DEF Ascends
    <3>3. QED
      BY <3>2
  <2>2. QED
    BY <2>1
<1>2. ASSUME NEW n \in 1 .. Cardinality(S), n - 1 \in G
      PROVE  n \in G
  <2>0. n \in Nat \ {0}
    BY <1>0
  <2>1. SUFFICES ASSUME NEW A \in SUBSET S, Cardinality(A) = n
                 PROVE  \E s : Ascends(s, A, n, R)
    BY <2>0
  <2>2. PICK x \in A : TRUE
    BY <1>0, <2>0, <2>1, FS_EmptySet
  <2>3. ASSUME NEW y \in A PROVE A \ {y} \in SUBSET S /\ Cardinality(A \ {y}) = n - 1
    BY <1>0, <2>1, FS_RemoveElement
  <2>4. \A y \in A : \E s : Ascends(s, A \ {y}, n - 1, R)
    BY <1>2, <2>3
  <2>5. PICK s : Ascends(s, A \ {x}, n - 1, R)
    BY <2>4
  <2>6. A \in SUBSET X
    OBVIOUS
  <2> HIDE DEF G
  <2>7. PICK y \in A : \A z \in A \ {y} : <<z, y>> \in R
    BY <2>0, <2>5, <2>6, GreatestOfMore
  <2>8. PICK t : Ascends(t, A \ {y}, n - 1, R)
    BY <2>4
  <2>9. QED
    BY <2>0, <2>7, <2>8, AscendsMore
<1>3. Cardinality(S) \in G
  <2> HIDE DEF G
  <2>1. 0 .. Cardinality(S) \subseteq G
    BY <1>0, <1>1, <1>2, Induction
  <2>2. QED
    BY <1>0, <2>1
<1>4. QED
  BY <1>3

----------------------------------------------------------------------------
(* The tables an analysis writes *)

KeptLinks(a) == {l \in a.links : l[1] < l[2]}

\* The rows of the links table are the transitions that are written, each once.
LEMMA LinkRowsListed ==
    ASSUME NEW a \in Analyses
    PROVE  \E n \in Nat : /\ LinkRows(a) \in [1 .. n -> KeptLinks(a)]
                          /\ \A l \in KeptLinks(a) : \E k \in 1 .. n : LinkRows(a)[k] = l
<1> DEFINE X == a.clusters \X a.clusters
           R == {p \in X \X X : Precedes(p[1], p[2])}
           S == KeptLinks(a)
           n == Cardinality(S)
           Good(s) == /\ \A l \in S : \E k \in DOMAIN s : s[k] = l
                      /\ \A j, k \in DOMAIN s : j < k => Precedes(s[j], s[k])
<1>1. a.clusters \subseteq Nat /\ IsFiniteSet(a.clusters)
  <2>1. Cardinality(a.clusters) \in Nat /\ IsFiniteSet(a.clusters)
    BY ClustersNumbered, FS_CardinalityType
  <2>2. a.clusters = 1 .. Cardinality(a.clusters)
    BY ClustersNumbered
  <2>3. QED
    BY <2>1, <2>2
<1>2. S \in SUBSET X
  BY LinksPaired DEF KeptLinks
<1>3. IsFiniteSet(S) /\ n \in Nat
  <2>1. IsFiniteSet(X)
    BY <1>1, FS_Product
  <2>2. QED
    BY <1>2, <2>1, FS_Subset, FS_CardinalityType
<1>4. \A x, y \in X : <<x, y>> \in R <=> Precedes(x, y)
  OBVIOUS
<1>5. Orders(R, X)
  <2>1. \A x \in X : x[1] \in Nat /\ x[2] \in Nat /\ x = <<x[1], x[2]>>
    BY <1>1
  <2>2. ASSUME NEW x \in X, NEW y \in X, NEW z \in X, Precedes(x, y), Precedes(y, z)
        PROVE  Precedes(x, z)
    BY <2>1, <2>2 DEF Precedes
  <2>3. ASSUME NEW x \in X, NEW y \in X PROVE x = y \/ Precedes(x, y) \/ Precedes(y, x)
    <3>1. x[1] \in Nat /\ x[2] \in Nat /\ y[1] \in Nat /\ y[2] \in Nat
      BY <2>1
    <3>2. x[1] = y[1] /\ x[2] = y[2] => x = y
      BY <2>1
    <3>3. QED
      BY <3>1, <3>2 DEF Precedes
  <2> HIDE DEF R, X
  <2>4. QED
    BY <1>4, <2>2, <2>3 DEF Orders
<1>6. PICK s : Ascends(s, S, n, R)
  <2> HIDE DEF R, X, S
  <2>1. QED
    BY <1>2, <1>3, <1>5, AscendingExists
<1>7. s \in [1 .. n -> S] /\ Good(s)
  <2>1. \A x, y \in S : <<x, y>> \in R => Precedes(x, y)
    BY <1>2, <1>4
  <2>2. s \in [1 .. n -> S] /\ DOMAIN s = 1 .. n
    BY <1>6 DEF Ascends
  <2>3. ASSUME NEW j \in 1 .. n, NEW k \in 1 .. n, j < k PROVE Precedes(s[j], s[k])
    <3>1. <<s[j], s[k]>> \in R
      BY <1>6, <2>3 DEF Ascends
    <3>2. s[j] \in S /\ s[k] \in S
      BY <2>2
    <3> HIDE DEF R, S
    <3>3. QED
      BY <2>1, <3>1, <3>2
  <2>4. \A l \in S : \E k \in 1 .. n : s[k] = l
    BY <1>6 DEF Ascends
  <2>5. QED
    BY <2>2, <2>3, <2>4
<1>8. LinkRows(a) = CHOOSE t \in [1 .. n -> S] : Good(t)
  BY DEF LinkRows, KeptLinks
<1>9. LinkRows(a) \in [1 .. n -> S] /\ Good(LinkRows(a))
  <2> HIDE DEF Good, S
  <2>1. QED
    BY <1>7, <1>8
<1>10. QED
  BY <1>3, <1>9

\* The rows of the clusters table, whole or without its tail.
LEMMA ClusterRowsNumbered ==
    ASSUME NEW a \in Analyses
    PROVE  /\ Cardinality(a.clusters) \in Nat
           /\ ClusterRows(a) = [k \in 1 .. Cardinality(a.clusters) |-> k]
           /\ IdsOf(ClusterRows(a)) = a.clusters
           /\ a.clusters # {} => 1 \in a.clusters
<1>1. Cardinality(a.clusters) \in Nat /\ IsFiniteSet(a.clusters)
  BY ClustersNumbered, FS_CardinalityType
<1>2. a.clusters = 1 .. Cardinality(a.clusters)
  BY ClustersNumbered
<1>3. \A n \in Nat : 1 .. n # {} => 1 \in 1 .. n
  OBVIOUS
<1>4. IdsOf(ClusterRows(a)) = a.clusters
  BY DEF IdsOf, ClusterRows
<1>5. QED
  BY <1>1, <1>2, <1>3, <1>4 DEF ClusterRows

\* The row of an atom is the one stored under its index.
LEMMA RowOfAtom ==
    ASSUME NEW a \in Analyses, NEW i \in Atoms(a)
    PROVE  RowOf(NeighborTopology(a), i) =
               [id |-> AtomIds(a)[i], atomIndex |-> i,
                slots |-> NeighborIndices(a, i), vectors |-> NeighborLatticeVectors(a, i)]
<1> DEFINE row(k) == [id |-> AtomIds(a)[k], atomIndex |-> k,
                      slots |-> NeighborIndices(a, k), vectors |-> NeighborLatticeVectors(a, k)]
           t == NeighborTopology(a)
<1>1. DOMAIN t.rows = Atoms(a) /\ \A k \in Atoms(a) : t.rows[k] = row(k)
  BY DEF NeighborTopology
<1>2. {t.rows[k] : k \in DOMAIN t.rows} = {row(k) : k \in Atoms(a)}
  <2> HIDE DEF t, row
  <2>1. QED
    BY <1>1
<1>3. \A r \in {row(k) : k \in Atoms(a)} : r.atomIndex = i <=> r = row(i)
  OBVIOUS
<1>4. row(i) \in {row(k) : k \in Atoms(a)}
  OBVIOUS
<1>5. RowOf(t, i) = CHOOSE r \in {row(k) : k \in Atoms(a)} : r.atomIndex = i
  BY <1>2 DEF RowOf
<1>6. RowOf(t, i) = row(i)
  <2> HIDE DEF t, row
  <2>1. QED
    BY <1>3, <1>4, <1>5
<1>7. QED
  BY <1>6

\* What the loader counts in the slots of a row is what the analysis had there.
LEMMA CountKept ==
    ASSUME NEW a \in Analyses, NEW i \in Atoms(a)
    PROVE  /\ CountOf(a, i) \in 0 .. MaxNeighbors
           /\ NeighborCount(RowOf(NeighborTopology(a), i)) = CountOf(a, i)
           /\ \A s \in 0 .. (CountOf(a, i) - 1) :
                 /\ RowOf(NeighborTopology(a), i).slots[s] = a.indices[a.offsets[i] + s]
                 /\ a.indices[a.offsets[i] + s] \in Atoms(a)
<1> DEFINE r == RowOf(NeighborTopology(a), i)
           n == CountOf(a, i)
<1>1. n \in 0 .. MaxNeighbors /\ MaxNeighbors \in Nat
  BY NeighborsStored, NullAssumption
<1>2. \A s \in 0 .. (n - 1) : a.offsets[i] + s \in DOMAIN a.indices /\ a.indices[a.offsets[i] + s] \in Atoms(a)
  BY NeighborsStored
<1>3. r.slots = NeighborIndices(a, i)
  BY RowOfAtom
<1>4. \A s \in Slots : r.slots[s] = IF s < n /\ a.offsets[i] + s \in DOMAIN a.indices
                                   THEN a.indices[a.offsets[i] + s] ELSE -1
  BY <1>3 DEF NeighborIndices
<1>5. \A j \in Atoms(a) : j >= 0
  BY NeighborsStored DEF Atoms
<1> HIDE DEF r, n
<1>6. ASSUME NEW s \in 0 .. (n - 1)
      PROVE  r.slots[s] = a.indices[a.offsets[i] + s] /\ r.slots[s] >= 0
  <2>1. s \in Slots /\ s < n
    BY <1>1 DEF Slots
  <2>2. QED
    BY <1>2, <1>4, <1>5, <2>1
<1>7. n = MaxNeighbors \/ r.slots[n] < 0
  <2>1. ASSUME n # MaxNeighbors PROVE r.slots[n] < 0
    <3>1. n \in Slots /\ ~(n < n)
      BY <1>1, <2>1 DEF Slots
    <3>2. QED
      BY <1>4, <3>1
  <2>2. QED
    BY <2>1
<1> DEFINE First(c) == (\A s \in 0 .. (c - 1) : r.slots[s] >= 0) /\ (c = MaxNeighbors \/ r.slots[c] < 0)
<1>8. First(n)
  BY <1>6, <1>7
<1>9. ASSUME NEW c \in 0 .. MaxNeighbors, First(c) PROVE c = n
  <2>1. CASE c < n
    <3>1. c \in 0 .. (n - 1) /\ c # MaxNeighbors
      BY <1>1, <2>1
    <3>2. r.slots[c] \in Int /\ r.slots[c] >= 0
      <4>1. r.slots[c] \in Atoms(a)
        BY <1>2, <1>6, <3>1
      <4>2. QED
        BY <1>6, <3>1, <4>1 DEF Atoms
    <3>3. QED
      BY <1>9, <3>1, <3>2
  <2>2. CASE n < c
    <3>1. n \in 0 .. (c - 1) /\ n # MaxNeighbors /\ n \in Slots /\ ~(n < n)
      BY <1>1, <2>2 DEF Slots
    <3>2. r.slots[n] = -1
      BY <1>4, <3>1
    <3>3. r.slots[n] >= 0
      BY <1>9, <3>1
    <3>4. QED
      BY <3>2, <3>3
  <2>3. QED
    BY <1>1, <2>1, <2>2
<1>10. NeighborCount(r) = CHOOSE c \in 0 .. MaxNeighbors : First(c)
  BY DEF NeighborCount
<1>11. NeighborCount(r) = n
  <2> HIDE DEF First
  <2>1. QED
    BY <1>1, <1>8, <1>9, <1>10
<1>12. QED
  BY <1>1, <1>2, <1>6, <1>11 DEF r, n

----------------------------------------------------------------------------
(* The compact arrays the loader makes *)

\* Offsets are sums of the counts before them.
Sums(f, counts, n) ==
    /\ f \in [0 .. n -> Nat]
    /\ f[0] = 0
    /\ \A i \in 0 .. (n - 1) : f[i + 1] = f[i] + counts[i]

\* CompactOffsets is what its recursion says.
LEMMA OffsetsDefined ==
    ASSUME NEW n \in Nat, NEW counts \in [0 .. (n - 1) -> Nat]
    PROVE  Sums(CompactOffsets(counts, n), counts, n)
<1> DEFINE Body(f, i) == IF i = 0 THEN 0 ELSE f[i - 1] + counts[i - 1]
           Defined(f, b) == f = [i \in 0 .. b |-> Body(f, i)]
           G == {b \in Nat : \E f : Defined(f, b)}
<1>1. 0 \in G
  <2> DEFINE f == [i \in 0 .. 0 |-> 0]
  <2>1. f = [i \in 0 .. 0 |-> Body(f, i)]
    OBVIOUS
  <2>2. QED
    BY <2>1
<1>2. ASSUME NEW b \in 1 .. n, b - 1 \in G
      PROVE  b \in G
  <2>1. PICK f : Defined(f, b - 1)
    BY <1>2
  <2> DEFINE g == [i \in 0 .. b |-> IF i = b THEN f[b - 1] + counts[b - 1] ELSE f[i]]
  <2>2. ASSUME NEW i \in 0 .. b PROVE g[i] = Body(g, i)
    <3>1. CASE i = b
      BY <3>1
    <3>2. CASE i # b
      <4>1. i \in 0 .. b - 1 /\ (i # 0 => i - 1 \in 0 .. b /\ i - 1 # b)
        BY <3>2
      <4>2. f[i] = Body(f, i)
        BY <2>1, <4>1
      <4>3. i # 0 => g[i - 1] = f[i - 1]
        BY <4>1
      <4>4. QED
        BY <3>2, <4>2, <4>3
    <3>3. QED
      BY <3>1, <3>2
  <2>3. g = [i \in 0 .. b |-> g[i]]
    OBVIOUS
  <2>4. g = [i \in 0 .. b |-> Body(g, i)]
    BY <2>2, <2>3
  <2>5. b \in Nat /\ \E h : Defined(h, b)
    <3> HIDE DEF g
    <3>1. QED
      BY <2>4
  <2>6. QED
    BY <2>5
<1>3. \E f : Defined(f, n)
  <2>1. n \in G
    <3> HIDE DEF G
    <3>1. 0 .. n \subseteq G
      BY <1>1, <1>2, Induction
    <3>2. QED
      BY <3>1
  <2>2. QED
    BY <2>1
<1>4. PICK f : f = CompactOffsets(counts, n)
  OBVIOUS
<1>5. Defined(f, n)
  BY <1>3, <1>4 DEF CompactOffsets
<1>6. \A i \in 0 .. n : f[i] = Body(f, i)
  <2>1. f = [i \in 0 .. n |-> Body(f, i)]
    BY <1>5
  <2> HIDE DEF Body
  <2>2. QED
    BY <2>1
<1>7. f[0] = 0
  BY <1>6
<1>8. \A i \in 0 .. (n - 1) : f[i + 1] = f[i] + counts[i]
  BY <1>6
<1>9. \A i \in 0 .. n : f[i] \in Nat
  <2> DEFINE H == {i \in Nat : i \in 0 .. n => f[i] \in Nat}
  <2>1. 0 \in H
    BY <1>7
  <2>2. ASSUME NEW i \in 1 .. n, i - 1 \in H PROVE i \in H
    <3>1. i - 1 \in 0 .. (n - 1) /\ (i - 1) + 1 = i
      OBVIOUS
    <3>2. f[i - 1] \in Nat /\ counts[i - 1] \in Nat
      BY <2>2, <3>1
    <3>3. f[i] = f[i - 1] + counts[i - 1]
      BY <1>8, <3>1
    <3>4. QED
      BY <3>2, <3>3
  <2> HIDE DEF H
  <2>3. 0 .. n \subseteq H
    BY <2>1, <2>2, Induction
  <2>4. QED
    BY <2>3 DEF H
<1>10. f \in [0 .. n -> Nat]
  <2>1. f = [i \in 0 .. n |-> f[i]]
    BY <1>5
  <2>2. QED
    BY <1>9, <2>1
<1>11. QED
  BY <1>4, <1>7, <1>8, <1>10 DEF Sums

\* The neighbours of one atom end before those of later atoms begin.
LEMMA SumsRise ==
    ASSUME NEW n \in Nat, NEW counts \in [0 .. (n - 1) -> Nat], NEW f, Sums(f, counts, n),
           NEW i \in 0 .. (n - 1), NEW j \in 0 .. n, i < j
    PROVE  f[i] + counts[i] <= f[j]
<1> DEFINE H == {k \in Nat : i + 1 + k <= n => f[i] + counts[i] <= f[i + 1 + k]}
<1>1. 0 \in H
  <2>1. f[i + 1] = f[i] + counts[i] /\ f[i] \in Nat /\ counts[i] \in Nat
    BY DEF Sums
  <2>2. i + 1 + 0 = i + 1
    OBVIOUS
  <2>3. QED
    BY <2>1, <2>2
<1>2. ASSUME NEW k \in 1 .. n, k - 1 \in H PROVE k \in H
  <2>1. SUFFICES ASSUME i + 1 + k <= n PROVE f[i] + counts[i] <= f[i + 1 + k]
    OBVIOUS
  <2>2. i + k \in 0 .. (n - 1) /\ i + 1 + (k - 1) = i + k /\ i + 1 + k = (i + k) + 1
    BY <2>1
  <2>3. f[i] + counts[i] <= f[i + k]
    BY <1>2, <2>1, <2>2
  <2>4. f[i + 1 + k] = f[i + k] + counts[i + k]
    BY <2>2 DEF Sums
  <2>5. f[i] \in Nat /\ counts[i] \in Nat /\ f[i + k] \in Nat /\ counts[i + k] \in Nat
    BY <2>2 DEF Sums
  <2>6. QED
    BY <2>3, <2>4, <2>5
<1> HIDE DEF H
<1>3. 0 .. n \subseteq H
  BY <1>1, <1>2, Induction
<1>4. PICK k \in 0 .. n : i + 1 + k = j
  <2>1. j - i - 1 \in 0 .. n /\ i + 1 + (j - i - 1) = j
    OBVIOUS
  <2>2. QED
    BY <2>1
<1>5. i + 1 + k <= n => f[i] + counts[i] <= f[i + 1 + k]
  BY <1>3 DEF H
<1>6. QED
  BY <1>4, <1>5

Counted(t, n) == [i \in 0 .. (n - 1) |-> NeighborCount(RowOf(t, i))]
Offsets(t, n) == CompactOffsets(Counted(t, n), n)
Owner(t, n, k) ==
    CHOOSE i \in 0 .. (n - 1) : Offsets(t, n)[i] <= k /\ k < Offsets(t, n)[i] + Counted(t, n)[i]
Indices(t, n) ==
    [k \in 0 .. (Offsets(t, n)[n] - 1) |-> RowOf(t, Owner(t, n, k)).slots[k - Offsets(t, n)[Owner(t, n, k)]]]

\* The arrays of a context are those of a table.
Loaded(c, t, n) ==
    /\ c.counts = Counted(t, n) /\ c.offsets = Offsets(t, n) /\ c.indices = Indices(t, n)
    /\ c.vectors = [i \in 0 .. (n - 1) |-> RowOf(t, i).vectors]

\* Slot s of atom i lies at its place in the arrays.
LEMMA SlotFound ==
    ASSUME NEW n \in Nat, NEW t, Counted(t, n) \in [0 .. (n - 1) -> Nat],
           NEW i \in 0 .. (n - 1), NEW s \in 0 .. (Counted(t, n)[i] - 1)
    PROVE  Indices(t, n)[Offsets(t, n)[i] + s] = RowOf(t, i).slots[s]
<1>c. PICK counts : counts = Counted(t, n)
  OBVIOUS
<1>f. PICK f : f = Offsets(t, n)
  OBVIOUS
<1>1. Sums(f, counts, n) /\ counts \in [0 .. (n - 1) -> Nat]
  BY <1>c, <1>f, OffsetsDefined DEF Offsets
<1>2. f[i] \in Nat /\ counts[i] \in Nat /\ s \in 0 .. (counts[i] - 1) /\ f[n] \in Nat
  BY <1>1, <1>c DEF Sums
<1>k. PICK k : k = f[i] + s
  OBVIOUS
<1>3. k \in 0 .. (f[n] - 1)
  <2>1. f[i] + counts[i] <= f[n]
    <3>1. n \in 0 .. n /\ i < n
      OBVIOUS
    <3>2. QED
      BY <1>1, <3>1, SumsRise
  <2>2. QED
    BY <1>2, <1>k, <2>1
<1> DEFINE Holds(j) == f[j] <= k /\ k < f[j] + counts[j]
<1>4. Holds(i)
  BY <1>2, <1>k
<1>5. ASSUME NEW j \in 0 .. (n - 1), Holds(j) PROVE j = i
  <2>0. f[j] \in Nat /\ counts[j] \in Nat /\ i \in 0 .. n /\ j \in 0 .. n
    BY <1>1 DEF Sums
  <2>1. CASE i < j
    <3>1. f[i] + counts[i] <= f[j]
      BY <1>1, <2>0, <2>1, SumsRise
    <3>2. QED
      BY <1>2, <1>4, <1>5, <1>k, <2>0, <3>1
  <2>2. CASE j < i
    <3>1. f[j] + counts[j] <= f[i]
      BY <1>1, <2>0, <2>2, SumsRise
    <3>2. QED
      BY <1>2, <1>4, <1>5, <1>k, <2>0, <3>1
  <2>3. QED
    BY <2>1, <2>2
<1>6. Owner(t, n, k) = CHOOSE j \in 0 .. (n - 1) : Holds(j)
  BY <1>c, <1>f DEF Owner
<1>7. Owner(t, n, k) = i
  <2> HIDE DEF Holds
  <2>1. QED
    BY <1>4, <1>5, <1>6
<1>8. Indices(t, n)[k] = RowOf(t, Owner(t, n, k)).slots[k - f[Owner(t, n, k)]]
  BY <1>3, <1>f DEF Indices
<1>9. k - f[i] = s
  BY <1>2, <1>k
<1>10. QED
  BY <1>7, <1>8, <1>9, <1>f, <1>k

\* What a context holds of the neighbours of an atom is what the analysis the
\* table is from held.
LEMMA ListLoaded ==
    ASSUME NEW a \in Analyses, NEW c, Loaded(c, NeighborTopology(a), a.natoms), NEW i \in Atoms(a)
    PROVE  /\ NeighborList(c, i) = NeighborList(a, i)
           /\ NeighborList(a, i) \in Seq(Atoms(a))
           /\ Len(NeighborList(a, i)) = CountOf(a, i)
<1> DEFINE t == NeighborTopology(a)
           n == a.natoms
<1>0. n \in Nat /\ Atoms(a) = 0 .. (n - 1) /\ [j \in Atoms(a) |-> CountOf(a, j)] # Null
  BY NeighborsStored DEF Atoms
<1>1. \A j \in Atoms(a) : CountOf(a, j) \in Nat /\ NeighborCount(RowOf(t, j)) = CountOf(a, j)
  BY CountKept, NullAssumption
<1> HIDE DEF t
<1>2. Counted(t, n) = [j \in Atoms(a) |-> CountOf(a, j)]
  BY <1>0, <1>1 DEF Counted
<1> HIDE DEF n
<1>3. Counted(t, n) \in [0 .. (n - 1) -> Nat] /\ Counted(t, n)[i] = CountOf(a, i)
  BY <1>0, <1>1, <1>2
<1>4. c.counts # Null /\ c.counts[i] = CountOf(a, i) /\ c.indices = Indices(t, n) /\ c.offsets = Offsets(t, n)
  BY <1>0, <1>2, <1>3 DEF Loaded, t, n
<1>5. NeighborList(c, i) = [s \in 1 .. CountOf(a, i) |-> c.indices[c.offsets[i] + (s - 1)]]
  BY <1>4 DEF NeighborList
<1>6. CountOf(a, i) \in Nat
  BY <1>1
<1>7. ASSUME NEW s \in 1 .. CountOf(a, i)
      PROVE  /\ c.indices[c.offsets[i] + (s - 1)] = a.indices[a.offsets[i] + (s - 1)]
             /\ a.indices[a.offsets[i] + (s - 1)] \in Atoms(a)
  <2>1. s - 1 \in 0 .. (CountOf(a, i) - 1)
    BY <1>6
  <2>2. Indices(t, n)[Offsets(t, n)[i] + (s - 1)] = RowOf(t, i).slots[s - 1]
    BY <1>0, <1>3, <2>1, SlotFound
  <2>3. RowOf(t, i).slots[s - 1] = a.indices[a.offsets[i] + (s - 1)] /\ a.indices[a.offsets[i] + (s - 1)] \in Atoms(a)
    BY <2>1, CountKept DEF t
  <2>4. QED
    BY <1>4, <2>1, <2>2, <2>3
<1>8. NeighborList(c, i) = [s \in 1 .. CountOf(a, i) |-> a.indices[a.offsets[i] + (s - 1)]]
  BY <1>5, <1>7
<1>9. NeighborList(c, i) \in Seq(Atoms(a)) /\ Len(NeighborList(c, i)) = CountOf(a, i)
  BY <1>6, <1>7, <1>8
<1>10. NeighborList(a, i) = NeighborList(c, i)
  <2>1. CASE a.counts = Null
    <3>1. CountOf(a, i) = 0 /\ NeighborList(a, i) = <<>>
      BY <2>1 DEF CountOf, NeighborList
    <3>2. QED
      BY <1>9, <3>1
  <2>2. CASE a.counts # Null
    <3>1. NeighborList(a, i) = [s \in 1 .. CountOf(a, i) |-> a.indices[a.offsets[i] + (s - 1)]]
      BY <2>2 DEF CountOf, NeighborList
    <3>2. QED
      BY <1>8, <3>1
  <2>3. QED
    BY <2>1, <2>2
<1>11. QED
  BY <1>9, <1>10

----------------------------------------------------------------------------
(* The invariant *)

\* A clusters table that can be read lists the clusters from 1 on, up to where
\* its tail was lost.
Numbered(c) == \E n \in Nat : c = [k \in 1 .. n |-> k]
Readable(t) == t \notin {Null, Spoiled}

\* What the files hold.
FilesSound ==
    /\ files = [f \in Files |-> files[f]]
    /\ Readable(files["clusters"]) => Numbered(files["clusters"])
    /\ Readable(files["links"]) => \E n \in Nat : DOMAIN files["links"] = 1 .. n
    /\ Readable(files["neighbors"]) => \E a \in Analyses : files["neighbors"] = NeighborTopology(a)

\* The outputs the result names before output f is written.
NamedBefore(f) ==
    CASE f = "dump" -> {}
      [] f = "clusters" -> {"dump"}
      [] f = "links" -> {"dump"}
      [] f = "neighbors" -> {"dump", "clusters", "links"}

\* How far an export is.
ExportSound ==
    /\ job \in Analyses \cup {Null}
    /\ job # Null => /\ next \in Files /\ (next # "dump" => base)
                     /\ result = NamedBefore(next)
                     /\ intact = Null

\* Outputs are intact when all of them were written, and until one is touched.
IntactSound ==
    /\ intact # Null => /\ intact \in Analyses /\ result = Files
                        /\ \A f \in Files : files[f] = Content(intact, f)
    /\ source # Null => source = intact

\* A graph begins with cluster 1, and its transitions join clusters it has.
GraphSound(g) ==
    /\ g = [clusters |-> g.clusters, links |-> g.links]
    /\ g.clusters # {} => 1 \in g.clusters
    /\ \A l \in g.links : {l[1], l[2]} \subseteq g.clusters

\* How far a load is, and that it leaves the graph alone before the last stage.
LoadSound ==
    /\ stage \in {"idle", "frame", "neighbors", "graph"}
    /\ verdict \in BOOLEAN \cup {Null}
    /\ stage # "idle" => verdict = Null /\ context.graph = before
    /\ context = [types |-> context.types, clusterOf |-> context.clusterOf,
                  counts |-> context.counts, offsets |-> context.offsets,
                  indices |-> context.indices, vectors |-> context.vectors,
                  graph |-> context.graph]
    /\ GraphSound(context.graph) /\ GraphSound(before)

Accepted == stage = "idle" /\ verdict = TRUE

\* The rows of the analysis the table is from, and what was made of them.
TableSound ==
    stage = "graph" \/ Accepted =>
        /\ \E a \in Analyses : table = NeighborTopology(a)
        /\ Cardinality(DOMAIN table.rows) = frame.natoms
        /\ IdsAgree(table)
        /\ Loaded(context, table, frame.natoms)

\* A load of outputs that are intact is a load of these, and it succeeds unless
\* there are clusters already.
SourceSound ==
    source # Null =>
        /\ stage # "idle" \/ verdict # Null => frame = ExportContext(source) /\ paths = Files
        /\ stage \in {"neighbors", "graph"} \/ Accepted =>
              context.types = source.types /\ context.clusterOf = ExportContext(source).clusterOf
        /\ stage = "graph" \/ Accepted => table = NeighborTopology(source)
        /\ stage = "idle" /\ verdict # Null =>
              IF before.clusters = {} \/ source.clusters = {}
              THEN verdict = TRUE /\ (source.clusters # {} =>
                       context.graph = [clusters |-> source.clusters, links |-> source.links])
              ELSE verdict = FALSE

IInv ==
    /\ FilesSound /\ ExportSound /\ IntactSound
    /\ LoadSound /\ TableSound /\ SourceSound /\ OneImport

\* What an analysis writes may lie in a file.
LEMMA ContentSound ==
    ASSUME NEW a \in Analyses
    PROVE  /\ Numbered(ClusterRows(a))
           /\ \E n \in Nat : DOMAIN LinkRows(a) = 1 .. n
           /\ \A f \in Files : Content(a, f) \notin {Null, Spoiled}
<1>1. Numbered(ClusterRows(a))
  BY ClusterRowsNumbered DEF Numbered
<1>2. \E n \in Nat : DOMAIN LinkRows(a) = 1 .. n
  BY LinkRowsListed
<1>3. QED
  BY <1>1, <1>2, DumpsWritten

LEMMA Contents ==
    ASSUME NEW a
    PROVE  /\ Content(a, "dump") = ExportContext(a)
           /\ Content(a, "clusters") = ClusterRows(a)
           /\ Content(a, "links") = LinkRows(a)
           /\ Content(a, "neighbors") = NeighborTopology(a)
BY DEF Content

\* A file is replaced by what may lie there.
LEMMA FileReplaced ==
    ASSUME FilesSound, NEW f \in Files, NEW c, files' = [files EXCEPT ![f] = c],
           Readable(c) => /\ f = "clusters" => Numbered(c)
                          /\ f = "links" => \E n \in Nat : DOMAIN c = 1 .. n
                          /\ f = "neighbors" => \E a \in Analyses : c = NeighborTopology(a)
    PROVE  FilesSound' /\ files'[f] = c /\ \A g \in Files \ {f} : files'[g] = files[g]
<1>1. PICK old : old = files
  OBVIOUS
<1>2. old = [g \in Files |-> old[g]]
  BY <1>1 DEF FilesSound
<1>3. PICK new : new = files'
  OBVIOUS
<1>4. new = [g \in Files |-> new[g]] /\ new[f] = c /\ \A g \in Files \ {f} : new[g] = old[g]
  BY <1>1, <1>2, <1>3
<1>5. \A g \in Files \ {f} : new[g] = files[g]
  BY <1>1, <1>4
<1>6. Readable(new["clusters"]) => Numbered(new["clusters"])
  BY <1>4, <1>5 DEF FilesSound, Files
<1>7. Readable(new["links"]) => \E n \in Nat : DOMAIN new["links"] = 1 .. n
  BY <1>4, <1>5 DEF FilesSound, Files
<1>8. Readable(new["neighbors"]) => \E a \in Analyses : new["neighbors"] = NeighborTopology(a)
  BY <1>4, <1>5 DEF FilesSound, Files
<1>9. FilesSound'
  BY <1>3, <1>4, <1>6, <1>7, <1>8 DEF FilesSound, Readable
<1>10. QED
  BY <1>3, <1>4, <1>5, <1>9

\* What an export does leaves alone what a load knows, and a load in turn.
LEMMA LoaderKept ==
    ASSUME IInv, UNCHANGED loader, source' \in {source, Null}
    PROVE  LoadSound' /\ TableSound' /\ SourceSound' /\ OneImport'
<1>1. LoadSound' /\ TableSound' /\ OneImport'
  BY DEF IInv, loader, LoadSound, TableSound, OneImport, Accepted, IdsAgree, Loaded, GraphSound
<1>2. SourceSound'
  BY DEF IInv, loader, SourceSound, Accepted
<1>3. QED
  BY <1>1, <1>2

LEMMA ExporterKept ==
    ASSUME IInv, UNCHANGED <<files, exporter, intact>>, source' \in {source, intact}
    PROVE  FilesSound' /\ ExportSound' /\ IntactSound'
BY DEF IInv, exporter, FilesSound, ExportSound, IntactSound, Readable

----------------------------------------------------------------------------
(* The steps of an export *)

LEMMA InitSound ==
    ASSUME Init
    PROVE  IInv
<1>1. FilesSound
  BY DEF Init, FilesSound, Readable, Files
<1>2. ExportSound /\ IntactSound
  BY DEF Init, ExportSound, IntactSound
<1>3. GraphSound(NoGraph)
  BY DEF GraphSound, NoGraph
<1>4. verdict # TRUE
  BY NullAssumption DEF Init
<1>5. LoadSound
  BY <1>3 DEF Init, LoadSound, NoContext
<1>6. TableSound /\ SourceSound /\ OneImport
  BY <1>4 DEF Init, TableSound, SourceSound, OneImport, Accepted
<1>7. QED
  BY <1>1, <1>2, <1>5, <1>6 DEF IInv

LEMMA BeginExportSound ==
    ASSUME IInv, NEW a \in Analyses, BeginExport(a)
    PROVE  IInv'
<1>1. FilesSound'
  BY DEF IInv, BeginExport, FilesSound, Readable
<1>2. ExportSound'
  BY DEF IInv, BeginExport, ExportSound, NamedBefore, Files
<1>3. IntactSound'
  BY DEF BeginExport, IntactSound
<1>4. LoadSound' /\ TableSound' /\ SourceSound' /\ OneImport'
  BY LoaderKept DEF BeginExport
<1>5. QED
  BY <1>1, <1>2, <1>3, <1>4 DEF IInv

\* The next output, and what the result names by then.
LEMMA AfterNext ==
    ASSUME IInv, job # Null
    PROVE  /\ next \in Files /\ intact = Null /\ source = Null /\ job \in Analyses
           /\ After(next) # Null => /\ After(next) \in Files /\ base
                                    /\ result \cup Named(next) = NamedBefore(After(next))
           /\ After(next) = Null /\ base => result \cup Named(next) = Files
<1>1. next \in Files /\ intact = Null /\ source = Null /\ job \in Analyses
  BY DEF IInv, ExportSound, IntactSound
<1>2. result = NamedBefore(next) /\ (next # "dump" => base)
  BY DEF IInv, ExportSound
<1>3. Null \notin Files
  BY NullAssumption
<1>4. CASE next = "dump"
  <2>1. CASE base
    BY <1>1, <1>2, <1>3, <1>4, <2>1 DEF After, Named, NamedBefore, Files
  <2>2. CASE ~base
    BY <1>1, <1>2, <1>3, <1>4, <2>2 DEF After, Named, NamedBefore, Files
  <2>3. QED
    BY <2>1, <2>2
<1>5. CASE next = "clusters"
  BY <1>1, <1>2, <1>3, <1>5 DEF After, Named, NamedBefore, Files
<1>6. CASE next = "links"
  BY <1>1, <1>2, <1>3, <1>6 DEF After, Named, NamedBefore, Files
<1>7. CASE next = "neighbors"
  BY <1>1, <1>2, <1>3, <1>7 DEF After, Named, NamedBefore, Files
<1>8. QED
  BY <1>1, <1>4, <1>5, <1>6, <1>7 DEF Files

LEMMA WriteSound ==
    ASSUME IInv, Write
    PROVE  IInv'
<1>1. job # Null
  BY DEF Write
<1>2. /\ next \in Files /\ intact = Null /\ source = Null /\ job \in Analyses
      /\ After(next) # Null => /\ After(next) \in Files /\ base
                               /\ result \cup Named(next) = NamedBefore(After(next))
      /\ After(next) = Null /\ base => result \cup Named(next) = Files
  BY <1>1, AfterNext
<1>3. PICK c : c = Content(job, next)
  OBVIOUS
<1>4. /\ next = "clusters" => Numbered(c)
      /\ next = "links" => \E n \in Nat : DOMAIN c = 1 .. n
      /\ next = "neighbors" => \E a \in Analyses : c = NeighborTopology(a)
  BY <1>2, <1>3, Contents, ContentSound
<1>5. files' = [files EXCEPT ![next] = c]
  BY <1>3 DEF Write
<1>6. FilesSound' /\ files'[next] = c /\ \A g \in Files \ {next} : files'[g] = files[g]
  BY <1>2, <1>4, <1>5, FileReplaced DEF IInv
<1>7. ExportSound'
  <2>1. job' \in Analyses \cup {Null} /\ base' = base
    BY <1>2 DEF Write
  <2>2. ASSUME job' # Null
        PROVE  next' \in Files /\ base' /\ result' = NamedBefore(next') /\ intact' = Null
    <3>1. After(next) # Null
      BY <2>2 DEF Write
    <3>2. next' = After(next) /\ result' = result \cup Named(next) /\ intact' = Null
      BY <3>1 DEF Write
    <3>3. QED
      BY <1>2, <2>1, <3>1, <3>2
  <2>3. QED
    BY <2>1, <2>2 DEF ExportSound
<1>8. IntactSound'
  <2>1. source' = Null
    BY <1>2 DEF Write
  <2>2. ASSUME intact' # Null
        PROVE  intact' \in Analyses /\ result' = Files /\ \A f \in Files : files'[f] = Content(intact', f)
    <3>1. /\ intact' = job /\ After(next) = Null /\ base
          /\ \A f \in Files \ {next} : files[f] = Content(job, f)
      BY <2>2 DEF Write
    <3>2. result' = result \cup Named(next)
      BY DEF Write
    <3>3. \A f \in Files : files'[f] = Content(job, f)
      BY <1>3, <1>6, <3>1
    <3>4. QED
      BY <1>2, <3>1, <3>2, <3>3
  <2>3. QED
    BY <2>1, <2>2 DEF IntactSound
<1>9. LoadSound' /\ TableSound' /\ SourceSound' /\ OneImport'
  BY LoaderKept DEF Write
<1>10. QED
  BY <1>6, <1>7, <1>8, <1>9 DEF IInv

LEMMA LoseTailSound ==
    ASSUME IInv, LoseTail
    PROVE  IInv'
<1>1. job # Null /\ next \in {"clusters", "links"}
  BY DEF LoseTail
<1>2. /\ next \in Files /\ intact = Null /\ source = Null /\ job \in Analyses
      /\ After(next) # Null => /\ After(next) \in Files /\ base
                               /\ result \cup Named(next) = NamedBefore(After(next))
  BY <1>1, AfterNext
<1>3. PICK c : c = Content(job, next)
  OBVIOUS
<1>4. PICK kept \in 0 .. (Len(c) - 1) : files' = [files EXCEPT ![next] = SubSeq(c, 1, kept)]
  BY <1>3 DEF LoseTail
<1>5. \E n \in Nat : DOMAIN c = 1 .. n /\ (next = "clusters" => c = [k \in 1 .. n |-> k])
  <2>1. CASE next = "clusters"
    <3>1. c = ClusterRows(job)
      BY <1>3, <2>1, Contents
    <3>2. Numbered(c)
      BY <1>2, <3>1, ContentSound
    <3>3. QED
      BY <3>2 DEF Numbered
  <2>2. CASE next = "links"
    BY <1>2, <1>3, <2>2, Contents, ContentSound
  <2>3. QED
    BY <1>1, <2>1, <2>2
<1>6. PICK n \in Nat : DOMAIN c = 1 .. n /\ (next = "clusters" => c = [k \in 1 .. n |-> k])
  BY <1>5
<1>7. Len(c) = n
  BY <1>6
<1>8. kept \in Nat /\ kept < n
  BY <1>4, <1>7
<1>9. PICK d : d = SubSeq(c, 1, kept)
  OBVIOUS
<1>10. d = [k \in 1 .. kept |-> c[k]]
  BY <1>8, <1>9
<1>11. DOMAIN d = 1 .. kept /\ (next = "clusters" => Numbered(d))
  <2>1. ASSUME next = "clusters" PROVE d = [k \in 1 .. kept |-> k]
    <3>1. \A k \in 1 .. kept : c[k] = k
      BY <1>6, <1>8, <2>1
    <3>2. QED
      BY <1>10, <3>1
  <2>2. QED
    BY <1>8, <1>10, <2>1 DEF Numbered
<1>12. FilesSound'
  BY <1>1, <1>2, <1>4, <1>8, <1>9, <1>11, FileReplaced DEF IInv
<1>13. After(next) # Null
  BY <1>1, NullAssumption DEF After, Files
<1>14. ExportSound'
  BY <1>2, <1>13 DEF IInv, ExportSound, LoseTail
<1>15. IntactSound'
  BY <1>2 DEF LoseTail, IntactSound
<1>16. LoadSound' /\ TableSound' /\ SourceSound' /\ OneImport'
  BY LoaderKept DEF LoseTail
<1>17. QED
  BY <1>12, <1>14, <1>15, <1>16 DEF IInv

LEMMA WriteFailsSound ==
    ASSUME IInv, WriteFails
    PROVE  IInv'
<1>1. job # Null
  BY DEF WriteFails
<1>2. next \in Files /\ intact = Null /\ source = Null
  BY <1>1, AfterNext
<1>3. FilesSound'
  <2>1. CASE files' = [files EXCEPT ![next] = Spoiled]
    <3>1. ~Readable(Spoiled)
      BY DEF Readable
    <3>2. QED
      BY <1>2, <2>1, <3>1, FileReplaced DEF IInv
  <2>2. CASE UNCHANGED files
    BY <2>2 DEF IInv, FilesSound, Readable
  <2>3. QED
    BY <2>1, <2>2 DEF WriteFails
<1>4. ExportSound' /\ IntactSound'
  BY <1>2 DEF WriteFails, ExportSound, IntactSound
<1>5. LoadSound' /\ TableSound' /\ SourceSound' /\ OneImport'
  BY LoaderKept DEF WriteFails
<1>6. QED
  BY <1>3, <1>4, <1>5 DEF IInv

LEMMA RewriteDumpSound ==
    ASSUME IInv, RewriteDump
    PROVE  IInv'
<1>1. PICK e : files' = [files EXCEPT !["dump"] = e]
  BY DEF RewriteDump
<1>2. FilesSound'
  BY <1>1, FileReplaced DEF IInv, Files
<1>3. ExportSound' /\ IntactSound'
  BY DEF IInv, RewriteDump, ExportSound, IntactSound, exporter
<1>4. LoadSound' /\ TableSound' /\ SourceSound' /\ OneImport'
  BY LoaderKept DEF RewriteDump
<1>5. QED
  BY <1>2, <1>3, <1>4 DEF IInv

----------------------------------------------------------------------------
(* The stages of a load *)

LEMMA BeginLoadSound ==
    ASSUME IInv, BeginLoad
    PROVE  IInv'
<1>1. FilesSound' /\ ExportSound' /\ IntactSound'
  BY ExporterKept DEF BeginLoad
<1>2. stage' = "frame" /\ verdict' = Null /\ verdict' # TRUE
  BY NullAssumption DEF BeginLoad
<1>3. LoadSound'
  <2>1. GraphSound(NoContext.graph)
    BY DEF GraphSound, NoGraph, NoContext
  <2>2. PICK c : c = context'
    OBVIOUS
  <2>3. c = NoContext \/ c = context
    BY <2>2 DEF BeginLoad
  <2>4. /\ c = [types |-> c.types, clusterOf |-> c.clusterOf, counts |-> c.counts, offsets |-> c.offsets,
                indices |-> c.indices, vectors |-> c.vectors, graph |-> c.graph]
        /\ GraphSound(c.graph)
    <3>1. CASE c = NoContext
      BY <2>1, <3>1 DEF NoContext
    <3>2. CASE c = context
      BY <3>2 DEF IInv, LoadSound
    <3>3. QED
      BY <2>3, <3>1, <3>2
  <2>5. before' = c.graph
    BY <2>2 DEF BeginLoad
  <2>6. QED
    BY <1>2, <2>2, <2>4, <2>5 DEF LoadSound, GraphSound
<1>4. TableSound' /\ OneImport'
  BY <1>2 DEF TableSound, OneImport, Accepted
<1>5. SourceSound'
  <2>1. SUFFICES ASSUME source' # Null PROVE frame' = ExportContext(source') /\ paths' = Files
    BY <1>2 DEF SourceSound, Accepted
  <2>2. source' = intact /\ intact # Null
    BY <2>1 DEF BeginLoad
  <2>3. result = Files /\ files["dump"] = Content(intact, "dump")
    BY <2>2 DEF IInv, IntactSound, Files
  <2>4. frame' = files["dump"] /\ paths' \in {result, Files}
    BY DEF BeginLoad
  <2>5. QED
    BY <2>2, <2>3, <2>4, Contents
<1>6. QED
  BY <1>1, <1>3, <1>4, <1>5 DEF IInv

\* The dump of an analysis is never refused.
LEMMA DumpAccepted ==
    ASSUME NEW a \in Analyses
    PROVE  /\ ExportContext(a).types = a.types /\ a.types # Null
           /\ Integral(ExportContext(a).types) /\ Integral(ExportContext(a).clusterOf)
BY DumpsWritten DEF ExportContext, Integral

LEMMA LoadStructureAndClusterSound ==
    ASSUME IInv, LoadStructureAndCluster
    PROVE  IInv'
<1>1. FilesSound' /\ ExportSound' /\ IntactSound'
  BY ExporterKept DEF LoadStructureAndCluster
<1>2. stage = "frame" /\ verdict = Null /\ context.graph = before
  BY DEF IInv, LoadSound, LoadStructureAndCluster
<1> DEFINE typesRead == frame.types # Null /\ Integral(frame.types)
           refused == (frame.types # Null /\ ~typesRead) \/ ~Integral(frame.clusterOf)
<1>3. PICK c : c = context'
  OBVIOUS
<1>4. c = [context EXCEPT !.types = IF typesRead THEN frame.types ELSE @,
                          !.clusterOf = IF refused THEN @ ELSE frame.clusterOf]
  BY <1>3 DEF LoadStructureAndCluster
<1>5. IF refused THEN stage' = "idle" /\ verdict' = FALSE ELSE stage' = "neighbors" /\ verdict' = Null
  BY <1>2 DEF LoadStructureAndCluster, Return
<1>6. UNCHANGED <<frame, paths, before, table, rows, source>>
  BY DEF LoadStructureAndCluster
<1>7. verdict' # TRUE /\ verdict' \in BOOLEAN \cup {Null} /\ stage' \in {"idle", "neighbors"}
  BY <1>5, NullAssumption
<1> HIDE DEF refused, typesRead
<1>8. /\ c = [types |-> c.types, clusterOf |-> c.clusterOf, counts |-> c.counts, offsets |-> c.offsets,
              indices |-> c.indices, vectors |-> c.vectors, graph |-> c.graph]
      /\ c.graph = context.graph
      /\ typesRead => c.types = frame.types
      /\ ~refused => c.clusterOf = frame.clusterOf
  <2>1. context = [types |-> context.types, clusterOf |-> context.clusterOf,
                   counts |-> context.counts, offsets |-> context.offsets,
                   indices |-> context.indices, vectors |-> context.vectors, graph |-> context.graph]
    BY DEF IInv, LoadSound
  <2>2. QED
    BY <1>4, <2>1
<1>9. LoadSound'
  <2>1. GraphSound(c.graph) /\ GraphSound(before)
    BY <1>8 DEF IInv, LoadSound
  <2>2. stage' # "idle" => verdict' = Null
    BY <1>5
  <2>3. QED
    BY <1>2, <1>3, <1>6, <1>7, <1>8, <2>1, <2>2 DEF LoadSound, GraphSound
<1>10. TableSound' /\ OneImport'
  BY <1>7 DEF TableSound, OneImport, Accepted
<1>11. SourceSound'
  <2>1. SUFFICES ASSUME source # Null PROVE SourceSound'
    BY <1>6 DEF SourceSound
  <2>2. source \in Analyses /\ frame = ExportContext(source) /\ paths = Files
    BY <1>2, <2>1 DEF IInv, SourceSound, IntactSound
  <2>3. typesRead /\ ~refused /\ frame.types = source.types
    BY <2>2, DumpAccepted DEF typesRead, refused
  <2>4. stage' = "neighbors"
    BY <1>5, <2>3
  <2>5. context'.types = source.types /\ context'.clusterOf = ExportContext(source).clusterOf
    BY <1>3, <1>8, <2>2, <2>3
  <2>6. QED
    BY <1>6, <2>2, <2>4, <2>5 DEF SourceSound, Accepted
<1>12. QED
  BY <1>1, <1>9, <1>10, <1>11 DEF IInv

\* What assembling leaves in the context.
LEMMA AssembledIs ==
    ASSUME IInv, NEW t, NEW n, NEW c, c = Assembled(t, n)
    PROVE  /\ Loaded(c, t, n)
           /\ c = [types |-> c.types, clusterOf |-> c.clusterOf, counts |-> c.counts, offsets |-> c.offsets,
                   indices |-> c.indices, vectors |-> c.vectors, graph |-> c.graph]
           /\ c.graph = context.graph /\ c.types = context.types /\ c.clusterOf = context.clusterOf
<1>1. c = [context EXCEPT !.counts = Counted(t, n), !.offsets = Offsets(t, n), !.indices = Indices(t, n),
                          !.vectors = [i \in 0 .. (n - 1) |-> RowOf(t, i).vectors]]
  BY DEF Assembled, Counted, Offsets, Indices, Owner
<1>2. context = [types |-> context.types, clusterOf |-> context.clusterOf,
                 counts |-> context.counts, offsets |-> context.offsets,
                 indices |-> context.indices, vectors |-> context.vectors, graph |-> context.graph]
  BY DEF IInv, LoadSound
<1>3. QED
  BY <1>1, <1>2 DEF Loaded

\* The neighbour table of an analysis is not refused for its own dump.
LEMMA TableAccepted ==
    ASSUME NEW a \in Analyses
    PROVE  /\ Cardinality(DOMAIN NeighborTopology(a).rows) = a.natoms
           /\ \A i \in Atoms(a) : RowOf(NeighborTopology(a), i).id = AtomIds(a)[i]
<1>1. DOMAIN NeighborTopology(a).rows = 0 .. (a.natoms - 1)
  BY DEF NeighborTopology, Atoms
<1>2. a.natoms \in Nat
  BY NeighborsStored
<1>3. Cardinality(0 .. (a.natoms - 1)) = a.natoms
  BY <1>2, FS_Interval
<1>4. \A i \in Atoms(a) : RowOf(NeighborTopology(a), i).id = AtomIds(a)[i]
  BY RowOfAtom
<1>5. QED
  BY <1>1, <1>3, <1>4

LEMMA LoadNeighborTopologySound ==
    ASSUME IInv, LoadNeighborTopology
    PROVE  IInv'
<1>1. FilesSound' /\ ExportSound' /\ IntactSound'
  BY ExporterKept DEF LoadNeighborTopology
<1>2. stage = "neighbors" /\ verdict = Null /\ context.graph = before
  BY DEF IInv, LoadSound, LoadNeighborTopology
<1>3. UNCHANGED <<frame, paths, before, rows, source>>
  BY DEF LoadNeighborTopology
<1>t. PICK t : t = files["neighbors"]
  OBVIOUS
<1> DEFINE refused == \/ "neighbors" \notin paths
                      \/ t \in {Null, Spoiled}
                      \/ Cardinality(DOMAIN t.rows) # frame.natoms
                      \/ ~IdsAgree(t)
<1>4. IF refused THEN stage' = "idle" /\ verdict' = FALSE /\ UNCHANGED <<context, table>>
      ELSE stage' = "graph" /\ verdict' = Null /\ table' = t /\ context' = Assembled(t, frame.natoms)
  BY <1>2, <1>t DEF LoadNeighborTopology, Return
<1>5. ~refused => /\ "neighbors" \in paths /\ Readable(t) /\ Cardinality(DOMAIN t.rows) = frame.natoms
                  /\ IdsAgree(t)
  BY DEF Readable
<1>6. Readable(t) => \E a \in Analyses : t = NeighborTopology(a)
  BY <1>t DEF IInv, FilesSound
<1>7. SUFFICES LoadSound' /\ TableSound' /\ SourceSound' /\ OneImport'
  BY <1>1 DEF IInv
<1>8. source # Null => ~refused /\ t = NeighborTopology(source)
  <2>1. SUFFICES ASSUME source # Null PROVE ~refused /\ t = NeighborTopology(source)
    OBVIOUS
  <2>2. /\ source \in Analyses /\ frame = ExportContext(source) /\ paths = Files
        /\ files["neighbors"] = Content(source, "neighbors")
    BY <1>2, <2>1 DEF IInv, SourceSound, IntactSound, Files
  <2>3. t = NeighborTopology(source) /\ t \notin {Null, Spoiled}
    BY <1>t, <2>2, Contents, DumpsWritten DEF Files
  <2>4. frame.natoms = source.natoms /\ frame.ids = AtomIds(source)
    BY <2>2 DEF ExportContext
  <2>5. Cardinality(DOMAIN t.rows) = frame.natoms
    BY <2>2, <2>3, <2>4, TableAccepted
  <2>6. IdsAgree(t)
    BY <2>2, <2>3, <2>4, TableAccepted DEF IdsAgree, Atoms
  <2>7. "neighbors" \in paths
    BY <2>2 DEF Files
  <2>8. QED
    BY <2>3, <2>5, <2>6, <2>7
<1> HIDE DEF refused
<1>9. CASE refused
  <2>1. stage' = "idle" /\ verdict' = FALSE /\ UNCHANGED <<context, table>> /\ source = Null
    BY <1>4, <1>8, <1>9
  <2>2. verdict' # TRUE
    BY <2>1
  <2>3. LoadSound'
    BY <1>3, <2>1 DEF IInv, LoadSound, GraphSound
  <2>4. QED
    BY <1>3, <2>1, <2>2, <2>3 DEF TableSound, SourceSound, OneImport, Accepted
<1>10. CASE ~refused
  <2>1. stage' = "graph" /\ verdict' = Null /\ table' = t
    BY <1>4, <1>10
  <2>2. PICK c : c = context'
    OBVIOUS
  <2>3. c = Assembled(t, frame.natoms)
    BY <1>4, <1>10, <2>2
  <2>4. /\ Loaded(c, t, frame.natoms)
        /\ c = [types |-> c.types, clusterOf |-> c.clusterOf, counts |-> c.counts, offsets |-> c.offsets,
                indices |-> c.indices, vectors |-> c.vectors, graph |-> c.graph]
        /\ c.graph = context.graph /\ c.types = context.types /\ c.clusterOf = context.clusterOf
    BY <2>3, AssembledIs
  <2>5. LoadSound'
    <3>1. GraphSound(c.graph) /\ GraphSound(before)
      BY <2>4 DEF IInv, LoadSound
    <3>2. QED
      BY <1>2, <1>3, <2>1, <2>2, <2>4, <3>1 DEF LoadSound, GraphSound
  <2>6. TableSound'
    <3>1. (\E a \in Analyses : t = NeighborTopology(a)) /\ IdsAgree(t) /\ Cardinality(DOMAIN t.rows) = frame.natoms
      BY <1>5, <1>6, <1>10
    <3>2. IdsAgree(table)'
      BY <1>3, <2>1, <3>1 DEF IdsAgree
    <3>3. Loaded(context, table, frame.natoms)'
      BY <1>3, <2>1, <2>2, <2>4 DEF Loaded
    <3>4. QED
      BY <1>3, <2>1, <3>1, <3>2, <3>3 DEF TableSound
  <2>7. OneImport'
    BY <2>1 DEF OneImport
  <2>8. SourceSound'
    <3>1. SUFFICES ASSUME source # Null PROVE SourceSound'
      BY <1>3 DEF SourceSound
    <3>2. /\ frame = ExportContext(source) /\ paths = Files
          /\ context.types = source.types /\ context.clusterOf = ExportContext(source).clusterOf
      BY <1>2, <3>1 DEF IInv, SourceSound
    <3>3. context'.types = source.types /\ context'.clusterOf = ExportContext(source).clusterOf
      BY <2>2, <2>4, <3>2
    <3>4. table' = NeighborTopology(source)
      BY <1>8, <2>1, <3>1
    <3>5. QED
      BY <1>3, <2>1, <3>2, <3>3, <3>4 DEF SourceSound
  <2>9. QED
    BY <2>5, <2>6, <2>7, <2>8
<1>11. QED
  BY <1>9, <1>10

----------------------------------------------------------------------------
(* The graph that is imported *)

\* Without a duplicate a cluster is created for each row.
LEMMA CreatedAll ==
    ASSUME NEW g, NEW ids, ~DuplicateId(g, ids)
    PROVE  Created(g, ids) = IdsOf(ids)
BY DEF Created, IdsOf, DuplicateId

\* Transitions that are created join clusters that are there.
LEMMA KnownLinksClosed ==
    ASSUME NEW clusters, NEW links, NEW m \in Nat, DOMAIN links = 1 .. m,
           NEW l \in KnownLinks(clusters, links)
    PROVE  {l[1], l[2]} \subseteq clusters
<1> DEFINE unknown == {k \in DOMAIN links : ~({links[k][1], links[k][2]} \subseteq clusters)}
           made == {j \in DOMAIN links : \A u \in unknown : j < u}
<1>1. PICK k \in made : l = links[k] \/ l = <<links[k][2], links[k][1]>>
  BY DEF KnownLinks
<1>2. k \notin unknown
  BY <1>1
<1>3. {links[k][1], links[k][2]} \subseteq clusters
  BY <1>1, <1>2
<1>4. QED
  BY <1>1, <1>3

\* The table an analysis writes gives its transitions back, those it has in
\* both directions.
LEMMA LinksRestored ==
    ASSUME NEW a \in Analyses, NEW clusters, a.clusters \subseteq clusters
    PROVE  /\ \A k \in DOMAIN LinkRows(a) : {LinkRows(a)[k][1], LinkRows(a)[k][2]} \subseteq clusters
           /\ KnownLinks(clusters, LinkRows(a)) = a.links
<1>1. PICK n \in Nat : /\ LinkRows(a) \in [1 .. n -> KeptLinks(a)]
                       /\ \A l \in KeptLinks(a) : \E k \in 1 .. n : LinkRows(a)[k] = l
  BY LinkRowsListed
<1>2. a.clusters \subseteq Nat
  <2>1. Cardinality(a.clusters) \in Nat
    BY ClustersNumbered, FS_CardinalityType
  <2>2. a.clusters = 1 .. Cardinality(a.clusters)
    BY ClustersNumbered
  <2>3. QED
    BY <2>1, <2>2
<1>3. \A l \in a.links : /\ l = <<l[1], l[2]>> /\ l[1] \in a.clusters /\ l[2] \in a.clusters
                         /\ l[1] # l[2] /\ <<l[2], l[1]>> \in a.links
  <2>1. ASSUME NEW C, NEW l \in C \X C PROVE l = <<l[1], l[2]>> /\ l[1] \in C /\ l[2] \in C
    OBVIOUS
  <2>2. QED
    BY <2>1, LinksPaired
<1>p. PICK links : links = LinkRows(a)
  OBVIOUS
<1>4. ASSUME NEW k \in DOMAIN links PROVE links[k] \in KeptLinks(a) /\ {links[k][1], links[k][2]} \subseteq clusters
  BY <1>1, <1>3, <1>p DEF KeptLinks
<1>5. KnownLinks(clusters, links) =
          {links[k] : k \in DOMAIN links} \cup {<<links[k][2], links[k][1]>> : k \in DOMAIN links}
  BY <1>4 DEF KnownLinks
<1>6. {links[k] : k \in DOMAIN links} = KeptLinks(a)
  BY <1>1, <1>4, <1>p
<1>7. {<<links[k][2], links[k][1]>> : k \in DOMAIN links} = {<<l[2], l[1]>> : l \in KeptLinks(a)}
  BY <1>1, <1>4, <1>p
<1>8. KeptLinks(a) \cup {<<l[2], l[1]>> : l \in KeptLinks(a)} = a.links
  <2>1. ASSUME NEW l \in a.links
        PROVE  l \in KeptLinks(a) \/ l \in {<<m[2], m[1]>> : m \in KeptLinks(a)}
    <3>1. CASE l[1] < l[2]
      BY <3>1 DEF KeptLinks
    <3>2. CASE ~(l[1] < l[2])
      <4>1. l[2] < l[1]
        <5>1. l[1] \in Nat /\ l[2] \in Nat /\ l[1] # l[2]
          BY <1>2, <1>3
        <5>2. QED
          BY <3>2, <5>1
      <4>2. PICK m : m = <<l[2], l[1]>>
        OBVIOUS
      <4>3. m \in KeptLinks(a) /\ l = <<m[2], m[1]>>
        BY <1>3, <4>1, <4>2 DEF KeptLinks
      <4>4. QED
        BY <4>3
    <3>3. QED
      BY <3>1, <3>2
  <2>2. \A l \in KeptLinks(a) : l \in a.links /\ <<l[2], l[1]>> \in a.links
    BY <1>3 DEF KeptLinks
  <2>3. QED
    BY <2>1, <2>2
<1>9. KnownLinks(clusters, links) = a.links
  BY <1>5, <1>6, <1>7, <1>8
<1>10. QED
  BY <1>4, <1>9, <1>p

\* The graph after the rows of a clusters table.
LEMMA GraphExtended ==
    ASSUME NEW g, GraphSound(g), NEW c, Numbered(c), NEW clusters, clusters = g.clusters \cup Created(g, c)
    PROVE  /\ clusters # {} => 1 \in clusters
           /\ ~DuplicateId(g, c) => clusters = g.clusters \cup IdsOf(c)
           /\ ~DuplicateId(g, c) /\ c # <<>> => g.clusters = {}
           /\ g.clusters = {} => ~DuplicateId(g, c) /\ g.links = {}
<1>1. PICK n \in Nat : c = [k \in 1 .. n |-> k]
  BY DEF Numbered
<1>2. IdsOf(c) = 1 .. n
  BY <1>1 DEF IdsOf
<1>3. ~DuplicateId(g, c) => clusters = g.clusters \cup IdsOf(c)
  BY CreatedAll
<1>4. g.clusters = {} => ~DuplicateId(g, c) /\ g.links = {}
  BY DEF DuplicateId, GraphSound
<1>5. clusters # {} => 1 \in clusters
  <2>1. CASE g.clusters = {}
    <3>1. clusters = 1 .. n
      BY <1>2, <1>3, <1>4, <2>1
    <3>2. QED
      BY <3>1
  <2>2. CASE g.clusters # {}
    BY <2>2 DEF GraphSound
  <2>3. QED
    BY <2>1, <2>2
<1>6. ~DuplicateId(g, c) /\ c # <<>> => g.clusters = {}
  <2>1. SUFFICES ASSUME ~DuplicateId(g, c), c # <<>>, g.clusters # {} PROVE FALSE
    OBVIOUS
  <2>2. 1 \in g.clusters
    BY <2>1 DEF GraphSound
  <2>3. n # 0
    BY <1>1, <2>1
  <2>4. 1 \in DOMAIN c /\ c[1] = 1
    BY <1>1, <2>3
  <2>5. QED
    BY <2>1, <2>2, <2>4 DEF DuplicateId
<1>7. QED
  BY <1>3, <1>4, <1>5, <1>6

LEMMA ImportClustersSound ==
    ASSUME IInv, ImportClusters
    PROVE  IInv'
<1>1. FilesSound' /\ ExportSound' /\ IntactSound'
  BY ExporterKept DEF ImportClusters
<1>2. stage = "graph" /\ verdict = Null /\ context.graph = before
  BY DEF IInv, LoadSound, ImportClusters
<1>3. UNCHANGED <<frame, paths, before, table, source>>
  BY DEF ImportClusters
<1>c. PICK c : c = files["clusters"]
  OBVIOUS
<1>l. PICK l : l = files["links"]
  OBVIOUS
<1>n. PICK new : new = context'
  OBVIOUS
<1>g. PICK g : g = context.graph
  OBVIOUS
<1> DEFINE unread == ~({"clusters", "links"} \subseteq paths) \/ {c, l} \cap {Null, Spoiled} # {}
           clusters == g.clusters \cup Created(g, c)
           refused == DuplicateId(g, c)
           known == \A k \in DOMAIN l : {l[k][1], l[k][2]} \subseteq clusters
<1>4. /\ stage' = "idle"
      /\ unread => verdict' = FALSE /\ new = context
      /\ ~unread => /\ new = [context EXCEPT !.graph =
                                 [clusters |-> clusters,
                                  links |-> IF refused THEN g.links ELSE g.links \cup KnownLinks(clusters, l)]]
                    /\ rows' = c
                    /\ verdict' = (~refused /\ known)
  BY <1>c, <1>l, <1>n, <1>g DEF ImportClusters, Return
<1>5. ~unread => Numbered(c) /\ \E m \in Nat : DOMAIN l = 1 .. m
  BY <1>c, <1>l DEF IInv, FilesSound, Readable
<1>6. GraphSound(g)
  BY <1>g DEF IInv, LoadSound
<1>7. context = [types |-> context.types, clusterOf |-> context.clusterOf,
                 counts |-> context.counts, offsets |-> context.offsets,
                 indices |-> context.indices, vectors |-> context.vectors, graph |-> context.graph]
  BY DEF IInv, LoadSound
<1>8. ~unread => /\ clusters # {} => 1 \in clusters
                 /\ ~refused => clusters = g.clusters \cup IdsOf(c)
                 /\ ~refused /\ c # <<>> => g.clusters = {}
                 /\ g.clusters = {} => ~refused /\ g.links = {}
  BY <1>5, <1>6, GraphExtended
<1>9. source # Null =>
          /\ source \in Analyses /\ ~unread /\ c = ClusterRows(source) /\ l = LinkRows(source)
          /\ context.types = source.types /\ context.clusterOf = ExportContext(source).clusterOf
          /\ frame = ExportContext(source) /\ paths = Files /\ table = NeighborTopology(source)
  <2>1. SUFFICES ASSUME source # Null
                 PROVE  /\ source \in Analyses /\ ~unread /\ c = ClusterRows(source) /\ l = LinkRows(source)
                        /\ context.types = source.types /\ context.clusterOf = ExportContext(source).clusterOf
                        /\ frame = ExportContext(source) /\ paths = Files /\ table = NeighborTopology(source)
    OBVIOUS
  <2>2. /\ source \in Analyses /\ frame = ExportContext(source) /\ paths = Files
        /\ files["clusters"] = Content(source, "clusters") /\ files["links"] = Content(source, "links")
    BY <1>2, <2>1 DEF IInv, SourceSound, IntactSound, Files
  <2>3. c = ClusterRows(source) /\ l = LinkRows(source) /\ c \notin {Null, Spoiled} /\ l \notin {Null, Spoiled}
    BY <1>c, <1>l, <2>2, Contents, DumpsWritten DEF Files
  <2>4. ~unread
    BY <2>2, <2>3 DEF Files
  <2>5. QED
    BY <1>2, <2>1, <2>2, <2>3, <2>4 DEF IInv, SourceSound
<1> HIDE DEF unread, refused, known
<1>10. /\ new = [types |-> new.types, clusterOf |-> new.clusterOf, counts |-> new.counts, offsets |-> new.offsets,
                 indices |-> new.indices, vectors |-> new.vectors, graph |-> new.graph]
       /\ new.types = context.types /\ new.clusterOf = context.clusterOf
       /\ new.counts = context.counts /\ new.offsets = context.offsets
       /\ new.indices = context.indices /\ new.vectors = context.vectors
       /\ unread => new.graph = g
       /\ ~unread => new.graph =
              [clusters |-> clusters, links |-> IF refused THEN g.links ELSE g.links \cup KnownLinks(clusters, l)]
  <2> HIDE DEF clusters
  <2>1. QED
    BY <1>4, <1>7, <1>g
<1>11. verdict' \in BOOLEAN
  BY <1>4
<1>12. GraphSound(new.graph)
  <2>1. CASE unread
    BY <1>6, <1>10, <2>1
  <2>2. CASE ~unread
    <3>1. new.graph.clusters = clusters /\ new.graph = [clusters |-> new.graph.clusters, links |-> new.graph.links]
      BY <1>10, <2>2
    <3>2. ASSUME NEW x \in new.graph.links PROVE {x[1], x[2]} \subseteq clusters
      <4>1. CASE x \in g.links
        BY <1>6, <4>1 DEF GraphSound
      <4>2. CASE x \notin g.links
        <5>1. x \in KnownLinks(clusters, l)
          BY <1>10, <2>2, <3>2, <4>2
        <5>2. QED
          BY <1>5, <2>2, <5>1, KnownLinksClosed
      <4>3. QED
        BY <4>1, <4>2
    <3>3. QED
      BY <1>8, <2>2, <3>1, <3>2 DEF GraphSound
  <2>3. QED
    BY <2>1, <2>2
<1>13. LoadSound'
  <2>1. GraphSound(before)
    BY DEF IInv, LoadSound
  <2>2. stage' = "idle"
    BY <1>4
  <2>3. QED
    BY <1>3, <1>10, <1>11, <1>12, <1>n, <2>1, <2>2 DEF LoadSound, GraphSound
<1>14. TableSound'
  <2>1. /\ \E a \in Analyses : table = NeighborTopology(a)
        /\ Cardinality(DOMAIN table.rows) = frame.natoms
        /\ IdsAgree(table) /\ Loaded(context, table, frame.natoms)
    BY <1>2 DEF IInv, TableSound
  <2>2. IdsAgree(table)'
    BY <1>3, <2>1 DEF IdsAgree
  <2>3. Loaded(context, table, frame.natoms)'
    BY <1>3, <1>10, <1>n, <2>1 DEF Loaded
  <2>4. QED
    BY <1>3, <2>1, <2>2, <2>3 DEF TableSound
<1>15. OneImport'
  <2>1. SUFFICES ASSUME verdict' = TRUE
                 PROVE  /\ rows' # <<>> => new.graph.clusters = IdsOf(rows')
                        /\ \A x \in new.graph.links : {x[1], x[2]} \subseteq new.graph.clusters
    BY <1>n DEF OneImport
  <2>2. ~unread /\ ~refused /\ rows' = c
    BY <1>4, <2>1
  <2>3. c # <<>> => new.graph.clusters = IdsOf(c)
    <3>1. new.graph.clusters = clusters
      BY <1>10, <2>2
    <3>2. QED
      BY <1>8, <2>2, <3>1
  <2>4. QED
    BY <1>12, <2>2, <2>3 DEF GraphSound
<1>16. SourceSound'
  <2>1. SUFFICES ASSUME source # Null PROVE SourceSound'
    BY <1>3 DEF SourceSound
  <2>2. IdsOf(c) = source.clusters /\ (source.clusters # {} => 1 \in source.clusters) /\ Cardinality(source.clusters) \in Nat
        /\ c = [k \in 1 .. Cardinality(source.clusters) |-> k]
    BY <1>9, <2>1, ClusterRowsNumbered
  <2>3. CASE before.clusters = {} \/ source.clusters = {}
    <3>1. ~refused
      <4>1. CASE before.clusters = {}
        BY <1>2, <1>8, <1>9, <1>g, <2>1, <4>1
      <4>2. CASE source.clusters = {}
        BY <2>2, <4>2 DEF refused, DuplicateId, IdsOf
      <4>3. QED
        BY <2>3, <4>1, <4>2
    <3>2. clusters = g.clusters \cup source.clusters
      BY <1>8, <1>9, <2>1, <2>2, <3>1
    <3>3. known /\ KnownLinks(clusters, l) = source.links
      <4>1. source.clusters \subseteq clusters
        BY <3>2
      <4> HIDE DEF clusters
      <4>2. QED
        BY <1>9, <2>1, <4>1, LinksRestored DEF known
    <3>4. verdict' = TRUE
      BY <1>4, <1>9, <2>1, <3>1, <3>3
    <3>5. ASSUME source.clusters # {}
          PROVE  new.graph = [clusters |-> source.clusters, links |-> source.links]
      <4>1. g.clusters = {} /\ g.links = {}
        BY <1>2, <1>8, <1>9, <1>g, <2>1, <2>3, <3>5
      <4>2. clusters = source.clusters /\ g.links \cup KnownLinks(clusters, l) = source.links
        BY <3>2, <3>3, <4>1
      <4>3. QED
        BY <1>9, <1>10, <2>1, <3>1, <4>2
    <3>6. QED
      BY <1>3, <1>4, <1>9, <1>10, <1>n, <2>1, <2>3, <3>4, <3>5 DEF SourceSound
  <2>4. CASE ~(before.clusters = {} \/ source.clusters = {})
    <3>1. 1 \in g.clusters /\ 1 \in source.clusters
      BY <1>2, <1>6, <1>g, <2>2, <2>4 DEF GraphSound
    <3>2. refused
      <4>1. PICK k \in DOMAIN c : c[k] = 1
        BY <2>2, <3>1 DEF IdsOf
      <4>2. QED
        BY <3>1, <4>1 DEF refused, DuplicateId
    <3>3. verdict' = FALSE /\ stage' = "idle"
      BY <1>4, <1>9, <2>1, <3>2
    <3>4. QED
      BY <1>3, <1>9, <2>1, <2>4, <3>3 DEF SourceSound, Accepted
  <2>5. QED
    BY <2>3, <2>4
<1>17. QED
  BY <1>1, <1>13, <1>14, <1>15, <1>16 DEF IInv

----------------------------------------------------------------------------
(* The theorems *)

LEMMA NextSound ==
    ASSUME IInv, [Next]_vars
    PROVE  IInv'
<1>1. ASSUME NEW a \in Analyses, BeginExport(a) PROVE IInv'
  BY <1>1, BeginExportSound
<1>2. CASE Write
  BY <1>2, WriteSound
<1>3. CASE LoseTail
  BY <1>3, LoseTailSound
<1>4. CASE WriteFails
  BY <1>4, WriteFailsSound
<1>5. CASE RewriteDump
  BY <1>5, RewriteDumpSound
<1>6. CASE BeginLoad
  BY <1>6, BeginLoadSound
<1>7. CASE LoadStructureAndCluster
  BY <1>7, LoadStructureAndClusterSound
<1>8. CASE LoadNeighborTopology
  BY <1>8, LoadNeighborTopologySound
<1>9. CASE ImportClusters
  BY <1>9, ImportClustersSound
<1>10. CASE UNCHANGED vars
  <2>1. FilesSound' /\ ExportSound' /\ IntactSound'
    BY <1>10, ExporterKept DEF vars
  <2>2. LoadSound' /\ TableSound' /\ SourceSound' /\ OneImport'
    BY <1>10, LoaderKept DEF vars
  <2>3. QED
    BY <2>1, <2>2 DEF IInv
<1>11. QED
  BY <1>1, <1>2, <1>3, <1>4, <1>5, <1>6, <1>7, <1>8, <1>9, <1>10 DEF Next

\* What the two processes may rely on: how far an export and a load are, what
\* lies in the files, and what was made of it.
THEOREM InvariantCorrect == Spec => []IInv
<1>1. Init => IInv
  BY InitSound
<1>2. IInv /\ [Next]_vars => IInv'
  BY NextSound
<1>3. QED
  BY <1>1, <1>2, PTL DEF Spec

\* After a load that succeeds the graph has the clusters of one table, and its
\* transitions join clusters it has.
THEOREM OneImportCorrect == Spec => []OneImport
<1>1. IInv => OneImport
  BY DEF IInv
<1>2. QED
  BY <1>1, InvariantCorrect, PTL

\* The neighbours of an accepted table are those of the atoms with the ids the
\* dump has.
LEMMA AtomsMatchFollows ==
    ASSUME IInv
    PROVE  AtomsMatch
<1>1. SUFFICES ASSUME Accepted, frame.ids # Null PROVE AtomsMatch
  BY DEF AtomsMatch, Accepted
<1>2. PICK a \in Analyses : table = NeighborTopology(a)
  BY <1>1 DEF IInv, TableSound
<1>3. table.of = a
  BY <1>2 DEF NeighborTopology
<1>4. frame.natoms = a.natoms /\ IdsAgree(table) /\ Loaded(context, NeighborTopology(a), a.natoms)
  BY <1>1, <1>2, TableAccepted DEF IInv, TableSound
<1>5. Atoms(frame) = Atoms(a)
  BY <1>4 DEF Atoms
<1>6. ASSUME NEW i \in Atoms(a) PROVE frame.ids[i] = IdOf(a, i)
  <2>1. RowOf(table, i).id = AtomIds(a)[i]
    BY <1>2, TableAccepted
  <2>2. AtomIds(a)[i] \in Nat
    BY DumpsWritten
  <2>3. QED
    BY <1>1, <1>4, <1>5, <2>1, <2>2 DEF IdsAgree, IdOf
<1>7. ASSUME NEW i \in Atoms(a)
      PROVE  /\ NeighborList(context, i) = NeighborList(a, i)
             /\ \A s \in DOMAIN NeighborList(a, i) : NeighborList(a, i)[s] \in Atoms(a)
  <2>1. NeighborList(context, i) = NeighborList(a, i) /\ NeighborList(a, i) \in Seq(Atoms(a))
    BY <1>4, ListLoaded
  <2>2. QED
    BY <2>1
<1>8. QED
  BY <1>3, <1>5, <1>6, <1>7 DEF AtomsMatch

\* A load that succeeds gives each atom the neighbours, by atom id, the atom of
\* that id had in the analysis the table is from.
THEOREM AtomsMatchCorrect == Spec => []AtomsMatch
<1>1. IInv => AtomsMatch
  BY AtomsMatchFollows
<1>2. QED
  BY <1>1, InvariantCorrect, PTL

LEMMA ReloadExactFollows ==
    ASSUME IInv
    PROVE  ReloadExact
<1>1. SUFFICES ASSUME stage = "idle", verdict # Null, source # Null PROVE ReloadExact
  BY DEF ReloadExact
<1>2. IF before.clusters = {} \/ source.clusters = {}
      THEN verdict = TRUE /\ (source.clusters # {} =>
               context.graph = [clusters |-> source.clusters, links |-> source.links])
      ELSE verdict = FALSE
  BY <1>1 DEF IInv, SourceSound
<1>3. ASSUME verdict = TRUE
      PROVE  /\ source \in Analyses /\ context.types = source.types
             /\ context.clusterOf = ExportContext(source).clusterOf
             /\ Loaded(context, NeighborTopology(source), source.natoms)
  <2>1. /\ source \in Analyses /\ context.types = source.types
        /\ context.clusterOf = ExportContext(source).clusterOf /\ table = NeighborTopology(source)
    BY <1>1, <1>3 DEF IInv, SourceSound, IntactSound, Accepted
  <2>2. frame.natoms = source.natoms /\ Loaded(context, table, frame.natoms)
    BY <1>1, <1>3, <2>1, TableAccepted DEF IInv, TableSound, Accepted
  <2>3. QED
    BY <2>1, <2>2
<1>4. CASE before.clusters = {} \/ source.clusters = {}
  <2>1. verdict = TRUE
    BY <1>2, <1>4
  <2>2. \A i \in Atoms(source) :
            context.clusterOf[i] = IF source.clusterOf = Null THEN 0 ELSE source.clusterOf[i]
    BY <1>3, <2>1 DEF ExportContext
  <2>3. \A i \in Atoms(source) : NeighborList(context, i) = NeighborList(source, i)
    BY <1>3, <2>1, ListLoaded
  <2>4. ASSUME NEW i \in Atoms(source), NEW s \in Slots, s < CountOf(source, i), source.types[i] # Other,
               s < Coordination[source.types[i]]
        PROVE  context.vectors[i][s] = source.vectors[i][s]
    <3>1. context.vectors[i] = RowOf(NeighborTopology(source), i).vectors
      BY <1>3, <2>1 DEF Loaded, Atoms
    <3>2. context.vectors[i] = NeighborLatticeVectors(source, i)
      BY <1>3, <2>1, <3>1, RowOfAtom
    <3>3. s < ExportableCount(source, i)
      <4>1. s < MaxNeighbors
        BY NullAssumption DEF Slots
      <4>2. QED
        BY <2>4, <4>1 DEF ExportableCount
    <3>4. QED
      BY <3>2, <3>3 DEF NeighborLatticeVectors
  <2>5. source.clusters # {} => context.graph = [clusters |-> source.clusters, links |-> source.links]
    BY <1>2, <1>4
  <2>6. ExactlyLoaded(source)
    BY <1>3, <2>1, <2>2, <2>3, <2>4, <2>5 DEF ExactlyLoaded
  <2>7. QED
    BY <1>4, <2>1, <2>6 DEF ReloadExact
<1>5. CASE ~(before.clusters = {} \/ source.clusters = {})
  BY <1>2, <1>5 DEF ReloadExact
<1>6. QED
  BY <1>4, <1>5

\* A load of outputs that lie there as one export wrote them succeeds and gives
\* back the analysis, unless the caller's graph has clusters already.
THEOREM ReloadExactCorrect == Spec => []ReloadExact
<1>1. IInv => ReloadExact
  BY ReloadExactFollows
<1>2. QED
  BY <1>1, InvariantCorrect, PTL
=============================================================================
