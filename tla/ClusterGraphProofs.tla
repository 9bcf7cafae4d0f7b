------------------------- MODULE ClusterGraphProofs -------------------------
(***************************************************************************)
(* The cluster graph for any number of clusters and transitions, however   *)
(* they are derived from each other.  The parts of the invariant take the  *)
(* pool, the lists and the cache as parameters, so that a lemma on what an *)
(* insertion does to them can be stated without naming a step.             *)
(***************************************************************************)
EXTENDS ClusterGraph, FiniteSetTheorems, SequenceTheorems, WellFoundedInduction, TLAPS

Links(n) == [c1 : 2 .. n, c2 : 2 .. n, tm : Tm, reverse : Nat, distance : Nat]

\* Transition t of pool ps and its reverse belong together.
Reversed(ps, t) ==
    LET r == ps[t].reverse IN
    /\ r \in DOMAIN ps
    /\ ps[r].reverse = t
    /\ ps[r].c1 = ps[t].c2 /\ ps[r].c2 = ps[t].c1
    /\ Mul(ps[r].tm, ps[t].tm) = Id
    /\ ps[r].distance = ps[t].distance
    /\ (r = t) <=> (ps[t].distance = 0)
    /\ ps[t].distance = 1 => ps[t].c1 # ps[t].c2

PoolHolds(n, ps) == ps \in Seq(Links(n)) /\ \A t \in DOMAIN ps : Reversed(ps, t)

\* One of t and its reverse is in cts, once; a self transition is not.
Published(ps, cts, t) ==
    LET both == {t, ps[t].reverse} IN
    IF ps[t].reverse = t THEN \A i \in DOMAIN cts : cts[i] # t
    ELSE \E i \in DOMAIN cts : /\ cts[i] \in both
                               /\ \A j \in DOMAIN cts : cts[j] \in both => j = i

Sorted(ps, list) ==
    \A i, j \in DOMAIN list : i < j =>
        /\ list[i] # list[j]
        /\ ps[list[i]].distance <= ps[list[j]].distance
        /\ ps[list[j]].distance > 0

Items(list) == {list[i] : i \in DOMAIN list}

\* The lists trs are sorted and hold the transitions in S, each in the list of
\* its first cluster.
Listed(ps, trs, S) ==
    \A c \in DOMAIN trs :
        /\ trs[c] \in Seq(Nat) /\ Sorted(ps, trs[c])
        /\ Items(trs[c]) = {t \in S : ps[t].c1 = c}

Way(ps, a, b) ==
    \E t \in DOMAIN ps : /\ ps[t].c1 = a /\ ps[t].distance = 1
                         /\ \/ ps[t].c2 = b
                            \/ \E s \in DOMAIN ps : /\ ps[s].distance = 1
                                                    /\ ps[s].c1 = ps[t].c2
                                                    /\ ps[s].c2 = b

\* No cached pair has a way of two hops, or a transition that short.
Apart(ps, dis) ==
    \A p \in dis : /\ p[1] # p[2]
                   /\ ~Way(ps, p[1], p[2])
                   /\ \A t \in DOMAIN ps :
                         ps[t].c1 = p[1] /\ ps[t].c2 = p[2] => ps[t].distance > 2

IInv ==
    /\ clusters \in Seq(Nat) /\ clusters # <<>>
    /\ PoolHolds(Len(clusters), pool)
    /\ transitions \in Seq(Seq(Nat)) /\ Len(transitions) = Len(clusters)
    /\ Listed(pool, transitions, DOMAIN pool)
    /\ clusterTransitions \in Seq(Nat)
    /\ \A i \in DOMAIN clusterTransitions : clusterTransitions[i] \in DOMAIN pool
    /\ \A t \in DOMAIN pool : Published(pool, clusterTransitions, t)
    /\ disconnected \subseteq Pointers \X Pointers
    /\ Apart(pool, disconnected)

----------------------------------------------------------------------------
(* Least elements *)

\* A set of natural numbers that is not empty has a least element.
LEMMA LeastNatural ==
    ASSUME NEW S, S \subseteq Nat, S # {}
    PROVE  \E m \in S : \A n \in S : m <= n
<1> DEFINE Below == {1 .. n : n \in S}
<1>1. Below \subseteq FiniteSubsetsOf(Nat) /\ Below # {}
  <2>1. \A n \in S : n \in Int /\ 1 .. n \in SUBSET Nat
    OBVIOUS
  <2>2. \A n \in S : IsFiniteSet(1 .. n)
    BY <2>1, FS_Interval
  <2>3. QED
    BY <2>1, <2>2 DEF FiniteSubsetsOf
<1>2. PICK B \in Below : \A C \in Below : <<C, B>> \notin StrictSubsetOrdering(Nat)
  BY <1>1, FS_StrictSubsetOrderingWellFounded, WFMin
<1>3. PICK m \in S : B = 1 .. m
  OBVIOUS
<1>4. ASSUME NEW n \in S, n < m PROVE FALSE
  <2>1. 1 .. n \subseteq 1 .. m /\ m \in 1 .. m /\ m \notin 1 .. n
    BY <1>4
  <2>2. 1 .. n \in SUBSET Nat /\ 1 .. m \in SUBSET Nat /\ 1 .. n # 1 .. m
    BY <2>1
  <2>3. <<1 .. n, 1 .. m>> \in StrictSubsetOrdering(Nat)
    BY <2>1, <2>2 DEF StrictSubsetOrdering
  <2>4. QED
    BY <1>2, <1>3, <2>3
<1>5. QED
  BY <1>4

\* A search through a sequence for places with a property finds the first one.
LEMMA LeastPlace ==
    ASSUME NEW I, I \subseteq Nat, I # {}
    PROVE  Min(I) \in I /\ \A j \in I : Min(I) <= j
BY LeastNatural DEF Min

\* A set of the first places of a sequence, counted.
LEMMA InitialSegment ==
    ASSUME NEW n \in Nat, NEW S \in SUBSET (1 .. n),
           \A i \in S, j \in 1 .. n : j <= i => j \in S
    PROVE  Cardinality(S) \in 0 .. n /\ S = 1 .. Cardinality(S)
<1>1. CASE S = 1 .. n
  <2>1. 1 \in Int /\ n \in Int /\ (1 > n => n = 0)
    OBVIOUS
  <2>2. Cardinality(1 .. n) = n
    BY <2>1, FS_Interval
  <2>3. QED
    BY <1>1, <2>2
<1>2. CASE S # 1 .. n
  <2> DEFINE Rest == {i \in 1 .. n : i \notin S}
  <2>1. Rest \subseteq Nat /\ Rest # {}
    <3>1. Rest # {}
      <4>1. SUFFICES ASSUME Rest = {} PROVE S = 1 .. n
        BY <1>2
      <4>2. \A i \in 1 .. n : i \in S
        BY <4>1
      <4>3. QED
        BY <4>2
    <3>2. QED
      BY <3>1
  <2>2. PICK m \in Rest : \A j \in Rest : m <= j
    BY <2>1, LeastNatural
  <2>3. S = 1 .. (m - 1) /\ m - 1 \in 0 .. n
    <3>1. \A i \in 1 .. n : i \in S <=> i < m
      BY <2>2
    <3>2. m \in 1 .. n /\ \A i \in Nat : i \in 1 .. (m - 1) <=> i \in 1 .. n /\ i < m
      BY <2>2
    <3>3. \A i \in 1 .. (m - 1) : i \in S
      BY <3>1, <3>2
    <3>4. \A i \in S : i \in 1 .. (m - 1)
      BY <3>1, <3>2
    <3>5. m - 1 \in 0 .. n
      BY <3>2
    <3>6. QED
      BY <3>3, <3>4, <3>5
  <2>4. 1 \in Int /\ m - 1 \in Int
    BY <2>2
  <2>5. Cardinality(1 .. (m - 1)) = m - 1
    <3>1. CASE 1 > m - 1
      BY <2>4, <3>1, FS_Interval, <2>3
    <3>2. CASE 1 <= m - 1
      BY <2>4, <3>2, FS_Interval
    <3>3. QED
      BY <2>4, <3>1, <3>2
  <2>6. QED
    BY <2>3, <2>5
<1>3. QED
  BY <1>1, <1>2

----------------------------------------------------------------------------
(* Lists *)

\* Cluster::insertTransition keeps a list sorted and adds what it inserts.
LEMMA InsertedParts ==
    ASSUME NEW list, NEW t, NEW k \in Nat
    PROVE  InsertAt(list, k + 1, t)
              = SubSeq(list, 1, k) \o <<t>> \o SubSeq(list, k + 1, Len(list))
<1>1. (k + 1) - 1 = k
  OBVIOUS
<1>2. QED
  BY <1>1 DEF InsertAt

LEMMA InsertedSorted ==
    ASSUME NEW ps, NEW list \in Seq(Nat), NEW t \in Nat, Sorted(ps, list),
           \A i \in DOMAIN list : ps[list[i]].distance \in Nat /\ list[i] # t,
           ps[t].distance \in Nat \ {0}
    PROVE  /\ Inserted(ps, t, list) \in Seq(Nat)
           /\ Sorted(ps, Inserted(ps, t, list))
           /\ Items(Inserted(ps, t, list)) = Items(list) \cup {t}
<1> DEFINE n == Len(list)
           nearer == {i \in DOMAIN list : ps[list[i]].distance <= ps[t].distance}
           k == Cardinality(nearer)
           new == Inserted(ps, t, list)
<1>1. n \in Nat /\ DOMAIN list = 1 .. n /\ \A i \in 1 .. n : list[i] \in Nat
  BY LenProperties, ElementOfSeq
<1>2. k \in 0 .. n /\ nearer = 1 .. k
  <2>1. nearer \in SUBSET (1 .. n)
    BY <1>1
  <2>2. ASSUME NEW i \in nearer, NEW j \in 1 .. n, j <= i PROVE j \in nearer
    <3>1. ps[list[j]].distance <= ps[list[i]].distance
      <4>1. CASE j = i
        BY <1>1, <2>2, <4>1
      <4>2. CASE j < i
        BY <1>1, <2>2, <4>2 DEF Sorted
      <4>3. QED
        BY <1>1, <2>2, <4>1, <4>2
    <3>2. QED
      BY <1>1, <2>2, <3>1
  <2> HIDE DEF nearer
  <2>3. QED
    BY <1>1, <2>1, <2>2, InitialSegment
<1>3. /\ \A i \in 1 .. n : i <= k <=> ps[list[i]].distance <= ps[t].distance
      /\ k \in Nat
  BY <1>1, <1>2
<1> DEFINE front == SubSeq(list, 1, k)
           back == SubSeq(list, k + 1, n)
<1>4. new = front \o <<t>> \o back
  <2>1. new = InsertAt(list, k + 1, t)
    BY DEF Inserted
  <2> HIDE DEF k, new
  <2>2. QED
    BY <1>3, <2>1, InsertedParts
<1> HIDE DEF k, nearer, n
<1>5. /\ front \in Seq(Nat) /\ Len(front) = k
      /\ \A i \in 1 .. k : front[i] = list[i]
  <2>1. \A i \in 1 .. k : list[i] \in Nat
    BY <1>1, <1>2
  <2>2. /\ SubSeq(list, 1, k) \in Seq(Nat)
        /\ Len(SubSeq(list, 1, k)) = IF 1 <= k THEN k - 1 + 1 ELSE 0
        /\ \A i \in 1 .. k - 1 + 1 : SubSeq(list, 1, k)[i] = list[1 + i - 1]
    BY <1>3, <2>1, SubSeqProperties
  <2>3. k - 1 + 1 = k /\ (~(1 <= k) => k = 0) /\ \A i \in 1 .. k : 1 + i - 1 = i
    BY <1>3
  <2>4. QED
    BY <2>2, <2>3
<1>6. /\ back \in Seq(Nat) /\ Len(back) = n - k
      /\ \A i \in 1 .. n - k : back[i] = list[k + i]
  <2>1. k + 1 \in Int /\ n \in Int /\ \A i \in k + 1 .. n : list[i] \in Nat
    BY <1>1, <1>2
  <2>2. /\ SubSeq(list, k + 1, n) \in Seq(Nat)
        /\ Len(SubSeq(list, k + 1, n)) = IF k + 1 <= n THEN n - (k + 1) + 1 ELSE 0
        /\ \A i \in 1 .. n - (k + 1) + 1 : SubSeq(list, k + 1, n)[i] = list[(k + 1) + i - 1]
    BY <2>1, SubSeqProperties
  <2>3. /\ n - (k + 1) + 1 = n - k /\ (~(k + 1 <= n) => n - k = 0)
        /\ \A i \in 1 .. n - k : (k + 1) + i - 1 = k + i
    BY <1>1, <1>2
  <2>4. QED
    BY <2>2, <2>3
<1> HIDE DEF front, back
<1>7. /\ front \o <<t>> \in Seq(Nat) /\ Len(front \o <<t>>) = k + 1
      /\ \A i \in 1 .. k + 1 : (front \o <<t>>)[i] = IF i <= k THEN list[i] ELSE t
  <2>1. <<t>> \in Seq(Nat) /\ Len(<<t>>) = 1 /\ <<t>>[1] = t
    OBVIOUS
  <2>2. /\ front \o <<t>> \in Seq(Nat) /\ Len(front \o <<t>>) = k + 1
        /\ \A i \in 1 .. k + 1 : (front \o <<t>>)[i] = IF i <= k THEN front[i] ELSE <<t>>[i - k]
    BY <1>5, <2>1, ConcatProperties
  <2>3. ASSUME NEW i \in 1 .. k + 1
        PROVE  (front \o <<t>>)[i] = IF i <= k THEN list[i] ELSE t
    <3>1. CASE i <= k
      BY <1>3, <1>5, <2>2, <3>1
    <3>2. CASE ~(i <= k)
      <4>1. i - k = 1
        BY <1>3, <3>2
      <4>2. QED
        BY <2>1, <2>2, <3>2, <4>1
    <3>3. QED
      BY <3>1, <3>2
  <2>4. QED
    BY <2>2, <2>3
<1>8. /\ new \in Seq(Nat) /\ Len(new) = n + 1
      /\ \A i \in 1 .. n + 1 : new[i] = IF i <= k THEN list[i]
                                        ELSE IF i = k + 1 THEN t ELSE list[i - 1]
  <2>1. /\ new \in Seq(Nat) /\ Len(new) = k + 1 + (n - k)
        /\ \A i \in 1 .. k + 1 + (n - k) :
              new[i] = IF i <= k + 1 THEN (front \o <<t>>)[i] ELSE back[i - (k + 1)]
    <3> HIDE DEF new
    <3> DEFINE first == front \o <<t>>
    <3>1. first \in Seq(Nat) /\ back \in Seq(Nat) /\ Len(first) = k + 1 /\ Len(back) = n - k
      BY <1>6, <1>7
    <3> HIDE DEF first
    <3>2. /\ first \o back \in Seq(Nat) /\ Len(first \o back) = Len(first) + Len(back)
          /\ \A i \in 1 .. Len(first) + Len(back) :
                (first \o back)[i] = IF i <= Len(first) THEN first[i] ELSE back[i - Len(first)]
      BY <3>1, ConcatProperties
    <3>3. new = first \o back
      BY <1>4 DEF first
    <3>4. QED
      BY <3>1, <3>2, <3>3 DEF first
  <2>2. k + 1 + (n - k) = n + 1
    BY <1>1, <1>3
  <2>3. ASSUME NEW i \in 1 .. n + 1
        PROVE  new[i] = IF i <= k THEN list[i] ELSE IF i = k + 1 THEN t ELSE list[i - 1]
    <3>1. CASE i <= k + 1
      <4>1. new[i] = (front \o <<t>>)[i] /\ i \in 1 .. k + 1
        <5>1. i \in 1 .. k + 1 /\ i \in 1 .. k + 1 + (n - k)
          BY <1>1, <1>3, <2>2, <3>1
        <5>2. QED
          BY <2>1, <3>1, <5>1
      <4>2. ~(i <= k) => i = k + 1
        BY <1>3, <3>1
      <4>3. QED
        BY <1>7, <4>1, <4>2
    <3>2. CASE ~(i <= k + 1)
      <4>1. i - (k + 1) \in 1 .. n - k /\ k + (i - (k + 1)) = i - 1 /\ ~(i <= k) /\ i # k + 1
        BY <1>1, <1>3, <3>2
      <4>2. new[i] = back[i - (k + 1)]
        BY <2>1, <2>2, <3>2
      <4>3. QED
        BY <1>6, <4>1, <4>2
    <3>3. QED
      BY <3>1, <3>2
  <2>4. QED
    BY <2>1, <2>2, <2>3
<1> HIDE DEF new
<1>9. DOMAIN new = 1 .. n + 1
  BY <1>8, LenProperties
<1>10. Sorted(ps, new)
  <2> SUFFICES ASSUME NEW i \in 1 .. n + 1, NEW j \in 1 .. n + 1, i < j
               PROVE  /\ new[i] # new[j]
                      /\ ps[new[i]].distance <= ps[new[j]].distance
                      /\ ps[new[j]].distance > 0
    BY <1>9 DEF Sorted
  <2>1. \A x, y \in 1 .. n : x < y => /\ list[x] # list[y]
                                      /\ ps[list[x]].distance <= ps[list[y]].distance
                                      /\ ps[list[y]].distance > 0
    BY <1>1 DEF Sorted
  <2>2. \A x \in 1 .. n : ps[list[x]].distance \in Nat /\ list[x] # t
    BY <1>1
  <2>3. CASE j <= k
    <3>1. i \in 1 .. n /\ j \in 1 .. n /\ new[i] = list[i] /\ new[j] = list[j]
      BY <1>1, <1>2, <1>8, <2>3
    <3>2. QED
      BY <2>1, <3>1
  <2>4. CASE j = k + 1
    <3>1. i \in 1 .. n /\ i <= k /\ new[i] = list[i] /\ new[j] = t
      BY <1>1, <1>2, <1>3, <1>8, <2>4
    <3>2. QED
      BY <1>3, <2>2, <3>1
  <2>5. CASE j > k + 1
    <3>1. j - 1 \in 1 .. n /\ ~(j - 1 <= k) /\ new[j] = list[j - 1]
      BY <1>1, <1>3, <1>8, <2>5
    <3>2. ps[list[j - 1]].distance > ps[t].distance
      BY <1>3, <2>2, <3>1
    <3>3. CASE i <= k
      <4>1. i \in 1 .. n /\ new[i] = list[i] /\ i < j - 1
        BY <1>1, <1>2, <1>3, <1>8, <2>5, <3>3
      <4>2. QED
        BY <2>1, <3>1, <4>1
    <3>4. CASE i = k + 1
      <4>1. new[i] = t
        BY <1>3, <1>8, <3>4
      <4>2. QED
        BY <2>2, <3>1, <3>2, <4>1
    <3>5. CASE i > k + 1
      <4>1. i - 1 \in 1 .. n /\ ~(i <= k) /\ i # k + 1 /\ i - 1 < j - 1
        BY <1>1, <1>3, <3>5
      <4>2. new[i] = list[i - 1]
        BY <1>8, <4>1
      <4>3. QED
        BY <2>1, <3>1, <4>1, <4>2
    <3>6. QED
      BY <1>3, <3>3, <3>4, <3>5
  <2>6. QED
    BY <1>3, <2>3, <2>4, <2>5
<1>11. {new[i] : i \in 1 .. n + 1} = {list[i] : i \in 1 .. n} \cup {t}
  <2>1. ASSUME NEW i \in 1 .. n + 1 PROVE new[i] \in {list[x] : x \in 1 .. n} \cup {t}
    <3>1. CASE i <= k
      BY <1>1, <1>2, <1>8, <3>1
    <3>2. CASE i = k + 1
      BY <1>3, <1>8, <3>2
    <3>3. CASE i > k + 1
      <4>1. new[i] = list[i - 1] /\ i - 1 \in 1 .. n
        BY <1>1, <1>3, <1>8, <3>3
      <4>2. QED
        BY <4>1
    <3>4. QED
      BY <1>3, <3>1, <3>2, <3>3
  <2>2. t \in {new[i] : i \in 1 .. n + 1}
    <3>1. k + 1 \in 1 .. n + 1 /\ new[k + 1] = t
      BY <1>1, <1>2, <1>8
    <3>2. QED
      BY <3>1
  <2>3. ASSUME NEW x \in 1 .. n PROVE list[x] \in {new[i] : i \in 1 .. n + 1}
    <3>1. CASE x <= k
      <4>1. x \in 1 .. n + 1 /\ new[x] = list[x]
        BY <1>1, <1>8, <3>1
      <4>2. QED
        BY <4>1
    <3>2. CASE x > k
      <4>1. x + 1 \in 1 .. n + 1 /\ new[x + 1] = list[x]
        BY <1>1, <1>3, <1>8, <3>2
      <4>2. QED
        BY <4>1
    <3>3. QED
      BY <1>1, <1>3, <3>1, <3>2
  <2>4. QED
    BY <2>1, <2>2, <2>3
<1>12. QED
  BY <1>1, <1>8, <1>9, <1>10, <1>11 DEF new, Items

\* A transition inserted into the list of its first cluster.
LEMMA InsertedListed ==
    ASSUME NEW ps, NEW trs, NEW S, Listed(ps, trs, S),
           \A c \in DOMAIN trs : \A i \in DOMAIN trs[c] : ps[trs[c][i]].distance \in Nat,
           NEW a \in DOMAIN trs, NEW t \in Nat, t \notin S, ps[t].c1 = a,
           ps[t].distance \in Nat \ {0}
    PROVE  LET new == [trs EXCEPT ![a] = Inserted(ps, t, @)] IN
           /\ DOMAIN new = DOMAIN trs
           /\ Listed(ps, new, S \cup {t})
           /\ \A c \in DOMAIN new : \A i \in DOMAIN new[c] : ps[new[c][i]].distance \in Nat
<1> DEFINE new == [trs EXCEPT ![a] = Inserted(ps, t, @)]
<1>1. DOMAIN new = DOMAIN trs /\ new[a] = Inserted(ps, t, trs[a])
      /\ \A c \in DOMAIN trs : c # a => new[c] = trs[c]
  OBVIOUS
<1> HIDE DEF new
<1>2. \A c \in DOMAIN trs : /\ trs[c] \in Seq(Nat) /\ Sorted(ps, trs[c])
                            /\ Items(trs[c]) = {s \in S : ps[s].c1 = c}
  BY DEF Listed
<1>3. \A i \in DOMAIN trs[a] : trs[a][i] # t
  BY <1>2 DEF Items
<1>4. /\ new[a] \in Seq(Nat) /\ Sorted(ps, new[a])
      /\ Items(new[a]) = Items(trs[a]) \cup {t}
  <2> DEFINE list == trs[a]
  <2>1. /\ list \in Seq(Nat) /\ Sorted(ps, list)
        /\ \A i \in DOMAIN list : ps[list[i]].distance \in Nat /\ list[i] # t
    BY <1>2, <1>3
  <2> HIDE DEF list
  <2>2. /\ Inserted(ps, t, list) \in Seq(Nat)
        /\ Sorted(ps, Inserted(ps, t, list))
        /\ Items(Inserted(ps, t, list)) = Items(list) \cup {t}
    BY <2>1, InsertedSorted
  <2>3. new[a] = Inserted(ps, t, list)
    BY <1>1 DEF list
  <2>4. QED
    BY <2>2, <2>3 DEF list
<1>5. ASSUME NEW c \in DOMAIN trs
      PROVE  /\ new[c] \in Seq(Nat) /\ Sorted(ps, new[c])
             /\ Items(new[c]) = {s \in S \cup {t} : ps[s].c1 = c}
             /\ \A i \in DOMAIN new[c] : ps[new[c][i]].distance \in Nat
  <2>1. CASE c # a
    <3>1. {s \in S \cup {t} : ps[s].c1 = c} = {s \in S : ps[s].c1 = c}
      BY <2>1
    <3>2. QED
      BY <1>1, <1>2, <2>1, <3>1
  <2>2. CASE c = a
    <3>1. {s \in S \cup {t} : ps[s].c1 = a} = {s \in S : ps[s].c1 = a} \cup {t}
      OBVIOUS
    <3>2. Items(new[a]) = {s \in S \cup {t} : ps[s].c1 = a}
      BY <1>2, <1>4, <3>1
    <3>3. \A i \in DOMAIN new[a] : new[a][i] = t \/ \E j \in DOMAIN trs[a] : new[a][i] = trs[a][j]
      BY <1>4 DEF Items
    <3>4. \A i \in DOMAIN new[a] : ps[new[a][i]].distance \in Nat
      BY <3>3
    <3>5. QED
      BY <1>4, <2>2, <3>2, <3>4
  <2>3. QED
    BY <2>1, <2>2
<1>6. QED
  BY <1>1, <1>5 DEF Listed, new

\* The self transition goes to the head of a list that has none.
LEMMA SelfSorted ==
    ASSUME NEW ps, NEW list \in Seq(Nat), NEW t \in Nat, Sorted(ps, list),
           \A i \in DOMAIN list : /\ ps[list[i]].distance \in Nat \ {0}
                                  /\ list[i] # t,
           ps[t].distance = 0
    PROVE  /\ <<t>> \o list \in Seq(Nat)
           /\ Sorted(ps, <<t>> \o list)
           /\ Items(<<t>> \o list) = Items(list) \cup {t}
<1> DEFINE n == Len(list)
           new == <<t>> \o list
<1>1. n \in Nat /\ DOMAIN list = 1 .. n /\ \A i \in 1 .. n : list[i] \in Nat
  BY LenProperties, ElementOfSeq
<1>2. <<t>> \in Seq(Nat) /\ Len(<<t>>) = 1 /\ <<t>>[1] = t
  OBVIOUS
<1>3. /\ new \in Seq(Nat) /\ Len(new) = 1 + n
      /\ \A i \in 1 .. 1 + n : new[i] = IF i <= 1 THEN <<t>>[i] ELSE list[i - 1]
  BY <1>2, ConcatProperties
<1>4. DOMAIN new = 1 .. 1 + n
  BY <1>3, LenProperties
<1> HIDE DEF n, new
<1>5. new[1] = t /\ \A i \in 1 .. 1 + n : i # 1 => i - 1 \in 1 .. n /\ new[i] = list[i - 1]
  <2>1. 1 \in 1 .. 1 + n /\ \A i \in 1 .. 1 + n : i # 1 => ~(i <= 1) /\ i - 1 \in 1 .. n
    BY <1>1
  <2>2. new[1] = <<t>>[1]
    BY <1>3, <2>1
  <2>3. QED
    BY <1>2, <1>3, <2>1, <2>2
<1>6. Sorted(ps, new)
  <2> SUFFICES ASSUME NEW i \in 1 .. 1 + n, NEW j \in 1 .. 1 + n, i < j
               PROVE  /\ new[i] # new[j]
                      /\ ps[new[i]].distance <= ps[new[j]].distance
                      /\ ps[new[j]].distance > 0
    BY <1>4 DEF Sorted
  <2>1. j - 1 \in 1 .. n /\ new[j] = list[j - 1]
    BY <1>1, <1>5
  <2>2. ps[list[j - 1]].distance \in Nat \ {0} /\ list[j - 1] # t
    BY <1>1, <2>1
  <2>3. CASE i = 1
    BY <1>5, <2>1, <2>2, <2>3
  <2>4. CASE i # 1
    <3>1. i - 1 \in 1 .. n /\ new[i] = list[i - 1] /\ i - 1 < j - 1
      BY <1>1, <1>5, <2>4
    <3>2. QED
      BY <1>1, <2>1, <3>1 DEF Sorted
  <2>5. QED
    BY <2>3, <2>4
<1>7. {new[i] : i \in 1 .. 1 + n} = {list[i] : i \in 1 .. n} \cup {t}
  <2>1. ASSUME NEW i \in 1 .. 1 + n PROVE new[i] \in {list[x] : x \in 1 .. n} \cup {t}
    BY <1>5
  <2>2. 1 \in 1 .. 1 + n /\ new[1] = t
    BY <1>1, <1>5
  <2>3. ASSUME NEW x \in 1 .. n PROVE list[x] \in {new[i] : i \in 1 .. 1 + n}
    <3>1. x + 1 \in 1 .. 1 + n /\ x + 1 # 1 /\ (x + 1) - 1 = x
      BY <1>1
    <3>2. new[x + 1] = list[x]
      BY <1>5, <3>1
    <3>3. QED
      BY <3>1, <3>2
  <2>4. QED
    BY <2>1, <2>2, <2>3
<1>8. QED
  BY <1>1, <1>3, <1>4, <1>6, <1>7 DEF new, Items

\* What a list says of its transitions does not depend on later ones.
LEMMA ListedStays ==
    ASSUME NEW ps, NEW qs, NEW trs, NEW S, \A t \in S : qs[t] = ps[t], Listed(ps, trs, S)
    PROVE  Listed(qs, trs, S)
<1> SUFFICES ASSUME NEW c \in DOMAIN trs
             PROVE  /\ trs[c] \in Seq(Nat) /\ Sorted(qs, trs[c])
                    /\ Items(trs[c]) = {t \in S : qs[t].c1 = c}
  BY DEF Listed
<1>1. /\ trs[c] \in Seq(Nat) /\ Sorted(ps, trs[c])
      /\ Items(trs[c]) = {t \in S : ps[t].c1 = c}
  BY DEF Listed
<1>2. \A i \in DOMAIN trs[c] : qs[trs[c][i]] = ps[trs[c][i]]
  BY <1>1 DEF Items
<1>3. {t \in S : ps[t].c1 = c} = {t \in S : qs[t].c1 = c}
  OBVIOUS
<1>4. Sorted(qs, trs[c])
  BY <1>1, <1>2 DEF Sorted
<1>5. QED
  BY <1>1, <1>3, <1>4

----------------------------------------------------------------------------
(* The pool *)

LEMMA GroupFacts ==
    ASSUME NEW tm \in Tm
    PROVE  Inv(tm) \in Tm /\ Mul(Inv(tm), tm) = Id /\ Mul(tm, Inv(tm)) = Id
BY GroupAxioms

LEMMA IdentityFacts == Id \in Tm /\ Mul(Id, Id) = Id
BY GroupAxioms

\* Fields of a transition of a pool.
LEMMA LinkFields ==
    ASSUME NEW n, NEW ps \in Seq(Links(n)), NEW t \in DOMAIN ps
    PROVE  /\ ps[t].c1 \in 2 .. n /\ ps[t].c2 \in 2 .. n /\ ps[t].tm \in Tm
           /\ ps[t].reverse \in Nat /\ ps[t].distance \in Nat
           /\ t \in Nat \ {0} /\ DOMAIN ps = 1 .. Len(ps) /\ Len(ps) \in Nat
<1>1. DOMAIN ps = 1 .. Len(ps) /\ Len(ps) \in Nat
  BY LenProperties
<1>2. ps[t] \in Links(n) /\ t \in Nat \ {0}
  BY <1>1, ElementOfSeq
<1>3. QED
  BY <1>1, <1>2 DEF Links

\* A self transition added to a pool.
LEMMA SelfAdded ==
    ASSUME NEW n \in Nat, NEW ps, PoolHolds(n, ps), NEW c \in 2 .. n
    PROVE  LET t == Len(ps) + 1
               new == [c1 |-> c, c2 |-> c, tm |-> Id, reverse |-> t, distance |-> 0]
               qs == Append(ps, new)
           IN  /\ DOMAIN qs = DOMAIN ps \cup {t} /\ t \in Nat \ DOMAIN ps
               /\ \A s \in DOMAIN ps : qs[s] = ps[s]
               /\ qs[t] = new
               /\ PoolHolds(n, qs)
<1> DEFINE t == Len(ps) + 1
           new == [c1 |-> c, c2 |-> c, tm |-> Id, reverse |-> t, distance |-> 0]
           qs == Append(ps, new)
<1>1. ps \in Seq(Links(n)) /\ \A s \in DOMAIN ps : Reversed(ps, s)
  BY DEF PoolHolds
<1>2. DOMAIN ps = 1 .. Len(ps) /\ Len(ps) \in Nat
  BY <1>1, LenProperties
<1>3. new \in Links(n)
  BY <1>2, IdentityFacts DEF Links
<1>4. new.c1 = c /\ new.c2 = c /\ new.tm = Id /\ new.reverse = t /\ new.distance = 0
  OBVIOUS
<1> HIDE DEF new
<1>5. /\ qs \in Seq(Links(n)) /\ Len(qs) = t /\ qs[t] = new
      /\ \A s \in 1 .. Len(ps) : qs[s] = ps[s]
  BY <1>1, <1>2, <1>3, AppendProperties
<1>6. DOMAIN qs = 1 .. t
  BY <1>5, LenProperties
<1> HIDE DEF qs
<1>7. DOMAIN qs = DOMAIN ps \cup {t} /\ t \in Nat \ DOMAIN ps
  BY <1>2, <1>6
<1>8. ASSUME NEW s \in DOMAIN qs PROVE Reversed(qs, s)
  <2>1. CASE s \in DOMAIN ps
    <3>1. Reversed(ps, s)
      BY <1>1, <2>1
    <3>2. ps[s].reverse \in DOMAIN ps
      BY <3>1 DEF Reversed
    <3>3. qs[s] = ps[s] /\ qs[ps[s].reverse] = ps[ps[s].reverse]
      BY <1>2, <1>5, <2>1, <3>2
    <3>4. QED
      BY <1>7, <3>1, <3>2, <3>3 DEF Reversed
  <2>2. CASE s = t
    <3>1. qs[t].reverse = t /\ qs[t].c1 = qs[t].c2 /\ Mul(qs[t].tm, qs[t].tm) = Id
          /\ qs[t].distance = 0
      BY <1>4, <1>5, IdentityFacts
    <3>2. QED
      BY <1>7, <2>2, <3>1 DEF Reversed
  <2>3. QED
    BY <1>7, <2>1, <2>2
<1>9. QED
  BY <1>2, <1>5, <1>7, <1>8 DEF PoolHolds, qs, new

\* A transition and its reverse added to a pool.
LEMMA PairAdded ==
    ASSUME NEW n \in Nat, NEW ps, PoolHolds(n, ps),
           NEW a \in 2 .. n, NEW b \in 2 .. n, NEW tm \in Tm,
           NEW d \in Nat \ {0}, d = 1 => a # b
    PROVE  LET ab == Len(ps) + 1
               ba == Len(ps) + 2
               fw == [c1 |-> a, c2 |-> b, tm |-> tm, reverse |-> ba, distance |-> d]
               bw == [c1 |-> b, c2 |-> a, tm |-> ReverseTm(tm), reverse |-> ab, distance |-> d]
               qs == ps \o <<fw, bw>>
           IN  /\ DOMAIN qs = DOMAIN ps \cup {ab, ba}
               /\ ab \in Nat \ DOMAIN ps /\ ba \in Nat \ DOMAIN ps /\ ab # ba
               /\ \A s \in DOMAIN ps : qs[s] = ps[s]
               /\ qs[ab] = fw /\ qs[ba] = bw
               /\ PoolHolds(n, qs)
<1> DEFINE ab == Len(ps) + 1
           ba == Len(ps) + 2
           fw == [c1 |-> a, c2 |-> b, tm |-> tm, reverse |-> ba, distance |-> d]
           bw == [c1 |-> b, c2 |-> a, tm |-> ReverseTm(tm), reverse |-> ab, distance |-> d]
           qs == ps \o <<fw, bw>>
<1>1. ps \in Seq(Links(n)) /\ \A s \in DOMAIN ps : Reversed(ps, s)
  BY DEF PoolHolds
<1>2. DOMAIN ps = 1 .. Len(ps) /\ Len(ps) \in Nat
  BY <1>1, LenProperties
<1>3. ReverseTm(tm) \in Tm /\ Mul(ReverseTm(tm), tm) = Id /\ Mul(tm, ReverseTm(tm)) = Id
  BY GroupFacts DEF ReverseTm
<1>4. fw \in Links(n) /\ bw \in Links(n)
  BY <1>2, <1>3 DEF Links
<1>5. /\ fw.c1 = a /\ fw.c2 = b /\ fw.tm = tm /\ fw.reverse = ba /\ fw.distance = d
      /\ bw.c1 = b /\ bw.c2 = a /\ bw.tm = ReverseTm(tm) /\ bw.reverse = ab /\ bw.distance = d
  OBVIOUS
<1> HIDE DEF fw, bw
<1>6. <<fw, bw>> \in Seq(Links(n)) /\ Len(<<fw, bw>>) = 2 /\ <<fw, bw>>[1] = fw /\ <<fw, bw>>[2] = bw
  BY <1>4
<1>7. /\ qs \in Seq(Links(n)) /\ Len(qs) = Len(ps) + 2
      /\ \A s \in 1 .. Len(ps) + 2 :
            qs[s] = IF s <= Len(ps) THEN ps[s] ELSE <<fw, bw>>[s - Len(ps)]
  BY <1>1, <1>6, ConcatProperties
<1>8. DOMAIN qs = 1 .. Len(ps) + 2
  BY <1>7, LenProperties
<1> HIDE DEF qs
<1>9. /\ DOMAIN qs = DOMAIN ps \cup {ab, ba}
      /\ ab \in Nat \ DOMAIN ps /\ ba \in Nat \ DOMAIN ps /\ ab # ba
  BY <1>2, <1>8
<1>10. \A s \in DOMAIN ps : qs[s] = ps[s]
  BY <1>2, <1>7
<1>11. qs[ab] = fw /\ qs[ba] = bw
  <2>1. ab - Len(ps) = 1 /\ ba - Len(ps) = 2 /\ ab \in 1 .. Len(ps) + 2 /\ ba \in 1 .. Len(ps) + 2
        /\ ~(ab <= Len(ps)) /\ ~(ba <= Len(ps))
    BY <1>2
  <2>2. QED
    BY <1>6, <1>7, <2>1
<1>12. ASSUME NEW s \in DOMAIN qs PROVE Reversed(qs, s)
  <2>1. CASE s \in DOMAIN ps
    <3>1. Reversed(ps, s)
      BY <1>1, <2>1
    <3>2. ps[s].reverse \in DOMAIN ps
      BY <3>1 DEF Reversed
    <3>3. qs[s] = ps[s] /\ qs[ps[s].reverse] = ps[ps[s].reverse]
      BY <1>10, <2>1, <3>2
    <3>4. QED
      BY <1>9, <3>1, <3>2, <3>3 DEF Reversed
  <2> HIDE DEF ab, ba
  <2>2. CASE s = ab
    BY <1>3, <1>5, <1>9, <1>11, <2>2 DEF Reversed
  <2>3. CASE s = ba
    BY <1>3, <1>5, <1>9, <1>11, <2>3 DEF Reversed
  <2>4. QED
    BY <1>9, <2>1, <2>2, <2>3
<1>13. QED
  BY <1>7, <1>9, <1>10, <1>11, <1>12 DEF PoolHolds, qs, fw, bw

\* Ways of two hops survive and arise with transitions of distance 1 only.
LEMMA WayStays ==
    ASSUME NEW ps, NEW qs, NEW a, NEW b, DOMAIN ps \subseteq DOMAIN qs,
           \A t \in DOMAIN ps : qs[t] = ps[t],
           \A t \in DOMAIN qs \ DOMAIN ps : qs[t].distance # 1
    PROVE  Way(qs, a, b) <=> Way(ps, a, b)
<1>1. ASSUME NEW t \in DOMAIN qs, qs[t].distance = 1 PROVE t \in DOMAIN ps /\ qs[t] = ps[t]
  BY <1>1
<1>2. QED
  BY <1>1 DEF Way

\* A way of two hops can be walked backwards.
LEMMA WayReversed ==
    ASSUME NEW n, NEW ps, PoolHolds(n, ps), NEW a, NEW b, Way(ps, a, b)
    PROVE  Way(ps, b, a)
<1>1. PICK t \in DOMAIN ps : /\ ps[t].c1 = a /\ ps[t].distance = 1
                             /\ \/ ps[t].c2 = b
                                \/ \E s \in DOMAIN ps : /\ ps[s].distance = 1
                                                        /\ ps[s].c1 = ps[t].c2
                                                        /\ ps[s].c2 = b
  BY DEF Way
<1>2. \A s \in DOMAIN ps : /\ ps[s].reverse \in DOMAIN ps
                           /\ ps[ps[s].reverse].c1 = ps[s].c2 /\ ps[ps[s].reverse].c2 = ps[s].c1
                           /\ ps[ps[s].reverse].distance = ps[s].distance
  BY DEF PoolHolds, Reversed
<1>3. CASE ps[t].c2 = b
  BY <1>1, <1>2, <1>3 DEF Way
<1>4. CASE \E s \in DOMAIN ps : ps[s].distance = 1 /\ ps[s].c1 = ps[t].c2 /\ ps[s].c2 = b
  <2>1. PICK s \in DOMAIN ps : ps[s].distance = 1 /\ ps[s].c1 = ps[t].c2 /\ ps[s].c2 = b
    BY <1>4
  <2>2. /\ ps[s].reverse \in DOMAIN ps /\ ps[ps[s].reverse].c1 = b
        /\ ps[ps[s].reverse].distance = 1
        /\ ps[t].reverse \in DOMAIN ps /\ ps[ps[t].reverse].distance = 1
        /\ ps[ps[t].reverse].c1 = ps[ps[s].reverse].c2 /\ ps[ps[t].reverse].c2 = a
    BY <1>1, <1>2, <2>1
  <2>3. QED
    BY <2>2 DEF Way
<1>5. QED
  BY <1>1, <1>3, <1>4

----------------------------------------------------------------------------
(* Searches *)

LEMMA ListFacts ==
    ASSUME IInv
    PROVE  /\ Len(clusters) \in Nat \ {0} /\ DOMAIN transitions = 1 .. Len(clusters)
           /\ DOMAIN pool = 1 .. Len(pool) /\ Len(pool) \in Nat
           /\ \A c \in DOMAIN transitions :
                 /\ transitions[c] \in Seq(Nat) /\ Sorted(pool, transitions[c])
                 /\ DOMAIN transitions[c] = 1 .. Len(transitions[c])
                 /\ \A i \in DOMAIN transitions[c] :
                       transitions[c][i] \in DOMAIN pool /\ T(transitions[c][i]).c1 = c
           /\ \A t \in DOMAIN pool :
                 /\ T(t).c1 \in Pointers /\ T(t).c2 \in Pointers /\ T(t).tm \in Tm
                 /\ T(t).distance \in Nat /\ t \in Nat \ {0}
                 /\ \E i \in DOMAIN transitions[T(t).c1] : transitions[T(t).c1][i] = t
<1>1. Len(clusters) \in Nat \ {0} /\ DOMAIN transitions = 1 .. Len(clusters)
  BY EmptySeq, LenProperties DEF IInv
<1>2. pool \in Seq(Links(Len(clusters))) /\ DOMAIN pool = 1 .. Len(pool) /\ Len(pool) \in Nat
  BY LenProperties DEF IInv, PoolHolds
<1>3. ASSUME NEW c \in DOMAIN transitions
      PROVE  /\ transitions[c] \in Seq(Nat) /\ Sorted(pool, transitions[c])
             /\ DOMAIN transitions[c] = 1 .. Len(transitions[c])
             /\ Items(transitions[c]) = {t \in DOMAIN pool : T(t).c1 = c}
             /\ \A i \in DOMAIN transitions[c] :
                   transitions[c][i] \in DOMAIN pool /\ T(transitions[c][i]).c1 = c
  <2>1. /\ transitions[c] \in Seq(Nat) /\ Sorted(pool, transitions[c])
        /\ Items(transitions[c]) = {t \in DOMAIN pool : pool[t].c1 = c}
    BY DEF IInv, Listed
  <2>2. QED
    BY <2>1, LenProperties DEF Items, T
<1>4. ASSUME NEW t \in DOMAIN pool
      PROVE  /\ T(t).c1 \in Pointers /\ T(t).c2 \in Pointers /\ T(t).tm \in Tm
             /\ T(t).distance \in Nat /\ t \in Nat \ {0}
             /\ \E i \in DOMAIN transitions[T(t).c1] : transitions[T(t).c1][i] = t
  <2>1. /\ T(t).c1 \in Pointers /\ T(t).c2 \in Pointers /\ T(t).tm \in Tm
        /\ T(t).distance \in Nat /\ t \in Nat \ {0}
    BY <1>2, LinkFields DEF T, Pointers
  <2>2. T(t).c1 \in DOMAIN transitions
    BY <1>1, <2>1 DEF Pointers
  <2>3. t \in Items(transitions[T(t).c1])
    BY <1>3, <2>2
  <2>4. QED
    BY <2>1, <2>3 DEF Items
<1>5. QED
  BY <1>1, <1>2, <1>3, <1>4

\* findTransition answers with the shortest transition from c to d, if any.
LEMMA FirstToFinds ==
    ASSUME IInv, NEW c \in DOMAIN transitions, NEW d
    PROVE  \/ /\ FirstTo(c, d) = Null
              /\ \A t \in DOMAIN pool : ~(T(t).c1 = c /\ T(t).c2 = d)
           \/ /\ FirstTo(c, d) \in DOMAIN pool /\ FirstTo(c, d) # Null
              /\ T(FirstTo(c, d)).c1 = c /\ T(FirstTo(c, d)).c2 = d
              /\ \A t \in DOMAIN pool : T(t).c1 = c /\ T(t).c2 = d
                    => T(FirstTo(c, d)).distance <= T(t).distance
<1> DEFINE list == transitions[c]
           I == {i \in 1 .. Len(list) : T(list[i]).c2 = d}
<1>1. /\ list \in Seq(Nat) /\ DOMAIN list = 1 .. Len(list) /\ Sorted(pool, list)
      /\ \A i \in 1 .. Len(list) : list[i] \in DOMAIN pool /\ T(list[i]).c1 = c
  BY ListFacts
<1>2. \A t \in DOMAIN pool : /\ T(t).distance \in Nat /\ t \in Nat \ {0}
                             /\ T(t).c1 = c => \E i \in 1 .. Len(list) : list[i] = t
  BY <1>1, ListFacts
<1>3. FirstTo(c, d) = LET i == IF I # {} THEN Min(I) ELSE 0 IN IF i = 0 THEN Null ELSE list[i]
  BY DEF FirstTo, SelectInSeq
<1>4. I \subseteq Nat /\ I \subseteq 1 .. Len(list) /\ \A i \in 1 .. Len(list) : i \in I <=> T(list[i]).c2 = d
  OBVIOUS
<1> HIDE DEF I, list
<1>5. CASE I = {}
  <2>1. FirstTo(c, d) = Null
    BY <1>3, <1>5
  <2>2. \A i \in 1 .. Len(list) : T(list[i]).c2 # d
    BY <1>4, <1>5
  <2>3. QED
    BY <1>2, <2>1, <2>2
<1>6. CASE I # {}
  <2> DEFINE m == Min(I)
  <2>1. m \in I /\ \A j \in I : m <= j
    BY <1>4, <1>6, LeastPlace
  <2> HIDE DEF m
  <2>2. m \in 1 .. Len(list) /\ T(list[m]).c2 = d /\ m # 0
    BY <1>4, <2>1
  <2>3. FirstTo(c, d) = list[m]
    BY <1>3, <1>6, <2>2 DEF m
  <2>4. list[m] \in DOMAIN pool /\ T(list[m]).c1 = c /\ list[m] # Null
    BY <1>1, <1>2, <2>2 DEF Null
  <2>5. ASSUME NEW t \in DOMAIN pool, T(t).c1 = c, T(t).c2 = d
        PROVE  T(list[m]).distance <= T(t).distance
    <3>1. PICK i \in 1 .. Len(list) : list[i] = t
      BY <1>2, <2>5
    <3>2. m <= i
      BY <1>4, <2>1, <2>5, <3>1
    <3>3. CASE m = i
      BY <1>2, <3>1, <3>3
    <3>4. CASE m # i
      <4>1. m < i
        BY <2>2, <3>2, <3>4
      <4>2. QED
        BY <1>1, <2>2, <3>1, <4>1 DEF Sorted, T
    <3>5. QED
      BY <3>3, <3>4
  <2>6. QED
    BY <2>2, <2>3, <2>4, <2>5
<1>7. QED
  BY <1>5, <1>6

\* The head of a list is the self transition of its cluster, if there is one.
LEMMA SelfOfFinds ==
    ASSUME IInv, NEW c \in DOMAIN transitions
    PROVE  \/ /\ SelfOf(c) = Null
              /\ \A t \in DOMAIN pool : T(t).c1 = c => T(t).distance > 0
           \/ /\ SelfOf(c) \in DOMAIN pool /\ SelfOf(c) # Null
              /\ transitions[c] # <<>> /\ SelfOf(c) = transitions[c][1]
              /\ T(SelfOf(c)).c1 = c /\ T(SelfOf(c)).c2 = c
              /\ T(SelfOf(c)).distance = 0
<1> DEFINE list == transitions[c]
<1>1. /\ list \in Seq(Nat) /\ DOMAIN list = 1 .. Len(list) /\ Sorted(pool, list)
      /\ \A i \in 1 .. Len(list) : list[i] \in DOMAIN pool /\ T(list[i]).c1 = c
  BY ListFacts
<1>2. \A t \in DOMAIN pool : /\ T(t).distance \in Nat /\ t \in Nat \ {0}
                             /\ T(t).c1 = c => \E i \in 1 .. Len(list) : list[i] = t
  BY <1>1, ListFacts
<1>3. \A t \in DOMAIN pool : /\ T(t).reverse = t <=> T(t).distance = 0
                             /\ T(t).reverse = t => T(t).c2 = T(t).c1
  BY DEF IInv, PoolHolds, Reversed, T
<1>4. SelfOf(c) = IF list # <<>> /\ IsSelf(Head(list)) THEN Head(list) ELSE Null
  BY DEF SelfOf
<1> HIDE DEF list
<1>5. CASE list = <<>>
  <2>1. Len(list) = 0
    BY <1>5
  <2>2. SelfOf(c) = Null
    BY <1>4, <1>5
  <2>3. QED
    BY <1>2, <2>1, <2>2
<1>6. CASE list # <<>>
  <2>1. Len(list) \in Nat \ {0} /\ Head(list) = list[1]
    BY <1>1, <1>6, EmptySeq
  <2>2. 1 \in 1 .. Len(list) /\ list[1] \in DOMAIN pool /\ T(list[1]).c1 = c
    BY <1>1, <2>1
  <2>3. CASE IsSelf(list[1])
    <3>1. SelfOf(c) = list[1]
      BY <1>4, <1>6, <2>1, <2>3
    <3>2. QED
      BY <1>2, <1>3, <1>6, <2>2, <2>3, <3>1 DEF IsSelf, Null, list
  <2>4. CASE ~IsSelf(list[1])
    <3>1. SelfOf(c) = Null
      BY <1>4, <2>1, <2>4
    <3>2. ASSUME NEW i \in 1 .. Len(list) PROVE T(list[i]).distance > 0
      <4>1. CASE i = 1
        BY <1>2, <1>3, <2>2, <2>4, <4>1 DEF IsSelf
      <4>2. CASE i # 1
        <5>1. 1 < i
          BY <4>2
        <5>2. QED
          BY <1>1, <2>2, <5>1 DEF Sorted, T
      <4>3. QED
        BY <4>1, <4>2
    <3>3. QED
      BY <1>2, <3>1, <3>2
  <2>5. QED
    BY <2>3, <2>4
<1>7. QED
  BY <1>5, <1>6

\* createClusterTransition returns an existing transition between its clusters.
LEMMA ExistingFinds ==
    ASSUME IInv, NEW a \in DOMAIN transitions, NEW b, NEW tm
    PROVE  \/ ExistingTransition(a, b, tm) = Null
           \/ /\ ExistingTransition(a, b, tm) \in DOMAIN pool
              /\ ExistingTransition(a, b, tm) # Null
              /\ T(ExistingTransition(a, b, tm)).c1 = a
              /\ T(ExistingTransition(a, b, tm)).c2 = b
<1>1. CASE a = b /\ tm = Id
  BY <1>1, SelfOfFinds DEF ExistingTransition
<1>2. CASE ~(a = b /\ tm = Id)
  <2> DEFINE list == transitions[a]
             I == {i \in 1 .. Len(list) : T(list[i]).c2 = b /\ T(list[i]).tm = tm}
  <2>1. \A i \in 1 .. Len(list) : /\ list[i] \in DOMAIN pool /\ T(list[i]).c1 = a
                                  /\ list[i] \in Nat \ {0}
    BY ListFacts
  <2>2. ExistingTransition(a, b, tm)
           = LET i == IF I # {} THEN Min(I) ELSE 0 IN IF i = 0 THEN Null ELSE list[i]
    BY <1>2 DEF ExistingTransition, SelectInSeq
  <2>3. I \subseteq Nat /\ \A i \in I : i \in 1 .. Len(list) /\ i # 0 /\ T(list[i]).c2 = b
    OBVIOUS
  <2> HIDE DEF I, list
  <2>4. CASE I = {}
    BY <2>2, <2>4
  <2>5. CASE I # {}
    <3>1. Min(I) \in I
      BY <2>3, <2>5, LeastPlace
    <3>2. Min(I) \in 1 .. Len(list) /\ Min(I) # 0 /\ T(list[Min(I)]).c2 = b
      BY <2>3, <3>1
    <3>3. ExistingTransition(a, b, tm) = list[Min(I)]
      BY <2>2, <2>5, <3>2
    <3>4. QED
      BY <2>1, <3>2, <3>3 DEF Null
  <2>6. QED
    BY <2>4, <2>5
<1>3. QED
  BY <1>1, <1>2

----------------------------------------------------------------------------
(* What a step does to the graph *)

\* The published transitions after a pair was added and published.
LEMMA PairPublished ==
    ASSUME NEW ps, NEW qs, NEW cts \in Seq(Nat), NEW ab \in Nat, NEW ba,
           \A t \in DOMAIN ps : Reversed(ps, t) /\ Published(ps, cts, t),
           \A i \in DOMAIN cts : cts[i] \in DOMAIN ps,
           DOMAIN qs = DOMAIN ps \cup {ab, ba}, \A t \in DOMAIN ps : qs[t] = ps[t],
           ab \notin DOMAIN ps, ba \notin DOMAIN ps, ab # ba,
           qs[ab].reverse = ba, qs[ba].reverse = ab
    PROVE  /\ Append(cts, ab) \in Seq(Nat)
           /\ \A i \in DOMAIN Append(cts, ab) : Append(cts, ab)[i] \in DOMAIN qs
           /\ \A t \in DOMAIN qs : Published(qs, Append(cts, ab), t)
<1> DEFINE n == Len(cts)
           new == Append(cts, ab)
<1>1. n \in Nat /\ DOMAIN cts = 1 .. n
  BY LenProperties
<1>2. /\ new \in Seq(Nat) /\ Len(new) = n + 1 /\ new[n + 1] = ab
      /\ \A i \in 1 .. n : new[i] = cts[i]
  BY AppendProperties
<1>3. DOMAIN new = 1 .. n + 1
  BY <1>2, LenProperties
<1> HIDE DEF new, n
<1>4. \A i \in 1 .. n + 1 : i \in 1 .. n \/ i = n + 1
  BY <1>1
<1>5. n + 1 \in 1 .. n + 1 /\ \A i \in 1 .. n : i \in 1 .. n + 1
  BY <1>1
<1>6. \A i \in DOMAIN new : new[i] \in DOMAIN qs
  BY <1>1, <1>2, <1>3, <1>4
<1>7. ASSUME NEW t \in DOMAIN qs PROVE Published(qs, new, t)
  <2>1. CASE t \in DOMAIN ps
    <3>1. /\ ps[t].reverse \in DOMAIN ps /\ qs[t].reverse = ps[t].reverse
          /\ Published(ps, cts, t)
      BY <2>1 DEF Reversed
    <3>2. CASE ps[t].reverse = t
      <4>1. \A i \in 1 .. n : cts[i] # t
        BY <1>1, <3>1, <3>2 DEF Published
      <4>2. \A i \in DOMAIN new : new[i] # t
        BY <1>2, <1>3, <1>4, <2>1, <4>1
      <4>3. QED
        BY <3>1, <3>2, <4>2 DEF Published
    <3>3. CASE ps[t].reverse # t
      <4> DEFINE both == {t, ps[t].reverse}
      <4>0. \E i \in DOMAIN cts : cts[i] \in both /\ \A j \in DOMAIN cts : cts[j] \in both => j = i
        BY <3>1, <3>3, Zenon DEF Published
      <4>1. PICK i \in 1 .. n : /\ cts[i] \in {t, ps[t].reverse}
                                /\ \A j \in 1 .. n : cts[j] \in {t, ps[t].reverse} => j = i
        BY <1>1, <4>0
      <4>2. ab \notin {t, ps[t].reverse}
        BY <2>1, <3>1
      <4>3. /\ i \in DOMAIN new /\ new[i] \in {t, ps[t].reverse}
            /\ \A j \in DOMAIN new : new[j] \in {t, ps[t].reverse} => j = i
        BY <1>2, <1>3, <1>4, <1>5, <4>1, <4>2
      <4>4. QED
        BY <3>1, <3>3, <4>3 DEF Published
    <3>4. QED
      BY <3>2, <3>3
  <2>2. CASE t \in {ab, ba}
    <3>1. qs[t].reverse # t /\ {t, qs[t].reverse} = {ab, ba}
      BY <2>2
    <3>2. \A j \in 1 .. n : new[j] \notin {ab, ba}
      BY <1>1, <1>2
    <3>3. /\ n + 1 \in DOMAIN new /\ new[n + 1] \in {ab, ba}
          /\ \A j \in DOMAIN new : new[j] \in {ab, ba} => j = n + 1
      BY <1>2, <1>3, <1>4, <1>5, <3>2
    <3>4. QED
      BY <3>1, <3>3 DEF Published
  <2>3. QED
    BY <2>1, <2>2
<1>8. QED
  BY <1>2, <1>6, <1>7 DEF new

LEMMA SelfPublished ==
    ASSUME NEW ps, NEW qs, NEW cts, NEW s,
           \A t \in DOMAIN ps : Published(ps, cts, t),
           \A i \in DOMAIN cts : cts[i] \in DOMAIN ps,
           DOMAIN qs = DOMAIN ps \cup {s}, \A t \in DOMAIN ps : qs[t] = ps[t],
           s \notin DOMAIN ps, qs[s].reverse = s
    PROVE  /\ \A i \in DOMAIN cts : cts[i] \in DOMAIN qs
           /\ \A t \in DOMAIN qs : Published(qs, cts, t)
<1>1. ASSUME NEW t \in DOMAIN qs PROVE Published(qs, cts, t)
  <2>1. CASE t = s
    BY <2>1 DEF Published
  <2>2. CASE t \in DOMAIN ps
    <3>1. qs[t].reverse = ps[t].reverse /\ Published(ps, cts, t)
      BY <2>2
    <3>2. QED
      BY <3>1 DEF Published
  <2>3. QED
    BY <2>1, <2>2
<1>2. QED
  BY <1>1

\* Transitions longer than two hops and self transitions part no cached pair.
LEMMA ApartStays ==
    ASSUME NEW ps, NEW qs, NEW dis, NEW n, PoolHolds(n, ps), Apart(ps, dis),
           DOMAIN ps \subseteq DOMAIN qs, \A t \in DOMAIN ps : qs[t] = ps[t],
           \A t \in DOMAIN qs \ DOMAIN ps :
              /\ qs[t].distance # 1
              /\ \A p \in dis : qs[t].c1 = p[1] /\ qs[t].c2 = p[2] => qs[t].distance > 2
    PROVE  Apart(qs, dis)
<1>0. \A p \in dis : p[1] # p[2]
  BY DEF Apart
<1>1. ASSUME NEW p \in dis PROVE ~Way(qs, p[1], p[2])
  <2>1. ~Way(ps, p[1], p[2])
    BY DEF Apart
  <2>2. QED
    BY <2>1, WayStays
<1>2. ASSUME NEW p \in dis, NEW t \in DOMAIN qs, qs[t].c1 = p[1], qs[t].c2 = p[2]
      PROVE  qs[t].distance > 2
  BY <1>2 DEF Apart
<1>3. QED
  BY <1>0, <1>1, <1>2 DEF Apart

LEMMA SameStep ==
    ASSUME IInv, UNCHANGED <<clusters, pool, transitions, clusterTransitions, disconnected>>
    PROVE  IInv'
BY DEF IInv, Pointers

\* createSelfTransition.
LEMMA SelfStep ==
    ASSUME IInv, NEW c \in Pointers, CreateSelfTransition(c), clusters' = clusters
    PROVE  IInv'
<1>1. CASE SelfOf(c) # Null
  BY <1>1, SameStep DEF CreateSelfTransition
<1>2. CASE SelfOf(c) = Null
  <2> DEFINE t == Len(pool) + 1
             n == Len(clusters)
             new == [c1 |-> c, c2 |-> c, tm |-> Id, reverse |-> t, distance |-> 0]
  <2>1. /\ pool' = Append(pool, new)
        /\ transitions' = [transitions EXCEPT ![c] = <<t>> \o @]
        /\ clusterTransitions' = clusterTransitions /\ disconnected' = disconnected
    BY <1>2 DEF CreateSelfTransition
  <2>2. n \in Nat /\ PoolHolds(n, pool) /\ c \in 2 .. n /\ c \in DOMAIN transitions
    BY ListFacts DEF IInv, Pointers
  <2>3. /\ DOMAIN pool' = DOMAIN pool \cup {t} /\ t \in Nat \ DOMAIN pool
        /\ \A s \in DOMAIN pool : pool'[s] = pool[s]
        /\ pool'[t] = new /\ PoolHolds(n, pool')
    BY <2>1, <2>2, SelfAdded
  <2>4. pool'[t].c1 = c /\ pool'[t].c2 = c /\ pool'[t].reverse = t /\ pool'[t].distance = 0
    BY <2>3
  <2> HIDE DEF new, t, n
  <2>5. /\ DOMAIN transitions' = DOMAIN transitions /\ transitions'[c] = <<t>> \o transitions[c]
        /\ \A d \in DOMAIN transitions : d # c => transitions'[d] = transitions[d]
    BY <2>1, <2>2
  <2>6. Listed(pool', transitions, DOMAIN pool)
    BY <2>3, ListedStays DEF IInv
  <2>7. /\ <<t>> \o transitions[c] \in Seq(Nat) /\ Sorted(pool', <<t>> \o transitions[c])
        /\ Items(<<t>> \o transitions[c]) = Items(transitions[c]) \cup {t}
    <3> DEFINE list == transitions[c]
    <3>1. list \in Seq(Nat) /\ Sorted(pool', list)
      BY <2>2, <2>6 DEF Listed
    <3>2. ASSUME NEW i \in DOMAIN list
          PROVE  pool'[list[i]].distance \in Nat \ {0} /\ list[i] # t
      <4>1. list[i] \in DOMAIN pool /\ T(list[i]).c1 = c
        BY <2>2, ListFacts
      <4>2. T(list[i]).distance > 0 /\ T(list[i]).distance \in Nat
        BY <1>2, <2>2, <4>1, SelfOfFinds, ListFacts
      <4>3. QED
        BY <2>3, <4>1, <4>2 DEF T
    <3> HIDE DEF list
    <3>3. <<t>> \o list \in Seq(Nat) /\ Sorted(pool', <<t>> \o list)
          /\ Items(<<t>> \o list) = Items(list) \cup {t}
      BY <2>3, <2>4, <3>1, <3>2, SelfSorted
    <3>4. QED
      BY <3>3 DEF list
  <2>8. Listed(pool', transitions', DOMAIN pool')
    <3> SUFFICES ASSUME NEW d \in DOMAIN transitions
                 PROVE  /\ transitions'[d] \in Seq(Nat) /\ Sorted(pool', transitions'[d])
                        /\ Items(transitions'[d]) = {s \in DOMAIN pool' : pool'[s].c1 = d}
      BY <2>5 DEF Listed
    <3>1. /\ transitions[d] \in Seq(Nat) /\ Sorted(pool', transitions[d])
          /\ Items(transitions[d]) = {s \in DOMAIN pool : pool'[s].c1 = d}
      BY <2>6 DEF Listed
    <3>2. CASE d = c
      <4>1. {s \in DOMAIN pool' : pool'[s].c1 = d} = {s \in DOMAIN pool : pool'[s].c1 = d} \cup {t}
        BY <2>3, <2>4, <3>2
      <4>2. QED
        BY <2>5, <2>7, <3>1, <3>2, <4>1
    <3>3. CASE d # c
      <4>1. {s \in DOMAIN pool' : pool'[s].c1 = d} = {s \in DOMAIN pool : pool'[s].c1 = d}
        BY <2>3, <2>4, <3>3
      <4>2. QED
        BY <2>5, <3>1, <3>3, <4>1
    <3>4. QED
      BY <3>2, <3>3
  <2>9. transitions' \in Seq(Seq(Nat)) /\ Len(transitions') = Len(clusters')
    <3>1. transitions \in Seq(Seq(Nat)) /\ Len(transitions) = n /\ c \in 1 .. Len(transitions)
      BY <2>2 DEF IInv, n
    <3>2. QED
      BY <2>1, <2>7, <3>1, ExceptSeq DEF n
  <2>10. /\ \A i \in DOMAIN clusterTransitions : clusterTransitions[i] \in DOMAIN pool'
         /\ \A s \in DOMAIN pool' : Published(pool', clusterTransitions, s)
    BY <2>3, <2>4, SelfPublished DEF IInv
  <2>11. Apart(pool', disconnected)
    <3>1. Apart(pool, disconnected) /\ disconnected \subseteq Pointers \X Pointers
      BY DEF IInv
    <3>2. \A p \in disconnected : p[1] # p[2]
      BY <3>1 DEF Apart
    <3>3. ASSUME NEW s \in DOMAIN pool' \ DOMAIN pool
          PROVE  /\ pool'[s].distance # 1
                 /\ \A p \in disconnected :
                       pool'[s].c1 = p[1] /\ pool'[s].c2 = p[2] => pool'[s].distance > 2
      BY <2>3, <2>4, <3>2
    <3>4. QED
      BY <2>2, <2>3, <3>1, <3>3, ApartStays
  <2>12. QED
    BY <2>1, <2>3, <2>8, <2>9, <2>10, <2>11 DEF IInv, Pointers, n
<1>3. QED
  BY <1>1, <1>2

\* A pair of transitions was added: what justifies it at each distance.
LEMMA PairStep ==
    ASSUME IInv, NEW a \in Pointers, NEW b \in Pointers, NEW tm \in Tm, NEW d \in Nat \ {0},
           d = 1 => a # b, d = 2 => Way(pool, a, b),
           AddTransitionPair(a, b, tm, d), clusters' = clusters
    PROVE  /\ IInv'
           /\ pool'[Len(pool) + 1].c1 = a /\ pool'[Len(pool) + 1].c2 = b
           /\ pool'[Len(pool) + 1].distance = d
           /\ pool'[pool'[Len(pool) + 1].reverse].c1 = b
           /\ pool'[pool'[Len(pool) + 1].reverse].c2 = a
           /\ pool'[pool'[Len(pool) + 1].reverse].distance = d
           /\ pool'[Len(pool) + 1].reverse = Len(pool) + 2
<1> DEFINE ab == Len(pool) + 1
           ba == Len(pool) + 2
           n == Len(clusters)
           fw == [c1 |-> a, c2 |-> b, tm |-> tm, reverse |-> ba, distance |-> d]
           bw == [c1 |-> b, c2 |-> a, tm |-> ReverseTm(tm), reverse |-> ab, distance |-> d]
           first == [transitions EXCEPT ![a] = Inserted(pool', ab, @)]
<1>1. /\ pool' = pool \o <<fw, bw>>
      /\ transitions' = [first EXCEPT ![b] = Inserted(pool', ba, @)]
      /\ clusterTransitions' = Append(clusterTransitions, ab)
      /\ disconnected' = CacheAfter(d)
  BY DEF AddTransitionPair
<1>2. /\ n \in Nat /\ PoolHolds(n, pool) /\ a \in 2 .. n /\ b \in 2 .. n
      /\ a \in DOMAIN transitions /\ b \in DOMAIN transitions
  BY ListFacts DEF IInv, Pointers
<1>3. /\ DOMAIN pool' = DOMAIN pool \cup {ab, ba}
      /\ ab \in Nat \ DOMAIN pool /\ ba \in Nat \ DOMAIN pool /\ ab # ba
      /\ \A s \in DOMAIN pool : pool'[s] = pool[s]
      /\ pool'[ab] = fw /\ pool'[ba] = bw
      /\ PoolHolds(n, pool')
  BY <1>1, <1>2, PairAdded
<1>4. /\ pool'[ab].c1 = a /\ pool'[ab].c2 = b /\ pool'[ab].reverse = ba /\ pool'[ab].distance = d
      /\ pool'[ba].c1 = b /\ pool'[ba].c2 = a /\ pool'[ba].reverse = ab /\ pool'[ba].distance = d
  BY <1>3
<1> HIDE DEF fw, bw
<1>5. Listed(pool', transitions, DOMAIN pool)
  BY <1>3, ListedStays DEF IInv
<1>6. \A c \in DOMAIN transitions : \A i \in DOMAIN transitions[c] :
         pool'[transitions[c][i]].distance \in Nat
  BY <1>3, ListFacts DEF T
<1>7. /\ DOMAIN first = DOMAIN transitions
      /\ Listed(pool', first, DOMAIN pool \cup {ab})
      /\ \A c \in DOMAIN first : \A i \in DOMAIN first[c] : pool'[first[c][i]].distance \in Nat
  <2> HIDE DEF ab, ba
  <2>1. a \in DOMAIN transitions /\ ab \in Nat /\ ab \notin DOMAIN pool /\ pool'[ab].c1 = a
        /\ pool'[ab].distance \in Nat \ {0}
    BY <1>2, <1>3, <1>4
  <2>2. QED
    BY <1>5, <1>6, <2>1, InsertedListed
<1> HIDE DEF first
<1>8. /\ DOMAIN transitions' = DOMAIN transitions
      /\ Listed(pool', transitions', DOMAIN pool')
  <2> HIDE DEF ab, ba
  <2>1. b \in DOMAIN first /\ ba \in Nat /\ ba \notin DOMAIN pool \cup {ab} /\ pool'[ba].c1 = b
        /\ pool'[ba].distance \in Nat \ {0}
    BY <1>2, <1>3, <1>4, <1>7
  <2> DEFINE second == [first EXCEPT ![b] = Inserted(pool', ba, @)]
  <2>2. /\ DOMAIN second = DOMAIN first
        /\ Listed(pool', second, (DOMAIN pool \cup {ab}) \cup {ba})
    BY <1>7, <2>1, InsertedListed
  <2>3. /\ DOMAIN transitions' = DOMAIN first
        /\ Listed(pool', transitions', (DOMAIN pool \cup {ab}) \cup {ba})
    BY <1>1, <2>2
  <2>4. (DOMAIN pool \cup {ab}) \cup {ba} = DOMAIN pool'
    BY <1>3
  <2>5. QED
    BY <1>7, <2>3, <2>4
<1> HIDE DEF ab, ba
<1>9. transitions' \in Seq(Seq(Nat)) /\ Len(transitions') = Len(clusters')
  <2>1. DOMAIN transitions = 1 .. n
    BY ListFacts DEF n
  <2>2. \A c \in 1 .. n : transitions'[c] \in Seq(Nat)
    BY <1>8, <2>1 DEF Listed
  <2>3. transitions' = [c \in 1 .. n |-> transitions'[c]]
    BY <1>1, <1>7, <2>1
  <2>4. transitions' \in Seq(Seq(Nat))
    BY <1>2, <2>2, <2>3, IsASeq
  <2>5. QED
    BY <1>2, <1>8, <2>1, <2>4, LenProperties DEF n
<1>10. /\ clusterTransitions' \in Seq(Nat)
       /\ \A i \in DOMAIN clusterTransitions' : clusterTransitions'[i] \in DOMAIN pool'
       /\ \A s \in DOMAIN pool' : Published(pool', clusterTransitions', s)
  <2>1. /\ clusterTransitions \in Seq(Nat)
        /\ \A t \in DOMAIN pool : Reversed(pool, t) /\ Published(pool, clusterTransitions, t)
        /\ \A i \in DOMAIN clusterTransitions : clusterTransitions[i] \in DOMAIN pool
    BY DEF IInv, PoolHolds
  <2>2. /\ DOMAIN pool' = DOMAIN pool \cup {ab, ba} /\ \A t \in DOMAIN pool : pool'[t] = pool[t]
        /\ ab \in Nat /\ ab \notin DOMAIN pool /\ ba \notin DOMAIN pool /\ ab # ba
        /\ pool'[ab].reverse = ba /\ pool'[ba].reverse = ab
    BY <1>3, <1>4
  <2>3. /\ Append(clusterTransitions, ab) \in Seq(Nat)
        /\ \A i \in DOMAIN Append(clusterTransitions, ab) : Append(clusterTransitions, ab)[i] \in DOMAIN pool'
        /\ \A t \in DOMAIN pool' : Published(pool', Append(clusterTransitions, ab), t)
    BY <2>1, <2>2, PairPublished
  <2>4. QED
    BY <1>1, <2>3
<1>11. disconnected' \subseteq Pointers \X Pointers /\ Apart(pool', disconnected')
  <2>1. disconnected \subseteq Pointers \X Pointers /\ Apart(pool, disconnected)
    BY DEF IInv
  <2>2. CASE d = 1
    BY <1>1, <2>2 DEF CacheAfter, Apart
  <2>3. CASE d # 1
    <3>1. disconnected' = disconnected
      BY <1>1, <2>3 DEF CacheAfter
    <3>2. ASSUME NEW p \in disconnected, NEW s \in {ab, ba},
                 pool'[s].c1 = p[1], pool'[s].c2 = p[2]
          PROVE  pool'[s].distance > 2
      <4>1. ~Way(pool, p[1], p[2])
        BY <2>1 DEF Apart
      <4>2. (p[1] = a /\ p[2] = b) \/ (p[1] = b /\ p[2] = a)
        BY <1>4, <3>2
      <4>3. ~Way(pool, a, b)
        BY <1>2, <4>1, <4>2, WayReversed
      <4>4. d # 2 /\ pool'[s].distance = d
        BY <1>4, <4>3
      <4>5. QED
        BY <2>3, <4>4
    <3>3. \A s \in DOMAIN pool' \ DOMAIN pool : s \in {ab, ba} /\ pool'[s].distance # 1
      BY <1>3, <1>4, <2>3
    <3>4. DOMAIN pool \subseteq DOMAIN pool'
      BY <1>3
    <3>5. \A s \in DOMAIN pool' \ DOMAIN pool :
             /\ pool'[s].distance # 1
             /\ \A p \in disconnected :
                   pool'[s].c1 = p[1] /\ pool'[s].c2 = p[2] => pool'[s].distance > 2
      BY <3>2, <3>3
    <3>6. Apart(pool', disconnected)
      BY <1>2, <1>3, <2>1, <3>4, <3>5, ApartStays
    <3>7. QED
      BY <2>1, <3>1, <3>6
  <2>4. QED
    BY <2>2, <2>3
<1>12. IInv'
  <2>1. clusters \in Seq(Nat) /\ clusters # <<>>
    BY DEF IInv
  <2>2. QED
    BY <1>3, <1>8, <1>9, <1>10, <1>11, <2>1 DEF IInv, Pointers, n
<1>13. QED
  BY <1>4, <1>12 DEF ab, ba

\* createClusterTransition: what its callers have to know of the distance.
LEMMA CreateStep ==
    ASSUME IInv, NEW a \in Pointers, NEW b \in Pointers, NEW tm \in Tm, NEW d \in Nat \ {0},
           d = 1 => a # b, d = 2 => Way(pool, a, b),
           CreateClusterTransition(a, b, tm, d), clusters' = clusters
    PROVE  IInv'
<1>1. CASE a = b /\ tm = Id
  BY <1>1, SelfStep DEF CreateClusterTransition
<1>2. CASE ~(a = b /\ tm = Id) /\ ExistingTransition(a, b, tm) # Null
  BY <1>2, SameStep DEF CreateClusterTransition
<1>3. CASE ~(a = b /\ tm = Id) /\ ExistingTransition(a, b, tm) = Null
  BY <1>3, PairStep DEF CreateClusterTransition
<1>4. QED
  BY <1>1, <1>2, <1>3

LEMMA CreatedType ==
    ASSUME IInv, NEW a \in Pointers, NEW b, NEW tm
    PROVE  Created(a, b, tm) \in Nat
<1>1. a \in DOMAIN transitions /\ Len(pool) \in Nat /\ \A t \in DOMAIN pool : t \in Nat
  BY ListFacts DEF Pointers
<1>2. QED
  BY <1>1, ExistingFinds DEF Created

\* A cluster more: its list holds its transitions, the others are as before.
LEMMA ListAppended ==
    ASSUME NEW ps, NEW S, NEW trs \in Seq(Seq(Nat)), NEW list \in Seq(Nat),
           Listed(ps, trs, S), Sorted(ps, list),
           Items(list) = {t \in S : ps[t].c1 = Len(trs) + 1}
    PROVE  /\ Append(trs, list) \in Seq(Seq(Nat)) /\ Len(Append(trs, list)) = Len(trs) + 1
           /\ Listed(ps, Append(trs, list), S)
<1> DEFINE new == Append(trs, list)
           n == Len(trs)
<1>1. n \in Nat /\ DOMAIN trs = 1 .. n
  BY LenProperties
<1>2. /\ new \in Seq(Seq(Nat)) /\ Len(new) = n + 1 /\ new[n + 1] = list
      /\ \A i \in 1 .. n : new[i] = trs[i]
  BY AppendProperties
<1>3. DOMAIN new = 1 .. n + 1
  BY <1>2, LenProperties
<1> HIDE DEF new
<1>4. ASSUME NEW c \in DOMAIN new
      PROVE  /\ new[c] \in Seq(Nat) /\ Sorted(ps, new[c])
             /\ Items(new[c]) = {t \in S : ps[t].c1 = c}
  <2>1. CASE c = n + 1
    BY <1>2, <2>1
  <2>2. CASE c # n + 1
    <3>1. c \in DOMAIN trs /\ new[c] = trs[c]
      BY <1>1, <1>2, <1>3, <2>2
    <3>2. QED
      BY <3>1 DEF Listed
  <2>3. QED
    BY <2>1, <2>2
<1>5. Listed(ps, new, S)
  BY <1>4 DEF Listed
<1>6. QED
  BY <1>2, <1>5 DEF new

LEMMA ClusterCounted ==
    ASSUME IInv, NEW id \in Nat, clusters' = Append(clusters, id)
    PROVE  /\ clusters' \in Seq(Nat) /\ clusters' # <<>>
           /\ Len(clusters') = Len(clusters) + 1 /\ Len(clusters) \in Nat \ {0}
           /\ PoolHolds(Len(clusters) + 1, pool)
           /\ disconnected \subseteq (2 .. Len(clusters) + 1) \X (2 .. Len(clusters) + 1)
<1> DEFINE n == Len(clusters)
<1>1. n \in Nat \ {0} /\ clusters \in Seq(Nat)
  BY ListFacts DEF IInv
<1>2. clusters' \in Seq(Nat) /\ Len(clusters') = n + 1
  BY <1>1, AppendProperties
<1>3. clusters' # <<>>
  BY <1>1, <1>2
<1>4. 2 .. n \subseteq 2 .. n + 1
  BY <1>1
<1>5. Links(n) \subseteq Links(n + 1)
  BY <1>4 DEF Links
<1>6. PoolHolds(n + 1, pool)
  <2>1. pool \in Seq(Links(n)) /\ \A t \in DOMAIN pool : Reversed(pool, t)
    BY DEF IInv, PoolHolds
  <2>2. QED
    BY <1>5, <2>1, SeqMonotonic DEF PoolHolds
<1>7. disconnected \subseteq (2 .. n + 1) \X (2 .. n + 1)
  BY <1>4 DEF IInv, Pointers
<1>8. QED
  BY <1>1, <1>2, <1>3, <1>6, <1>7

\* ClusterBuilder::startNew.
LEMMA StartNewStep == IInv /\ StartNew => IInv'
<1> SUFFICES ASSUME IInv, StartNew PROVE IInv'
  OBVIOUS
<1> DEFINE n == Len(clusters)
<1>1. /\ clusters' = Append(clusters, n) /\ transitions' = Append(transitions, <<>>)
      /\ pool' = pool /\ clusterTransitions' = clusterTransitions /\ disconnected' = disconnected
  BY DEF StartNew, CreateCluster
<1>2. n \in Nat \ {0}
  BY ListFacts
<1>3. /\ clusters' \in Seq(Nat) /\ clusters' # <<>> /\ Len(clusters') = n + 1
      /\ PoolHolds(n + 1, pool)
      /\ disconnected \subseteq (2 .. n + 1) \X (2 .. n + 1)
  BY <1>1, <1>2, ClusterCounted
<1>4. <<>> \in Seq(Nat) /\ Sorted(pool, <<>>) /\ Items(<<>>) = {}
  BY DEF Sorted, Items
<1>5. {t \in DOMAIN pool : pool[t].c1 = n + 1} = {}
  <2>1. \A t \in DOMAIN pool : pool[t].c1 \in 2 .. n
    BY ListFacts DEF T, Pointers
  <2>2. QED
    BY <1>2, <2>1
<1>6. /\ transitions \in Seq(Seq(Nat)) /\ Len(transitions) = n
      /\ Listed(pool, transitions, DOMAIN pool)
  BY DEF IInv
<1>7. /\ transitions' \in Seq(Seq(Nat)) /\ Len(transitions') = n + 1
      /\ Listed(pool, transitions', DOMAIN pool)
  <2> HIDE DEF n
  <2>1. Items(<<>>) = {t \in DOMAIN pool : pool[t].c1 = Len(transitions) + 1}
    BY <1>4, <1>5, <1>6
  <2>2. QED
    BY <1>1, <1>4, <1>6, <2>1, ListAppended
<1>8. QED
  BY <1>1, <1>3, <1>7 DEF IInv, Pointers

\* One row of a clusters table.
LEMMA ImportClusterStep ==
    ASSUME IInv, NEW id \in ImportIds, ImportCluster(id) PROVE IInv'
<1> DEFINE n == Len(clusters)
           c == n + 1
           t == Len(pool) + 1
           new == [c1 |-> c, c2 |-> c, tm |-> Id, reverse |-> t, distance |-> 0]
<1>1. /\ clusters' = Append(clusters, id) /\ transitions' = Append(transitions, <<t>>)
      /\ pool' = Append(pool, new)
      /\ clusterTransitions' = clusterTransitions /\ disconnected' = disconnected
  BY DEF ImportCluster, CreateCluster
<1>2. n \in Nat \ {0} /\ id \in Nat
  BY ListFacts, InputAssumption
<1>3. /\ clusters' \in Seq(Nat) /\ clusters' # <<>> /\ Len(clusters') = n + 1
      /\ PoolHolds(n + 1, pool)
      /\ disconnected \subseteq (2 .. n + 1) \X (2 .. n + 1)
  BY <1>1, <1>2, ClusterCounted
<1>4. /\ DOMAIN pool' = DOMAIN pool \cup {t} /\ t \in Nat \ DOMAIN pool
      /\ \A s \in DOMAIN pool : pool'[s] = pool[s]
      /\ pool'[t] = new /\ PoolHolds(n + 1, pool')
  <2>1. n + 1 \in Nat /\ c \in 2 .. (n + 1)
    BY <1>2
  <2>2. QED
    BY <1>1, <1>3, <2>1, SelfAdded
<1>5. pool'[t].c1 = c /\ pool'[t].c2 = c /\ pool'[t].reverse = t /\ pool'[t].distance = 0
  BY <1>4
<1> HIDE DEF new, t
<1>6. \A s \in DOMAIN pool : pool[s].c1 \in 2 .. n /\ pool'[s].c1 \in 2 .. n
  BY <1>4, ListFacts DEF T, Pointers
<1>7. <<t>> \in Seq(Nat) /\ Sorted(pool', <<t>>) /\ Items(<<t>>) = {t}
  <2>1. DOMAIN <<t>> = {1} /\ <<t>>[1] = t /\ <<t>> \in Seq(Nat)
    BY <1>4
  <2>2. QED
    BY <2>1 DEF Sorted, Items
<1>8. {s \in DOMAIN pool' : pool'[s].c1 = n + 1} = {t}
  BY <1>2, <1>4, <1>5, <1>6
<1>9. transitions \in Seq(Seq(Nat)) /\ Len(transitions) = n
  BY DEF IInv
<1>10. Listed(pool', transitions, DOMAIN pool')
  <2>1. Listed(pool', transitions, DOMAIN pool)
    BY <1>4, ListedStays DEF IInv
  <2>2. DOMAIN transitions = 1 .. n
    BY <1>9, LenProperties
  <2>3. ASSUME NEW d \in DOMAIN transitions
        PROVE  {s \in DOMAIN pool' : pool'[s].c1 = d} = {s \in DOMAIN pool : pool'[s].c1 = d}
    BY <1>2, <1>4, <1>5, <2>2
  <2>4. QED
    BY <2>1, <2>3 DEF Listed
<1>11. /\ transitions' \in Seq(Seq(Nat)) /\ Len(transitions') = n + 1
       /\ Listed(pool', transitions', DOMAIN pool')
  <2> HIDE DEF n
  <2>1. Items(<<t>>) = {s \in DOMAIN pool' : pool'[s].c1 = Len(transitions) + 1}
    BY <1>7, <1>8, <1>9
  <2>2. QED
    BY <1>1, <1>7, <1>9, <1>10, <2>1, ListAppended
<1>12. /\ \A i \in DOMAIN clusterTransitions : clusterTransitions[i] \in DOMAIN pool'
       /\ \A s \in DOMAIN pool' : Published(pool', clusterTransitions, s)
  BY <1>4, <1>5, SelfPublished DEF IInv
<1>13. Apart(pool', disconnected)
  <2>1. Apart(pool, disconnected) /\ \A p \in disconnected : p[1] # p[2]
    BY DEF IInv, Apart
  <2>2. ASSUME NEW s \in DOMAIN pool' \ DOMAIN pool
        PROVE  /\ pool'[s].distance # 1
               /\ \A p \in disconnected :
                     pool'[s].c1 = p[1] /\ pool'[s].c2 = p[2] => pool'[s].distance > 2
    BY <1>4, <1>5, <2>1
  <2>3. DOMAIN pool \subseteq DOMAIN pool'
    BY <1>4
  <2>4. QED
    BY <1>3, <1>4, <2>1, <2>2, <2>3, ApartStays
<1>14. clusterTransitions \in Seq(Nat)
  BY DEF IInv
<1>15. QED
  BY <1>1, <1>3, <1>4, <1>11, <1>12, <1>13, <1>14 DEF IInv, Pointers

LEMMA ProductType ==
    ASSUME NEW x \in Tm, NEW y \in Tm PROVE Mul(x, y) \in Tm
BY GroupAxioms

\* connectClusters and the rows of a transitions table join distinct clusters.
LEMMA LinkStep ==
    ASSUME IInv, NEW a \in Pointers, NEW b \in Pointers, NEW tm \in InputTm,
           Connect(a, b, tm) \/ ImportTransition(a, b, tm)
    PROVE  IInv' /\ returned' \in Nat
<1>1. tm \in Tm
  BY InputAssumption
<1>2. /\ a # b /\ CreateClusterTransition(a, b, tm, 1) /\ clusters' = clusters
      /\ returned' = Created(a, b, tm)
  BY DEF Connect, ImportTransition
<1>3. QED
  BY <1>1, <1>2, CreateStep, CreatedType

\* Two transitions of distance 1 that meet are a way of two hops.
LEMMA WayAlong ==
    ASSUME NEW t \in DOMAIN pool, NEW s \in DOMAIN pool,
           T(t).distance = 1, T(s).distance = 1, T(t).c2 = T(s).c1
    PROVE  Way(pool, T(t).c1, T(s).c2)
BY DEF Way, T

LEMMA ReverseFacts ==
    ASSUME IInv, NEW t \in DOMAIN pool
    PROVE  /\ T(t).reverse \in DOMAIN pool
           /\ T(T(t).reverse).c1 = T(t).c2 /\ T(T(t).reverse).c2 = T(t).c1
           /\ T(T(t).reverse).distance = T(t).distance
           /\ T(T(t).reverse).reverse = t
           /\ T(t).reverse = t <=> T(t).distance = 0
           /\ T(t).reverse = t => T(t).c2 = T(t).c1
           /\ T(t).distance = 1 => T(t).c1 # T(t).c2
BY DEF IInv, PoolHolds, Reversed, T

\* Two neighbours of a defect cluster joined across it.
LEMMA JoinStep ==
    ASSUME IInv, NEW t \in DOMAIN pool, NEW s \in DOMAIN pool, JoinAcross(t, s)
    PROVE  IInv' /\ returned' \in Nat
<1> DEFINE tm == Mul(T(s).tm, T(T(t).reverse).tm)
<1>1. /\ T(t).c1 = T(s).c1 /\ T(t).distance = 1 /\ T(s).distance = 1
      /\ CreateClusterTransition(T(t).c2, T(s).c2, tm, 2)
      /\ returned' = Created(T(t).c2, T(s).c2, tm) /\ clusters' = clusters
  BY DEF JoinAcross
<1>2. /\ T(t).reverse \in DOMAIN pool /\ T(T(t).reverse).c1 = T(t).c2
      /\ T(T(t).reverse).c2 = T(s).c1 /\ T(T(t).reverse).distance = 1
  BY <1>1, ReverseFacts
<1>3. Way(pool, T(t).c2, T(s).c2)
  <2>1. Way(pool, T(T(t).reverse).c1, T(s).c2)
    BY <1>1, <1>2, WayAlong
  <2>2. QED
    BY <1>2, <2>1
<1>4. tm \in Tm /\ T(t).c2 \in Pointers /\ T(s).c2 \in Pointers
  BY <1>2, ListFacts, ProductType
<1> HIDE DEF tm
<1>5. QED
  BY <1>1, <1>3, <1>4, CreateStep, CreatedType

\* concatenateClusterTransitions.
LEMMA ConcatenateStep ==
    ASSUME IInv, NEW t \in DOMAIN pool, NEW s \in DOMAIN pool, Concatenate(t, s)
    PROVE  IInv' /\ returned' \in Nat
<1>1. /\ clusters' = clusters /\ T(t).c2 = T(s).c1 /\ t \in Nat /\ s \in Nat
      /\ T(t).c1 \in Pointers /\ T(s).c2 \in Pointers /\ T(t).tm \in Tm /\ T(s).tm \in Tm
      /\ T(t).distance \in Nat /\ T(s).distance \in Nat
  BY ListFacts DEF Concatenate
<1>2. CASE IsSelf(s) \/ IsSelf(t)
  BY <1>1, <1>2, SameStep DEF Concatenate
<1>3. CASE ~IsSelf(s) /\ ~IsSelf(t) /\ T(t).reverse = s
  <2>1. /\ CreateSelfTransition(T(t).c1)
        /\ returned' = Created(T(t).c1, T(t).c1, Id)
    BY <1>3 DEF Concatenate
  <2>2. QED
    BY <1>1, <2>1, SelfStep, CreatedType
<1>4. CASE ~IsSelf(s) /\ ~IsSelf(t) /\ T(t).reverse # s
  <2> DEFINE tm == ProductAlong(t, s)
             d == T(t).distance + T(s).distance
  <2>1. /\ CreateClusterTransition(T(t).c1, T(s).c2, tm, d)
        /\ returned' = Created(T(t).c1, T(s).c2, tm)
    BY <1>4 DEF Concatenate
  <2>2. tm \in Tm
    BY <1>1, ProductType DEF ProductAlong
  <2>3. T(t).distance # 0 /\ T(s).distance # 0
    BY <1>4, ReverseFacts DEF IsSelf
  <2>4. d \in Nat \ {0} /\ d # 1 /\ (d = 2 => T(t).distance = 1 /\ T(s).distance = 1)
    BY <1>1, <2>3
  <2>5. d = 2 => Way(pool, T(t).c1, T(s).c2)
    BY <1>1, <2>4, WayAlong
  <2> HIDE DEF tm, d
  <2>6. QED
    BY <1>1, <2>1, <2>2, <2>4, <2>5, CreateStep, CreatedType
<1>5. QED
  BY <1>2, <1>3, <1>4

----------------------------------------------------------------------------
(* determineClusterTransition *)

\* A candidate of the search consists of two transitions of distance 1.
LEMMA HopFacts ==
    ASSUME IInv, NEW lo \in Pointers, NEW hi \in Pointers,
           \A t \in DOMAIN pool : ~(T(t).c1 = lo /\ T(t).c2 = hi),
           NEW i \in TwoHops(lo, hi)
    PROVE  LET t == transitions[lo][i]
               s == FirstTo(T(t).c2, hi)
           IN  /\ t \in DOMAIN pool /\ s \in DOMAIN pool
               /\ T(t).c1 = lo /\ T(t).c2 = T(s).c1 /\ T(s).c2 = hi
               /\ T(t).distance = 1 /\ T(s).distance = 1
               /\ HopDistance(lo, hi, i) = 2
<1> DEFINE t == transitions[lo][i]
           s == FirstTo(T(t).c2, hi)
<1>1. /\ i \in DOMAIN transitions[lo] /\ T(t).c2 # lo /\ s # Null
      /\ HopDistance(lo, hi, i) = T(t).distance + T(s).distance
      /\ T(t).distance + T(s).distance <= 2
  BY DEF TwoHops, HopDistance, MaximumClusterDistance
<1>2. t \in DOMAIN pool /\ T(t).c1 = lo
  BY <1>1, ListFacts DEF Pointers
<1>3. T(t).c2 \in DOMAIN transitions /\ T(t).distance \in Nat
  BY <1>2, ListFacts DEF Pointers
<1>4. s \in DOMAIN pool /\ T(s).c1 = T(t).c2 /\ T(s).c2 = hi
  BY <1>1, <1>3, FirstToFinds
<1>5. T(s).distance \in Nat
  BY <1>4, ListFacts
<1>6. T(t).distance # 0
  BY <1>1, <1>2, ReverseFacts
<1>7. T(s).distance # 0
  <2>1. SUFFICES ASSUME T(s).distance = 0 PROVE FALSE
    OBVIOUS
  <2>2. T(t).c2 = hi
    BY <1>4, <2>1, ReverseFacts
  <2>3. QED
    BY <1>2, <2>2
<1>8. T(t).distance = 1 /\ T(s).distance = 1
  BY <1>1, <1>3, <1>5, <1>6, <1>7
<1>9. QED
  BY <1>1, <1>2, <1>4, <1>8

\* Without a candidate there is no way of two hops.
LEMMA NoHops ==
    ASSUME IInv, NEW lo \in Pointers, NEW hi \in Pointers,
           \A t \in DOMAIN pool : ~(T(t).c1 = lo /\ T(t).c2 = hi),
           TwoHops(lo, hi) = {}
    PROVE  ~Way(pool, lo, hi)
<1> SUFFICES ASSUME Way(pool, lo, hi) PROVE FALSE
  OBVIOUS
<1>1. PICK t \in DOMAIN pool, s \in DOMAIN pool :
         /\ T(t).c1 = lo /\ T(t).distance = 1
         /\ T(s).distance = 1 /\ T(s).c1 = T(t).c2 /\ T(s).c2 = hi
  BY DEF Way, T
<1>2. PICK i \in DOMAIN transitions[lo] : transitions[lo][i] = t
  BY <1>1, ListFacts
<1>3. T(t).c2 # lo /\ T(t).c2 \in DOMAIN transitions
  BY <1>1, ReverseFacts, ListFacts DEF Pointers
<1> DEFINE f == FirstTo(T(t).c2, hi)
<1>4. f \in DOMAIN pool /\ f # Null /\ T(f).distance <= 1
  BY <1>1, <1>3, FirstToFinds
<1>5. T(f).distance \in Nat
  BY <1>4, ListFacts
<1>6. T(t).distance + T(f).distance <= 2
  BY <1>1, <1>4, <1>5
<1>7. i \in TwoHops(lo, hi)
  BY <1>2, <1>3, <1>4, <1>6 DEF TwoHops, HopDistance, MaximumClusterDistance
<1>8. QED
  BY <1>7

\* The path the search takes: two transitions of distance 1.
LEMMA PathTaken ==
    ASSUME IInv, NEW lo \in Pointers, NEW hi \in Pointers, NEW reversedSearch,
           \A t \in DOMAIN pool : ~(T(t).c1 = lo /\ T(t).c2 = hi),
           TwoHops(lo, hi) # {}, DetermineByPath(lo, hi, reversedSearch)
    PROVE  \E t, s, tm : /\ t \in DOMAIN pool /\ s \in DOMAIN pool
                         /\ T(t).c1 = lo /\ T(t).c2 = T(s).c1 /\ T(s).c2 = hi
                         /\ T(t).distance = 1 /\ T(s).distance = 1
                         /\ tm = ProductAlong(t, s)
                         /\ CreateClusterTransition(lo, hi, tm, 2)
                         /\ returned' = AsAsked(Created(lo, hi, tm), reversedSearch)
<1> DEFINE Best(i) == \A j \in TwoHops(lo, hi) :
                         \/ HopDistance(lo, hi, i) < HopDistance(lo, hi, j)
                         \/ HopDistance(lo, hi, i) = HopDistance(lo, hi, j) /\ i <= j
           best == CHOOSE i \in TwoHops(lo, hi) : Best(i)
           t == transitions[lo][best]
           s == FirstTo(T(t).c2, hi)
           tm == ProductAlong(t, s)
           d == HopDistance(lo, hi, best)
<1>1. /\ CreateClusterTransition(lo, hi, tm, d)
      /\ returned' = AsAsked(Created(lo, hi, tm), reversedSearch)
  BY DEF DetermineByPath
<1>2. best \in TwoHops(lo, hi)
  <2>1. TwoHops(lo, hi) \subseteq Nat
    <3>1. lo \in DOMAIN transitions
      BY ListFacts DEF Pointers
    <3>2. DOMAIN transitions[lo] \subseteq Nat
      BY <3>1, ListFacts
    <3>3. QED
      BY <3>2 DEF TwoHops
  <2>2. PICK m \in TwoHops(lo, hi) : \A j \in TwoHops(lo, hi) : m <= j
    BY <2>1, LeastNatural
  <2>3. \A j \in TwoHops(lo, hi) : HopDistance(lo, hi, j) = 2
    BY HopFacts
  <2>4. Best(m)
    BY <2>2, <2>3
  <2> HIDE DEF Best
  <2>5. QED
    BY <2>2, <2>4
<1> HIDE DEF best
<1>3. /\ t \in DOMAIN pool /\ s \in DOMAIN pool
      /\ T(t).c1 = lo /\ T(t).c2 = T(s).c1 /\ T(s).c2 = hi
      /\ T(t).distance = 1 /\ T(s).distance = 1 /\ d = 2
  BY <1>2, HopFacts
<1> HIDE DEF t, s, tm, d
<1>4. tm = ProductAlong(t, s)
  BY DEF tm
<1>5. QED
  BY <1>1, <1>3, <1>4

\* The search creates a transition of distance 2, returned as it was asked for.
LEMMA PathStep ==
    ASSUME IInv, NEW lo \in Pointers, NEW hi \in Pointers, lo # hi, NEW reversedSearch \in BOOLEAN,
           \A t \in DOMAIN pool : ~(T(t).c1 = lo /\ T(t).c2 = hi),
           TwoHops(lo, hi) # {}, DetermineByPath(lo, hi, reversedSearch), clusters' = clusters
    PROVE  /\ IInv'
           /\ returned' \in Nat \ {Null}
           /\ pool'[returned'].c1 = IF reversedSearch THEN hi ELSE lo
           /\ pool'[returned'].c2 = IF reversedSearch THEN lo ELSE hi
           /\ pool'[returned'].distance = 2
<1>1. PICK t, s, tm : /\ t \in DOMAIN pool /\ s \in DOMAIN pool
                      /\ T(t).c1 = lo /\ T(t).c2 = T(s).c1 /\ T(s).c2 = hi
                      /\ T(t).distance = 1 /\ T(s).distance = 1
                      /\ tm = ProductAlong(t, s)
                      /\ CreateClusterTransition(lo, hi, tm, 2)
                      /\ returned' = AsAsked(Created(lo, hi, tm), reversedSearch)
  BY PathTaken
<1>2. Way(pool, lo, hi)
  <2>1. Way(pool, T(t).c1, T(s).c2)
    BY <1>1, WayAlong
  <2>2. QED
    BY <1>1, <2>1
<1>3. tm \in Tm
  BY <1>1, ListFacts, ProductType DEF ProductAlong
<1>4. ExistingTransition(lo, hi, tm) = Null
  <2>1. lo \in DOMAIN transitions
    BY ListFacts DEF Pointers
  <2>2. QED
    BY <2>1, ExistingFinds
<1>5. AddTransitionPair(lo, hi, tm, 2)
  BY <1>1, <1>4 DEF CreateClusterTransition
<1> DEFINE new == Len(pool) + 1
<1>6. /\ IInv' /\ pool'[new].c1 = lo /\ pool'[new].c2 = hi /\ pool'[new].distance = 2
      /\ pool'[pool'[new].reverse].c1 = hi /\ pool'[pool'[new].reverse].c2 = lo
      /\ pool'[pool'[new].reverse].distance = 2
      /\ pool'[new].reverse = Len(pool) + 2
  BY <1>2, <1>3, <1>5, PairStep
<1>7. returned' = IF reversedSearch THEN pool'[new].reverse ELSE new
  BY <1>1, <1>4 DEF AsAsked, Created
<1>8. new \in Nat \ {0} /\ Len(pool) + 2 \in Nat \ {0}
  BY ListFacts
<1> HIDE DEF new
<1>9. QED
  BY <1>6, <1>7, <1>8 DEF Null

LEMMA IsolatedHasNone ==
    ASSUME IInv, NEW c \in Pointers, Isolated(c), NEW t \in DOMAIN pool, T(t).c1 = c
    PROVE  T(t).distance = 0
<1>1. c \in DOMAIN transitions
  BY ListFacts DEF Pointers
<1>2. PICK i \in DOMAIN transitions[c] : transitions[c][i] = t
  BY ListFacts
<1>3. i \in 1 .. Len(transitions[c])
  BY <1>1, ListFacts
<1>4. CASE transitions[c] = <<>>
  BY <1>3, <1>4
<1>5. CASE SelfOf(c) # Null /\ Len(transitions[c]) = 1
  <2>1. i = 1
    BY <1>3, <1>5
  <2>2. QED
    BY <1>1, <1>2, <1>5, <2>1, SelfOfFinds
<1>6. QED
  BY <1>4, <1>5 DEF Isolated

\* Nothing of distance 1 leaves an isolated cluster, or leads to one.
LEMMA IsolatedApart ==
    ASSUME IInv, NEW a \in Pointers, NEW b \in Pointers, Isolated(a) \/ Isolated(b)
    PROVE  ~Way(pool, a, b)
<1>1. ASSUME NEW c \in Pointers, NEW d, Isolated(c) PROVE ~Way(pool, c, d)
  BY <1>1, IsolatedHasNone DEF Way, T
<1>2. Way(pool, a, b) => Way(pool, b, a)
  BY WayReversed DEF IInv
<1>3. QED
  BY <1>1, <1>2

\* What determineClusterTransition does to the graph, and what it answers.
LEMMA DetermineStep ==
    ASSUME IInv, NEW a \in Pointers, NEW b \in Pointers, Determine(a, b)
    PROVE  /\ IInv' /\ returned' \in Nat
           /\ a # b => IF returned' = Null THEN FirstTo(a, b) = Null /\ ~WithinTwo(a, b)
                       ELSE LET r == pool'[returned'] IN
                            /\ r.c1 = a /\ r.c2 = b
                            /\ \A t \in DOMAIN pool :
                                  T(t).c1 = a /\ T(t).c2 = b => r.distance <= T(t).distance
                            /\ FirstTo(a, b) = Null => r.distance = 2
           /\ \/ disconnected' \subseteq disconnected
              \/ \E p \in Pointers \X Pointers :
                    /\ disconnected' = disconnected \cup {p}
                    /\ clusters[p[1]] <= clusters[p[2]]
<1> DEFINE reversedSearch == clusters[a] > clusters[b]
           lo == IF reversedSearch THEN b ELSE a
           hi == IF reversedSearch THEN a ELSE b
<1>1. /\ a \in DOMAIN transitions /\ b \in DOMAIN transitions
      /\ clusters[a] \in Nat /\ clusters[b] \in Nat
  <2>1. a \in 1 .. Len(clusters) /\ b \in 1 .. Len(clusters) /\ clusters \in Seq(Nat)
    BY ListFacts DEF Pointers, IInv
  <2>2. QED
    BY <2>1, ListFacts, ElementOfSeq
<1>2. /\ clusters' = clusters /\ lo \in Pointers /\ hi \in Pointers
      /\ a # b => lo # hi
      /\ reversedSearch \in BOOLEAN /\ clusters[lo] <= clusters[hi]
  BY <1>1 DEF Determine
<1>3. WithinTwo(a, b) <=> Way(pool, a, b)
  BY DEF WithinTwo, Way, T
<1>4. Way(pool, a, b) => Way(pool, lo, hi)
  BY WayReversed DEF IInv
<1>5. FirstTo(a, b) = Null =>
         /\ \A t \in DOMAIN pool : ~(T(t).c1 = a /\ T(t).c2 = b)
         /\ \A t \in DOMAIN pool : ~(T(t).c1 = lo /\ T(t).c2 = hi)
  <2>1. FirstTo(a, b) = Null => \A t \in DOMAIN pool : ~(T(t).c1 = a /\ T(t).c2 = b)
    BY <1>1, FirstToFinds
  <2>2. \A t \in DOMAIN pool : T(t).c1 = lo /\ T(t).c2 = hi
           => \E s \in DOMAIN pool : T(s).c1 = a /\ T(s).c2 = b
    BY ReverseFacts
  <2>3. QED
    BY <2>1, <2>2
<1>6. CASE a = b
  <2>1. CreateSelfTransition(a) /\ returned' = Created(a, a, Id)
    BY <1>6 DEF Determine
  <2>2. disconnected' = disconnected
    BY <2>1 DEF CreateSelfTransition
  <2>3. QED
    BY <1>2, <1>6, <2>1, <2>2, SelfStep, CreatedType
<1>7. CASE a # b /\ FirstTo(a, b) # Null
  <2>1. /\ returned' = FirstTo(a, b)
        /\ UNCHANGED <<pool, transitions, clusterTransitions, disconnected>>
    BY <1>7 DEF Determine
  <2>2. /\ FirstTo(a, b) \in DOMAIN pool /\ T(FirstTo(a, b)).c1 = a /\ T(FirstTo(a, b)).c2 = b
        /\ \A t \in DOMAIN pool : T(t).c1 = a /\ T(t).c2 = b
                    => T(FirstTo(a, b)).distance <= T(t).distance
    BY <1>1, <1>7, FirstToFinds
  <2>3. returned' \in Nat
    BY <2>1, <2>2, ListFacts
  <2>4. QED
    BY <1>2, <1>7, <2>1, <2>2, <2>3, SameStep DEF T
<1>8. CASE /\ a # b /\ FirstTo(a, b) = Null
           /\ Isolated(a) \/ Isolated(b) \/ <<lo, hi>> \in disconnected
           /\ returned' = Null
           /\ UNCHANGED <<pool, transitions, clusterTransitions, disconnected>>
  <2>1. ~Way(pool, a, b)
    <3>1. CASE Isolated(a) \/ Isolated(b)
      BY <3>1, IsolatedApart
    <3>2. CASE <<lo, hi>> \in disconnected
      <4>1. ~Way(pool, <<lo, hi>>[1], <<lo, hi>>[2])
        BY <3>2 DEF IInv, Apart
      <4>2. QED
        BY <1>4, <4>1
    <3>3. QED
      BY <1>8, <3>1, <3>2
  <2>2. QED
    BY <1>2, <1>3, <1>8, <2>1, SameStep DEF Null
<1>9. CASE /\ a # b /\ FirstTo(a, b) = Null /\ TwoHops(lo, hi) # {}
           /\ DetermineByPath(lo, hi, reversedSearch)
  <2>1. /\ IInv' /\ returned' \in Nat \ {Null}
        /\ pool'[returned'].c1 = (IF reversedSearch THEN hi ELSE lo)
        /\ pool'[returned'].c2 = (IF reversedSearch THEN lo ELSE hi)
        /\ pool'[returned'].distance = 2
    <3> HIDE DEF lo, hi, reversedSearch
    <3>1. QED
      BY <1>2, <1>5, <1>9, PathStep
  <2>2. pool'[returned'].c1 = a /\ pool'[returned'].c2 = b
    BY <2>1
  <2>3. disconnected' \subseteq disconnected
    <3>1. PICK tm, d : CreateClusterTransition(lo, hi, tm, d)
      BY <1>9 DEF DetermineByPath
    <3>2. QED
      BY <3>1 DEF CreateClusterTransition, CreateSelfTransition, AddTransitionPair, CacheAfter
  <2>4. QED
    BY <1>5, <1>9, <2>1, <2>2, <2>3
<1>10. CASE /\ a # b /\ FirstTo(a, b) = Null /\ TwoHops(lo, hi) = {} /\ returned' = Null
            /\ disconnected' = disconnected \cup {<<lo, hi>>}
            /\ UNCHANGED <<pool, transitions, clusterTransitions>>
  <2> HIDE DEF lo, hi, reversedSearch
  <2>1. ~Way(pool, lo, hi)
    BY <1>2, <1>5, <1>10, NoHops
  <2>2. Apart(pool, disconnected')
    <3>1. Apart(pool, disconnected) /\ <<lo, hi>>[1] = lo /\ <<lo, hi>>[2] = hi
      BY DEF IInv
    <3>2. \A t \in DOMAIN pool : ~(pool[t].c1 = lo /\ pool[t].c2 = hi)
      BY <1>5, <1>10 DEF T
    <3>3. QED
      BY <1>2, <1>10, <2>1, <3>1, <3>2 DEF Apart
  <2>3. disconnected' \subseteq Pointers \X Pointers
    BY <1>2, <1>10 DEF IInv
  <2>4. IInv'
    BY <1>2, <1>10, <2>2, <2>3 DEF IInv, Pointers
  <2>5. /\ <<lo, hi>> \in Pointers \X Pointers
        /\ clusters[<<lo, hi>>[1]] <= clusters[<<lo, hi>>[2]]
    BY <1>2
  <2>6. QED
    BY <1>3, <1>4, <1>10, <2>1, <2>4, <2>5 DEF Null
<1>11. QED
  <2>1. \/ a = b
        \/ a # b /\ FirstTo(a, b) # Null
        \/ /\ a # b /\ FirstTo(a, b) = Null
           /\ Isolated(a) \/ Isolated(b) \/ <<lo, hi>> \in disconnected
           /\ returned' = Null
           /\ UNCHANGED <<pool, transitions, clusterTransitions, disconnected>>
        \/ /\ a # b /\ FirstTo(a, b) = Null /\ TwoHops(lo, hi) # {}
           /\ DetermineByPath(lo, hi, reversedSearch)
        \/ /\ a # b /\ FirstTo(a, b) = Null /\ TwoHops(lo, hi) = {} /\ returned' = Null
           /\ disconnected' = disconnected \cup {<<lo, hi>>}
           /\ UNCHANGED <<pool, transitions, clusterTransitions>>
    BY DEF Determine
  <2> HIDE DEF lo, hi, reversedSearch
  <2>2. QED
    BY <1>6, <1>7, <1>8, <1>9, <1>10, <2>1

----------------------------------------------------------------------------
(* The invariant *)

LEMMA InvariantInit == Init => IInv
<1> SUFFICES ASSUME Init PROVE IInv
  OBVIOUS
<1>1. /\ clusters = <<0>> /\ pool = <<>> /\ transitions = <<<<>>>>
      /\ clusterTransitions = <<>> /\ disconnected = {}
  BY DEF Init
<1>2. clusters \in Seq(Nat) /\ clusters # <<>> /\ Len(clusters) = 1
  BY <1>1
<1>3. DOMAIN <<>> = {}
  OBVIOUS
<1>4. PoolHolds(Len(clusters), pool)
  BY <1>1, <1>3 DEF PoolHolds
<1>5. /\ transitions \in Seq(Seq(Nat)) /\ Len(transitions) = Len(clusters)
      /\ DOMAIN transitions = {1} /\ transitions[1] = <<>>
  <2>1. <<>> \in Seq(Nat)
    OBVIOUS
  <2>2. QED
    BY <1>1, <1>2, <2>1
<1>6. Listed(pool, transitions, DOMAIN pool)
  <2>1. <<>> \in Seq(Nat) /\ Sorted(pool, <<>>) /\ Items(<<>>) = {}
    BY <1>3 DEF Sorted, Items
  <2>2. DOMAIN pool = {}
    BY <1>1, <1>3
  <2>3. QED
    BY <1>5, <2>1, <2>2 DEF Listed
<1>7. /\ clusterTransitions \in Seq(Nat) /\ DOMAIN clusterTransitions = {}
      /\ DOMAIN pool = {}
  BY <1>1, <1>3
<1>8. QED
  BY <1>1, <1>2, <1>4, <1>5, <1>6, <1>7 DEF IInv, Apart

LEMMA InvariantStep == IInv /\ [Next]_vars => IInv' /\ (returned \in Nat => returned' \in Nat)
<1> SUFFICES ASSUME IInv, [Next]_vars PROVE IInv' /\ (returned \in Nat => returned' \in Nat)
  OBVIOUS
<1>1. CASE StartNew
  <2>1. returned' = Len(clusters) + 1
    BY <1>1 DEF StartNew
  <2>2. QED
    BY <1>1, <2>1, StartNewStep, ListFacts
<1>2. ASSUME NEW id \in ImportIds, ImportCluster(id) PROVE IInv' /\ returned' \in Nat
  <2>1. returned' = Len(pool) + 1
    BY <1>2 DEF ImportCluster
  <2>2. QED
    BY <1>2, <2>1, ImportClusterStep, ListFacts
<1>3. ASSUME NEW a \in Pointers, NEW b \in Pointers, NEW tm \in InputTm,
             Connect(a, b, tm) \/ ImportTransition(a, b, tm)
      PROVE  IInv' /\ returned' \in Nat
  BY <1>3, LinkStep
<1>4. ASSUME NEW t \in DOMAIN pool, NEW s \in DOMAIN pool, JoinAcross(t, s) \/ Concatenate(t, s)
      PROVE  IInv' /\ returned' \in Nat
  BY <1>4, JoinStep, ConcatenateStep
<1>5. ASSUME NEW a \in Pointers, NEW b \in Pointers, Determine(a, b)
      PROVE  IInv' /\ returned' \in Nat
  BY <1>5, DetermineStep
<1>6. CASE UNCHANGED vars
  BY <1>6, SameStep DEF vars
<1>7. QED
  BY <1>1, <1>2, <1>3, <1>4, <1>5, <1>6 DEF Next

\* The graph is well formed at every step, however long the history.
THEOREM InvariantCorrect == Spec => []IInv
BY InvariantInit, InvariantStep, PTL DEF Spec

\* A transition and its reverse belong together, and one of them is published.
THEOREM ReversePairsCorrect == Spec => []ReversePairs
<1>1. IInv => ReversePairs
  <2> SUFFICES ASSUME IInv, NEW t \in DOMAIN pool
               PROVE  LET r == T(t).reverse IN
                      /\ T(r).reverse = t
                      /\ T(r).c1 = T(t).c2 /\ T(r).c2 = T(t).c1
                      /\ Mul(T(r).tm, T(t).tm) = Id
                      /\ T(r).distance = T(t).distance
                      /\ (r = t) <=> (T(t).distance = 0)
                      /\ Cardinality({i \in DOMAIN clusterTransitions :
                            clusterTransitions[i] \in {t, r}}) = IF r = t THEN 0 ELSE 1
    BY DEF ReversePairs
  <2> DEFINE r == T(t).reverse
             both == {i \in DOMAIN clusterTransitions : clusterTransitions[i] \in {t, r}}
  <2>1. Reversed(pool, t) /\ Published(pool, clusterTransitions, t)
    BY DEF IInv, PoolHolds
  <2>2. /\ T(r).reverse = t
        /\ T(r).c1 = T(t).c2 /\ T(r).c2 = T(t).c1
        /\ Mul(T(r).tm, T(t).tm) = Id
        /\ T(r).distance = T(t).distance
        /\ (r = t) <=> (T(t).distance = 0)
    BY <2>1 DEF Reversed, T
  <2>3. CASE r = t
    <3>1. \A i \in DOMAIN clusterTransitions : clusterTransitions[i] # t
      BY <2>1, <2>3 DEF Published, T
    <3>2. both = {}
      BY <2>3, <3>1
    <3>3. QED
      BY <2>2, <2>3, <3>2, FS_EmptySet
  <2>4. CASE r # t
    <3>1. \E i \in DOMAIN clusterTransitions :
             /\ clusterTransitions[i] \in {t, r}
             /\ \A j \in DOMAIN clusterTransitions : clusterTransitions[j] \in {t, r} => j = i
      BY <2>1, <2>4, Zenon DEF Published, T
    <3>2. PICK i \in DOMAIN clusterTransitions :
             /\ clusterTransitions[i] \in {t, r}
             /\ \A j \in DOMAIN clusterTransitions : clusterTransitions[j] \in {t, r} => j = i
      BY <3>1
    <3>3. both = {i}
      BY <3>2
    <3>4. QED
      BY <2>2, <2>4, <3>3, FS_Singleton
  <2>5. QED
    BY <2>3, <2>4
<1>2. QED
  BY <1>1, InvariantCorrect, PTL

\* The lists hold the transitions of their clusters, sorted by distance.
THEOREM ListsSortedCorrect == Spec => []ListsSorted
<1>1. IInv => ListsSorted
  <2> SUFFICES ASSUME IInv, NEW c \in Pointers
               PROVE  LET list == transitions[c] IN
                      /\ {t \in DOMAIN pool : T(t).c1 = c} = {list[i] : i \in DOMAIN list}
                      /\ \A i, j \in DOMAIN list : i < j =>
                            /\ list[i] # list[j]
                            /\ T(list[i]).distance <= T(list[j]).distance
                            /\ ~IsSelf(list[j])
    BY DEF ListsSorted
  <2>1. c \in DOMAIN transitions
    BY ListFacts DEF Pointers
  <2>2. {t \in DOMAIN pool : T(t).c1 = c} = {transitions[c][i] : i \in DOMAIN transitions[c]}
    BY <2>1 DEF IInv, Listed, Items, T
  <2>3. ASSUME NEW i \in DOMAIN transitions[c], NEW j \in DOMAIN transitions[c], i < j
        PROVE  /\ transitions[c][i] # transitions[c][j]
               /\ T(transitions[c][i]).distance <= T(transitions[c][j]).distance
               /\ ~IsSelf(transitions[c][j])
    <3>1. /\ transitions[c][i] # transitions[c][j]
          /\ T(transitions[c][i]).distance <= T(transitions[c][j]).distance
          /\ T(transitions[c][j]).distance > 0
      BY <2>1, <2>3, ListFacts DEF Sorted, T
    <3>2. transitions[c][j] \in DOMAIN pool
      BY <2>1, ListFacts
    <3>3. T(transitions[c][j]).distance # 0
      BY <3>1
    <3>4. QED
      BY <3>1, <3>2, <3>3, ReverseFacts DEF IsSelf
  <2>4. QED
    BY <2>2, <2>3
<1>2. QED
  BY <1>1, InvariantCorrect, PTL

\* determineClusterTransition answers, and with the shortest transition.
THEOREM DetermineAnswersCorrect == Spec => DetermineAnswers
<1>1. IInv /\ [Next]_vars =>
         [\A a, b \in Pointers : (Determine(a, b) /\ a # b) =>
             IF returned' = Null THEN FirstTo(a, b) = Null /\ ~WithinTwo(a, b)
             ELSE LET r == pool'[returned'] IN
                  /\ r.c1 = a /\ r.c2 = b
                  /\ \A t \in DOMAIN pool :
                        T(t).c1 = a /\ T(t).c2 = b => r.distance <= T(t).distance
                  /\ FirstTo(a, b) = Null => r.distance = 2]_vars
  BY DetermineStep
<1>2. QED
  BY <1>1, InvariantCorrect, PTL DEF Spec, DetermineAnswers

----------------------------------------------------------------------------
(* Types *)

\* What clusterMap holds, whatever the ids.
MapTyped ==
    /\ clusters \in Seq(Nat) /\ Len(clusters) \in 1 .. MaxClusters
    /\ DOMAIN clusterMap = {clusters[p] : p \in DOMAIN clusters}
    /\ \A id \in DOMAIN clusterMap : clusterMap[id] \in DOMAIN clusters

LEMMA ClusterAdded ==
    ASSUME clusters \in Seq(Nat), NEW id \in Nat, CreateCluster(id)
    PROVE  LET n == Len(clusters) IN
           /\ n \in Nat /\ DOMAIN clusters = 1 .. n /\ DOMAIN clusters' = 1 .. n + 1
           /\ clusters' \in Seq(Nat) /\ Len(clusters') = n + 1 /\ clusters'[n + 1] = id
           /\ \A p \in 1 .. n : clusters'[p] = clusters[p]
           /\ {clusters'[p] : p \in DOMAIN clusters'} = {clusters[p] : p \in DOMAIN clusters} \cup {id}
           /\ \A p \in DOMAIN clusters' : p \in DOMAIN clusters \/ p = n + 1
           /\ n + 1 \notin DOMAIN clusters
<1> DEFINE n == Len(clusters)
<1>1. n \in Nat /\ DOMAIN clusters = 1 .. n
  BY LenProperties
<1>2. clusters' = Append(clusters, id)
  BY DEF CreateCluster
<1>3. /\ clusters' \in Seq(Nat) /\ Len(clusters') = n + 1 /\ clusters'[n + 1] = id
      /\ \A p \in 1 .. n : clusters'[p] = clusters[p]
  BY <1>2, AppendProperties
<1>4. DOMAIN clusters' = 1 .. n + 1
  BY <1>3, LenProperties
<1> HIDE DEF n
<1>5. /\ \A p \in 1 .. n + 1 : p \in 1 .. n \/ p = n + 1
      /\ n + 1 \in 1 .. n + 1 /\ n + 1 \notin 1 .. n
      /\ \A p \in 1 .. n : p \in 1 .. n + 1
  BY <1>1
<1>6. {clusters'[p] : p \in 1 .. n + 1} = {clusters[p] : p \in 1 .. n} \cup {id}
  BY <1>3, <1>5
<1>7. QED
  BY <1>1, <1>3, <1>4, <1>5, <1>6 DEF n

LEMMA MapStep == MapTyped /\ [Next]_vars => MapTyped'
<1> SUFFICES ASSUME MapTyped, [Next]_vars PROVE MapTyped'
  OBVIOUS
<1>1. ASSUME NEW id \in Nat, CreateCluster(id), Len(clusters) < MaxClusters PROVE MapTyped'
  <2> DEFINE n == Len(clusters)
  <2>1. /\ n \in Nat /\ DOMAIN clusters = 1 .. n /\ DOMAIN clusters' = 1 .. n + 1
        /\ clusters' \in Seq(Nat) /\ Len(clusters') = n + 1
        /\ {clusters'[p] : p \in DOMAIN clusters'} = {clusters[p] : p \in DOMAIN clusters} \cup {id}
    BY <1>1, ClusterAdded DEF MapTyped
  <2>2. n + 1 \in 1 .. MaxClusters
    BY <1>1, <2>1, InputAssumption
  <2>3. clusterMap' = IF id \in DOMAIN clusterMap THEN clusterMap
                      ELSE [i \in DOMAIN clusterMap \cup {id} |->
                              IF i = id THEN n + 1 ELSE clusterMap[i]]
    BY <1>1 DEF CreateCluster
  <2> HIDE DEF n
  <2>4. DOMAIN clusterMap' = DOMAIN clusterMap \cup {id}
    BY <2>3
  <2>5. \A i \in DOMAIN clusterMap' : clusterMap'[i] \in DOMAIN clusters'
    <3>1. \A i \in DOMAIN clusterMap : clusterMap[i] \in 1 .. n
      BY <2>1 DEF MapTyped
    <3>2. n + 1 \in 1 .. n + 1 /\ \A i \in 1 .. n : i \in 1 .. n + 1
      BY <2>1
    <3>3. QED
      BY <2>1, <2>3, <3>1, <3>2
  <2>6. QED
    BY <2>1, <2>2, <2>4, <2>5 DEF MapTyped
<1>2. CASE UNCHANGED <<clusters, clusterMap>>
  BY <1>2 DEF MapTyped
<1>3. CASE StartNew
  <2>1. Len(clusters) \in Nat
    BY DEF MapTyped
  <2>2. QED
    BY <1>1, <1>3, <2>1 DEF StartNew
<1>4. ASSUME NEW id \in ImportIds, ImportCluster(id) PROVE MapTyped'
  BY <1>1, <1>4, InputAssumption DEF ImportCluster
<1>5. QED
  BY <1>2, <1>3, <1>4 DEF Next, vars, Connect, ImportTransition, JoinAcross, Concatenate, Determine

LEMMA SequenceOver ==
    ASSUME NEW S, NEW R, NEW s \in Seq(R), \A i \in DOMAIN s : s[i] \in S
    PROVE  s \in Seq(S)
<1>1. Len(s) \in Nat /\ DOMAIN s = 1 .. Len(s) /\ s = [i \in 1 .. Len(s) |-> s[i]]
  BY LenProperties
<1>2. QED
  BY <1>1, IsASeq

\* The graph is well typed at every step.
THEOREM TypeCorrect == Spec => []TypeOK
<1>1. Init => MapTyped /\ returned \in Nat
  <2> SUFFICES ASSUME Init PROVE MapTyped /\ returned \in Nat
    OBVIOUS
  <2>1. /\ clusters = <<0>> /\ clusterMap = [i \in {0} |-> 1] /\ returned = 0
    BY DEF Init, Null
  <2>2. clusters \in Seq(Nat) /\ Len(clusters) = 1 /\ DOMAIN clusters = {1} /\ clusters[1] = 0
    BY <2>1
  <2>3. 1 \in 1 .. MaxClusters
    BY InputAssumption
  <2>4. QED
    BY <2>1, <2>2, <2>3 DEF MapTyped
<1>2. IInv /\ MapTyped /\ returned \in Nat => TypeOK
  <2> SUFFICES ASSUME IInv, MapTyped, returned \in Nat PROVE TypeOK
    OBVIOUS
  <2> DEFINE Link == [c1 : Pointers, c2 : Pointers, tm : Tm, reverse : DOMAIN pool, distance : Nat]
  <2>1. pool \in Seq(Links(Len(clusters))) /\ \A t \in DOMAIN pool : Reversed(pool, t)
    BY DEF IInv, PoolHolds
  <2>2. ASSUME NEW t \in DOMAIN pool PROVE pool[t] \in Link
    <3>1. pool[t] \in Links(Len(clusters)) /\ pool[t].reverse \in DOMAIN pool
      BY <2>1, LenProperties, ElementOfSeq DEF Reversed
    <3>2. QED
      BY <3>1 DEF Links, Pointers
  <2>3. pool \in Seq(Link)
    <3> HIDE DEF Link
    <3>1. QED
      BY <2>1, <2>2, SequenceOver
  <2>4. ASSUME NEW c \in DOMAIN transitions PROVE transitions[c] \in Seq(DOMAIN pool)
    BY ListFacts, SequenceOver
  <2>5. transitions \in Seq(Seq(DOMAIN pool))
    BY <2>4, SequenceOver DEF IInv
  <2>6. clusterTransitions \in Seq(DOMAIN pool)
    BY SequenceOver DEF IInv
  <2>7. QED
    BY <2>3, <2>5, <2>6 DEF TypeOK, MapTyped, IInv
<1>3. IInv /\ returned \in Nat /\ [Next]_vars => (returned \in Nat)'
  BY InvariantStep
<1>4. QED
  BY <1>1, <1>2, <1>3, MapStep, InvariantCorrect, PTL DEF Spec

----------------------------------------------------------------------------
(* Ids *)

\* Clusters are numbered by ClusterBuilder or read from a table, not both.
OneNumbering == ImportIds = {} \/ ~AutoIds

Numbered ==
    /\ clusters \in Seq(Nat)
    /\ \A p, q \in DOMAIN clusters : clusters[p] = clusters[q] => p = q
    /\ DOMAIN clusterMap = {clusters[p] : p \in DOMAIN clusters}
    /\ \A p \in DOMAIN clusters : clusterMap[clusters[p]] = p
    /\ ImportIds = {} => \A p \in DOMAIN clusters : clusters[p] = p - 1

LEMMA NumberedInit == Init => Numbered
<1> SUFFICES ASSUME Init PROVE Numbered
  OBVIOUS
<1>1. clusters = <<0>> /\ clusterMap = [i \in {0} |-> 1]
  BY DEF Init
<1>2. clusters \in Seq(Nat) /\ DOMAIN clusters = {1} /\ clusters[1] = 0
  BY <1>1
<1>3. QED
  BY <1>1, <1>2 DEF Numbered

LEMMA NumberedCluster ==
    ASSUME Numbered, NEW id \in Nat, CreateCluster(id), id \notin DOMAIN clusterMap,
           ImportIds = {} => id = Len(clusters)
    PROVE  Numbered'
<1> DEFINE n == Len(clusters)
<1>1. /\ n \in Nat /\ DOMAIN clusters = 1 .. n /\ DOMAIN clusters' = 1 .. n + 1
      /\ clusters' \in Seq(Nat) /\ clusters'[n + 1] = id
      /\ \A p \in 1 .. n : clusters'[p] = clusters[p]
      /\ {clusters'[p] : p \in DOMAIN clusters'} = {clusters[p] : p \in DOMAIN clusters} \cup {id}
      /\ \A p \in DOMAIN clusters' : p \in DOMAIN clusters \/ p = n + 1
      /\ n + 1 \notin DOMAIN clusters
  BY ClusterAdded DEF Numbered
<1>2. clusterMap' = [i \in DOMAIN clusterMap \cup {id} |-> IF i = id THEN n + 1 ELSE clusterMap[i]]
  BY DEF CreateCluster
<1>3. n + 1 - 1 = n /\ (ImportIds = {} => id = n)
  BY <1>1
<1> HIDE DEF n
<1>4. \A p \in 1 .. n : clusters[p] # id /\ clusters[p] \in DOMAIN clusterMap
  BY <1>1 DEF Numbered
<1>5. ASSUME NEW p \in DOMAIN clusters', NEW q \in DOMAIN clusters', clusters'[p] = clusters'[q]
      PROVE  p = q
  BY <1>1, <1>4, <1>5 DEF Numbered
<1>6. DOMAIN clusterMap' = {clusters'[p] : p \in DOMAIN clusters'}
  BY <1>1, <1>2 DEF Numbered
<1>7. ASSUME NEW p \in DOMAIN clusters' PROVE clusterMap'[clusters'[p]] = p
  <2>1. CASE p = n + 1
    BY <1>1, <1>2, <2>1
  <2>2. CASE p \in DOMAIN clusters
    BY <1>1, <1>2, <1>4, <2>2 DEF Numbered
  <2>3. QED
    BY <1>1, <2>1, <2>2
<1>8. ASSUME ImportIds = {}, NEW p \in DOMAIN clusters' PROVE clusters'[p] = p - 1
  <2>1. CASE p = n + 1
    BY <1>1, <1>3, <1>8, <2>1
  <2>2. CASE p \in DOMAIN clusters
    BY <1>1, <1>8, <2>2 DEF Numbered
  <2>3. QED
    BY <1>1, <2>1, <2>2
<1>9. QED
  BY <1>1, <1>5, <1>6, <1>7, <1>8 DEF Numbered

LEMMA NumberedStep ==
    ASSUME OneNumbering PROVE Numbered /\ [Next]_vars => Numbered'
<1> SUFFICES ASSUME Numbered, [Next]_vars PROVE Numbered'
  OBVIOUS
<1>1. CASE UNCHANGED <<clusters, clusterMap>>
  BY <1>1 DEF Numbered
<1>2. CASE StartNew
  <2>1. ImportIds = {} /\ CreateCluster(Len(clusters))
    BY <1>2 DEF StartNew, OneNumbering
  <2>2. Len(clusters) \in Nat /\ DOMAIN clusters = 1 .. Len(clusters)
    BY LenProperties DEF Numbered
  <2>3. \A p \in 1 .. Len(clusters) : clusters[p] = p - 1
    BY <2>1, <2>2 DEF Numbered
  <2>4. \A p \in 1 .. Len(clusters) : p - 1 # Len(clusters)
    BY <2>2
  <2>5. Len(clusters) \notin DOMAIN clusterMap
    BY <2>2, <2>3, <2>4 DEF Numbered
  <2>6. QED
    BY <2>1, <2>2, <2>5, NumberedCluster
<1>3. ASSUME NEW id \in ImportIds, ImportCluster(id) PROVE Numbered'
  <2>1. CreateCluster(id) /\ FindCluster(id) = Null /\ id \in Nat
    BY <1>3, InputAssumption DEF ImportCluster
  <2>2. id \notin DOMAIN clusterMap
    <3>1. SUFFICES ASSUME id \in DOMAIN clusterMap PROVE FindCluster(id) # Null
      BY <2>1
    <3>2. PICK p \in DOMAIN clusters : clusters[p] = id /\ clusterMap[id] = p
      BY <3>1 DEF Numbered
    <3>3. p # 0 /\ id + 1 # 0
      BY <2>1, <3>2, LenProperties DEF Numbered
    <3>4. QED
      BY <3>1, <3>2, <3>3 DEF FindCluster, Null
  <2>3. QED
    BY <2>1, <2>2, NumberedCluster
<1>4. QED
  BY <1>1, <1>2, <1>3 DEF Next, vars, Connect, ImportTransition, JoinAcross, Concatenate, Determine

THEOREM NumberedCorrect == ASSUME OneNumbering PROVE Spec => []Numbered
<1>1. Numbered /\ [Next]_vars => Numbered'
  BY NumberedStep
<1>2. QED
  BY <1>1, NumberedInit, PTL DEF Spec

\* Every lookup by id finds the cluster with that id.
THEOREM FindClusterCorrect == ASSUME OneNumbering PROVE Spec => []FindClusterExact
<1>1. Numbered => FindClusterExact
  <2> SUFFICES ASSUME Numbered, NEW p \in DOMAIN clusters PROVE FindCluster(clusters[p]) = p
    BY DEF FindClusterExact
  <2> DEFINE id == clusters[p]
  <2>1. /\ DOMAIN clusters = 1 .. Len(clusters) /\ Len(clusters) \in Nat /\ id \in Nat
        /\ id \in DOMAIN clusterMap /\ clusterMap[id] = p
    BY LenProperties, ElementOfSeq DEF Numbered
  <2>2. CASE id < Len(clusters) /\ clusters[id + 1] = id
    <3>1. id + 1 \in DOMAIN clusters
      BY <2>1, <2>2
    <3>2. id + 1 = p
      BY <2>2, <3>1 DEF Numbered
    <3>3. QED
      BY <2>2, <3>2 DEF FindCluster
  <2>3. CASE ~(id < Len(clusters) /\ clusters[id + 1] = id)
    BY <2>1, <2>3 DEF FindCluster
  <2>4. QED
    BY <2>2, <2>3
<1>2. QED
  BY <1>1, NumberedCorrect, PTL

\* The assertion in createCluster holds as long as one side numbers the clusters.
THEOREM InsertSucceedsCorrect == ASSUME OneNumbering PROVE Spec => []InsertSucceeds
<1>1. Numbered => InsertSucceeds
  BY DEF Numbered, InsertSucceeds
<1>2. QED
  BY <1>1, NumberedCorrect, PTL

----------------------------------------------------------------------------
(* The cache of disconnected pairs *)

\* Pairs are entered with the smaller id first.
Ordered == \A p \in disconnected : clusters[p[1]] <= clusters[p[2]]

LEMMA CacheShrinks ==
    ASSUME NEW a, NEW b, NEW tm, NEW d, CreateClusterTransition(a, b, tm, d)
    PROVE  disconnected' \subseteq disconnected
BY DEF CreateClusterTransition, CreateSelfTransition, AddTransitionPair, CacheAfter

LEMMA OrderedStep == IInv /\ Ordered /\ [Next]_vars => Ordered'
<1> SUFFICES ASSUME IInv, Ordered, [Next]_vars PROVE Ordered'
  OBVIOUS
<1>1. CASE clusters' = clusters /\ disconnected' \subseteq disconnected
  BY <1>1 DEF Ordered
<1>2. ASSUME NEW id \in Nat, CreateCluster(id), disconnected' = disconnected PROVE Ordered'
  <2>1. clusters \in Seq(Nat) /\ disconnected \subseteq Pointers \X Pointers
    BY DEF IInv
  <2>2. \A p \in 1 .. Len(clusters) : clusters'[p] = clusters[p]
    BY <1>2, <2>1, ClusterAdded
  <2>3. Pointers \subseteq 1 .. Len(clusters)
    BY ListFacts DEF Pointers
  <2>4. ASSUME NEW p \in disconnected PROVE clusters'[p[1]] <= clusters'[p[2]]
    <3>1. p[1] \in Pointers /\ p[2] \in Pointers
      BY <2>1
    <3>2. QED
      BY <2>2, <2>3, <3>1 DEF Ordered
  <2>5. QED
    BY <1>2, <2>4 DEF Ordered
<1>3. CASE StartNew
  <2>1. CreateCluster(Len(clusters)) /\ disconnected' = disconnected
    BY <1>3 DEF StartNew
  <2>2. QED
    BY <1>2, <2>1, ListFacts
<1>4. ASSUME NEW id \in ImportIds, ImportCluster(id) PROVE Ordered'
  BY <1>2, <1>4, InputAssumption DEF ImportCluster
<1>5. ASSUME NEW a \in Pointers, NEW b \in Pointers, NEW tm \in InputTm,
             Connect(a, b, tm) \/ ImportTransition(a, b, tm)
      PROVE  Ordered'
  BY <1>1, <1>5, CacheShrinks DEF Connect, ImportTransition
<1>6. ASSUME NEW t \in DOMAIN pool, NEW s \in DOMAIN pool, JoinAcross(t, s) PROVE Ordered'
  BY <1>1, <1>6, CacheShrinks DEF JoinAcross
<1>7. ASSUME NEW t \in DOMAIN pool, NEW s \in DOMAIN pool, Concatenate(t, s) PROVE Ordered'
  <2>1. disconnected' \subseteq disconnected
    BY <1>7, CacheShrinks DEF Concatenate, CreateSelfTransition
  <2>2. QED
    BY <1>1, <1>7, <2>1 DEF Concatenate
<1>8. ASSUME NEW a \in Pointers, NEW b \in Pointers, Determine(a, b) PROVE Ordered'
  <2>1. clusters' = clusters
    BY <1>8 DEF Determine
  <2>2. \/ disconnected' \subseteq disconnected
        \/ \E p \in Pointers \X Pointers :
              /\ disconnected' = disconnected \cup {p}
              /\ clusters[p[1]] <= clusters[p[2]]
    BY <1>8, DetermineStep
  <2>3. QED
    BY <1>1, <2>1, <2>2 DEF Ordered
<1>9. CASE UNCHANGED vars
  BY <1>1, <1>9 DEF vars
<1>10. QED
  BY <1>3, <1>4, <1>5, <1>6, <1>7, <1>8, <1>9 DEF Next

\* A pair in the cache is disconnected, and stays so while it is there.
THEOREM DisconnectedCorrect == ASSUME OneNumbering PROVE Spec => []DisconnectedSound
<1>1. Init => Ordered
  BY DEF Init, Ordered
<1>2. IInv /\ Numbered /\ Ordered => DisconnectedSound
  <2> SUFFICES ASSUME IInv, Numbered, Ordered, NEW p \in disconnected
               PROVE  /\ clusters[p[1]] < clusters[p[2]]
                      /\ ~WithinTwo(p[1], p[2])
                      /\ \A t \in DOMAIN pool :
                            T(t).c1 = p[1] /\ T(t).c2 = p[2] => T(t).distance > MaximumClusterDistance
    BY DEF DisconnectedSound
  <2>1. /\ p[1] # p[2] /\ ~Way(pool, p[1], p[2])
        /\ \A t \in DOMAIN pool : pool[t].c1 = p[1] /\ pool[t].c2 = p[2] => pool[t].distance > 2
    BY DEF IInv, Apart
  <2>2. p[1] \in 1 .. Len(clusters) /\ p[2] \in 1 .. Len(clusters)
    <3>1. p[1] \in Pointers /\ p[2] \in Pointers
      BY DEF IInv
    <3>2. QED
      BY <3>1, ListFacts DEF Pointers
  <2>3. /\ clusters[p[1]] \in Nat /\ clusters[p[2]] \in Nat /\ clusters[p[1]] # clusters[p[2]]
        /\ clusters[p[1]] <= clusters[p[2]]
    BY <2>1, <2>2, LenProperties, ElementOfSeq DEF Numbered, Ordered
  <2>4. QED
    BY <2>1, <2>3 DEF WithinTwo, Way, T, MaximumClusterDistance
<1>3. QED
  BY <1>1, <1>2, OrderedStep, NumberedCorrect, InvariantCorrect, PTL DEF Spec

----------------------------------------------------------------------------
(* Walks *)

\* What is true of 0, and of n if it is true of n - 1, is true up to any bound.
LEMMA Induction ==
    ASSUME NEW b \in Nat, NEW G, 0 \in G,
           \A n \in 1 .. b : n - 1 \in G => n \in G
    PROVE  0 .. b \subseteq G
<1> DEFINE S == (0 .. b) \ G
<1>1. SUFFICES ASSUME S # {} PROVE FALSE
  OBVIOUS
<1>2. PICK m \in S : \A n \in S : m <= n
  <2>1. S \subseteq Nat
    OBVIOUS
  <2> HIDE DEF S
  <2>2. QED
    BY <1>1, <2>1, LeastNatural
<1>3. m \in 1 .. b /\ m - 1 \in 0 .. b /\ ~(m <= m - 1)
  OBVIOUS
<1>4. m - 1 \in G
  BY <1>2, <1>3
<1>5. QED
  BY <1>3, <1>4

\* The walks that start with a transition of ps and go on as a walk in X.
Extended(ps, X) ==
    UNION {{<<ps[t].c1, w[2], Mul(w[3], ps[t].tm)>> :
                w \in {w \in X : w[1] = ps[t].c2}} :
                    t \in {t \in DOMAIN ps : ps[t].distance = 1}}

\* W holds the walks over the transitions of ps between the clusters of P.
WalksOver(W, P, ps) ==
    W = [n \in 0 .. MaxDistance |->
            IF n = 0 THEN {<<c, c, Id>> : c \in P} ELSE Extended(ps, W[n - 1])]

\* Walks is what its recursion says.
LEMMA WalksDefined == WalksOver(Walks, Pointers, pool)
<1> DEFINE Base == {<<c, c, Id>> : c \in Pointers}
           Body(f, n) == IF n = 0 THEN Base ELSE Extended(pool, f[n - 1])
           Defined(f, b) == f = [n \in 0 .. b |-> Body(f, n)]
           G == {b \in Nat : \E f : Defined(f, b)}
<1>0. MaxDistance \in Nat
  BY InputAssumption
<1>1. 0 \in G
  <2> DEFINE f == [n \in 0 .. 0 |-> Base]
  <2>1. f = [n \in 0 .. 0 |-> Body(f, n)]
    OBVIOUS
  <2>2. QED
    BY <2>1
<1>2. ASSUME NEW b \in 1 .. MaxDistance, b - 1 \in G
      PROVE  b \in G
  <2>1. PICK f : Defined(f, b - 1)
    BY <1>2
  <2> DEFINE g == [n \in 0 .. b |-> IF n = b THEN Extended(pool, f[b - 1]) ELSE f[n]]
  <2>2. ASSUME NEW n \in 0 .. b PROVE g[n] = Body(g, n)
    <3>1. CASE n = b
      BY <3>1
    <3>2. CASE n # b
      <4>1. n \in 0 .. b - 1 /\ (n # 0 => n - 1 \in 0 .. b /\ n - 1 # b)
        BY <3>2
      <4>2. f[n] = Body(f, n)
        BY <2>1, <4>1
      <4>3. n # 0 => g[n - 1] = f[n - 1]
        BY <4>1
      <4>4. QED
        BY <3>2, <4>2, <4>3
    <3>3. QED
      BY <3>1, <3>2
  <2>3. g = [n \in 0 .. b |-> g[n]]
    OBVIOUS
  <2>4. g = [n \in 0 .. b |-> Body(g, n)]
    BY <2>2, <2>3
  <2>5. b \in Nat /\ \E h : Defined(h, b)
    <3> HIDE DEF g
    <3>1. QED
      BY <1>0, <2>4
  <2>6. QED
    BY <2>5
<1>3. \E f : Defined(f, MaxDistance)
  <2>1. MaxDistance \in G
    <3> HIDE DEF G
    <3>1. QED
      BY <1>0, <1>1, <1>2, Induction
  <2>2. QED
    BY <2>1
<1>4. Defined(Walks, MaxDistance)
  <2>1. \E f : f = [n \in 0 .. MaxDistance |->
                       IF n = 0 THEN Base ELSE Extended(pool, f[n - 1])]
    BY <1>3
  <2>2. QED
    BY <2>1 DEF Walks, Extended, T
<1>5. QED
  BY <1>4 DEF WalksOver

\* W holds the walks in a well-formed graph with n clusters.
Walked(n, W, ps) == PoolHolds(n, ps) /\ WalksOver(W, 2 .. n, ps)

\* <<a, b, m>> is a walk of n transitions from a to b with the product m.
WalkIs(W, n, a, b, m) == n \in 0 .. MaxDistance /\ <<a, b, m>> \in W[n]

\* The walks, by their members.
LEMMA WalkMembers ==
    ASSUME NEW W, NEW P, NEW ps, WalksOver(W, P, ps)
    PROVE  /\ \A c \in P : WalkIs(W, 0, c, c, Id)
           /\ \A a, b, m : WalkIs(W, 0, a, b, m) => a \in P /\ b = a /\ m = Id
           /\ \A n \in 1 .. MaxDistance, t \in DOMAIN ps : \A b, m :
                 ps[t].distance = 1 /\ WalkIs(W, n - 1, ps[t].c2, b, m)
                    => WalkIs(W, n, ps[t].c1, b, Mul(m, ps[t].tm))
<1>0. MaxDistance \in Nat
  BY InputAssumption
<1>1. \A n \in 0 .. MaxDistance :
         W[n] = IF n = 0 THEN {<<c, c, Id>> : c \in P} ELSE Extended(ps, W[n - 1])
  BY DEF WalksOver
<1>2. W[0] = {<<c, c, Id>> : c \in P}
  <2>1. 0 \in 0 .. MaxDistance
    BY <1>0
  <2>2. QED
    BY <1>1, <2>1
<1>3. ASSUME NEW n \in 1 .. MaxDistance
      PROVE  W[n] = Extended(ps, W[n - 1]) /\ n - 1 \in 0 .. MaxDistance /\ n \in 0 .. MaxDistance
  <2>1. n \in 0 .. MaxDistance /\ n # 0 /\ n - 1 \in 0 .. MaxDistance
    BY <1>0
  <2>2. QED
    BY <1>1, <2>1
<1>4. ASSUME NEW n \in 1 .. MaxDistance, NEW t \in DOMAIN ps, NEW b, NEW m,
             ps[t].distance = 1, WalkIs(W, n - 1, ps[t].c2, b, m)
      PROVE  WalkIs(W, n, ps[t].c1, b, Mul(m, ps[t].tm))
  <2> DEFINE w == <<ps[t].c2, b, m>>
  <2>1. w \in W[n - 1] /\ w[1] = ps[t].c2 /\ w[2] = b /\ w[3] = m
    BY <1>4 DEF WalkIs
  <2> HIDE DEF w
  <2>2. <<ps[t].c1, w[2], Mul(w[3], ps[t].tm)>> \in Extended(ps, W[n - 1])
    BY <1>4, <2>1 DEF Extended
  <2>3. QED
    BY <1>3, <2>1, <2>2 DEF WalkIs
<1>5. \A c \in P : WalkIs(W, 0, c, c, Id)
  BY <1>0, <1>2 DEF WalkIs
<1>6. \A a, b, m : WalkIs(W, 0, a, b, m) => a \in P /\ b = a /\ m = Id
  BY <1>2 DEF WalkIs
<1>7. QED
  BY <1>4, <1>5, <1>6

\* m is the product along a transition with matrix tm and a walk from a to b.
GoesOn(W, n, a, b, m, tm) == \E x : WalkIs(W, n, a, b, x) /\ m = Mul(x, tm)

\* How a walk of n transitions begins.
LEMMA WalkFirst ==
    ASSUME NEW k, NEW W, NEW ps, Walked(k, W, ps), NEW n \in 1 .. MaxDistance,
           NEW a, NEW b, NEW m, WalkIs(W, n, a, b, m)
    PROVE  \E t \in DOMAIN ps : /\ ps[t].distance = 1 /\ ps[t].c1 = a
                                 /\ GoesOn(W, n - 1, ps[t].c2, b, m, ps[t].tm)
<1> DEFINE P == 2 .. k
<1>0. MaxDistance \in Nat /\ WalksOver(W, P, ps)
  BY InputAssumption DEF Walked
<1> HIDE DEF P
<1>1. n \in 0 .. MaxDistance /\ n # 0 /\ n - 1 \in 0 .. MaxDistance
  BY <1>0
<1>2. \A i \in 0 .. MaxDistance :
         W[i] = IF i = 0 THEN {<<c, c, Id>> : c \in P} ELSE Extended(ps, W[i - 1])
  BY <1>0 DEF WalksOver
<1>3. W[n] = Extended(ps, W[n - 1])
  BY <1>1, <1>2
<1>4. ASSUME NEW w \in W[n - 1] PROVE w = <<w[1], w[2], w[3]>>
  <2>1. CASE n - 1 = 0
    <3>1. PICK c \in P : w = <<c, c, Id>>
      BY <1>1, <1>2, <1>4, <2>1
    <3>2. QED
      BY <3>1
  <2>2. CASE n - 1 # 0
    <3>1. w \in Extended(ps, W[(n - 1) - 1])
      BY <1>1, <1>2, <1>4, <2>2
    <3>2. PICK t \in DOMAIN ps, v \in W[(n - 1) - 1] : w = <<ps[t].c1, v[2], Mul(v[3], ps[t].tm)>>
      BY <3>1 DEF Extended
    <3>3. QED
      BY <3>2
  <2>3. QED
    BY <2>1, <2>2
<1>5. <<a, b, m>> \in Extended(ps, W[n - 1])
  BY <1>3 DEF WalkIs
<1>6. PICK t \in DOMAIN ps, w \in W[n - 1] :
         /\ ps[t].distance = 1 /\ w[1] = ps[t].c2
         /\ <<a, b, m>> = <<ps[t].c1, w[2], Mul(w[3], ps[t].tm)>>
  BY <1>5 DEF Extended
<1>7. a = ps[t].c1 /\ b = w[2] /\ m = Mul(w[3], ps[t].tm) /\ w = <<ps[t].c2, b, w[3]>>
  BY <1>4, <1>6
<1>8. WalkIs(W, n - 1, ps[t].c2, b, w[3])
  BY <1>1, <1>7 DEF WalkIs
<1>9. QED
  BY <1>6, <1>7, <1>8 DEF GoesOn

LEMMA WalkTyped ==
    ASSUME NEW k, NEW W, NEW ps, Walked(k, W, ps)
    PROVE  \A n \in 0 .. MaxDistance : \A a, b, m :
              WalkIs(W, n, a, b, m) => a \in 2 .. k /\ b \in 2 .. k /\ m \in Tm
<1> DEFINE Good(n) == \A a, b, m :
              WalkIs(W, n, a, b, m) => a \in 2 .. k /\ b \in 2 .. k /\ m \in Tm
           G == {n \in Nat : Good(n)}
<1>0. MaxDistance \in Nat /\ WalksOver(W, 2 .. k, ps) /\ ps \in Seq(Links(k))
  BY InputAssumption DEF Walked, PoolHolds
<1>1. 0 \in G
  <2>1. Good(0)
    <3> DEFINE P == 2 .. k
    <3>1. WalksOver(W, P, ps)
      BY <1>0
    <3> HIDE DEF P
    <3>2. \A a, b, m : WalkIs(W, 0, a, b, m) => a \in P /\ b = a /\ m = Id
      BY <3>1, WalkMembers
    <3>3. QED
      BY <3>2, IdentityFacts DEF P
  <2>2. QED
    BY <2>1
<1>2. ASSUME NEW n \in 1 .. MaxDistance, n - 1 \in G PROVE n \in G
  <2>1. SUFFICES ASSUME NEW a, NEW b, NEW m, WalkIs(W, n, a, b, m)
                 PROVE  a \in 2 .. k /\ b \in 2 .. k /\ m \in Tm
    BY <1>0
  <2>2. PICK t \in DOMAIN ps :
           /\ ps[t].distance = 1 /\ ps[t].c1 = a
           /\ GoesOn(W, n - 1, ps[t].c2, b, m, ps[t].tm)
    BY <1>0, <2>1, WalkFirst
  <2>3. PICK x : WalkIs(W, n - 1, ps[t].c2, b, x) /\ m = Mul(x, ps[t].tm)
    BY <2>2 DEF GoesOn
  <2>4. b \in 2 .. k /\ x \in Tm
    BY <1>2, <2>2, <2>3
  <2>5. ps[t].c1 \in 2 .. k /\ ps[t].tm \in Tm
    BY <1>0, LinkFields
  <2>6. QED
    BY <2>2, <2>3, <2>4, <2>5, ProductType
<1>3. 0 .. MaxDistance \subseteq G
  <2> HIDE DEF G
  <2>1. QED
    BY <1>0, <1>1, <1>2, Induction
<1>4. QED
  BY <1>3

\* Walks stay walks in a pool that grows.
LEMMA WalkGrows ==
    ASSUME NEW k, NEW W, NEW ps, Walked(k, W, ps), NEW l, NEW V, NEW qs, Walked(l, V, qs),
           2 .. k \subseteq 2 .. l,
           DOMAIN ps \subseteq DOMAIN qs, \A t \in DOMAIN ps : qs[t] = ps[t]
    PROVE  \A n \in 0 .. MaxDistance : \A a, b, m : WalkIs(W, n, a, b, m) => WalkIs(V, n, a, b, m)
<1> DEFINE G == {n \in Nat : \A a, b, m : WalkIs(W, n, a, b, m) => WalkIs(V, n, a, b, m)}
           P == 2 .. k
           Q == 2 .. l
<1>0. MaxDistance \in Nat /\ WalksOver(W, P, ps) /\ WalksOver(V, Q, qs) /\ P \subseteq Q
  BY InputAssumption DEF Walked
<1> HIDE DEF P, Q
<1>1. 0 \in G
  <2>1. ASSUME NEW a, NEW b, NEW m, WalkIs(W, 0, a, b, m) PROVE WalkIs(V, 0, a, b, m)
    <3>1. a \in P /\ b = a /\ m = Id
      BY <1>0, <2>1, WalkMembers
    <3>2. \A c \in Q : WalkIs(V, 0, c, c, Id)
      BY <1>0, WalkMembers
    <3>3. QED
      BY <1>0, <3>1, <3>2
  <2>2. QED
    BY <2>1
<1>2. ASSUME NEW n \in 1 .. MaxDistance, n - 1 \in G PROVE n \in G
  <2>1. SUFFICES ASSUME NEW a, NEW b, NEW m, WalkIs(W, n, a, b, m)
                 PROVE  WalkIs(V, n, a, b, m)
    BY <1>0
  <2>2. PICK t \in DOMAIN ps :
           /\ ps[t].distance = 1 /\ ps[t].c1 = a
           /\ GoesOn(W, n - 1, ps[t].c2, b, m, ps[t].tm)
    BY <1>0, <2>1, WalkFirst
  <2>3. PICK x : WalkIs(W, n - 1, ps[t].c2, b, x) /\ m = Mul(x, ps[t].tm)
    BY <2>2 DEF GoesOn
  <2>4. t \in DOMAIN qs /\ qs[t] = ps[t]
    OBVIOUS
  <2>5. WalkIs(V, n - 1, qs[t].c2, b, x)
    BY <1>2, <2>2, <2>3, <2>4
  <2>6. WalkIs(V, n, qs[t].c1, b, Mul(x, qs[t].tm))
    BY <1>0, <2>2, <2>3, <2>4, <2>5, WalkMembers
  <2>7. QED
    BY <2>2, <2>3, <2>4, <2>6
<1>3. 0 .. MaxDistance \subseteq G
  <2> HIDE DEF G
  <2>1. QED
    BY <1>0, <1>1, <1>2, Induction
<1>4. QED
  BY <1>3

LEMMA Associative ==
    ASSUME NEW x \in Tm, NEW y \in Tm, NEW z \in Tm
    PROVE  Mul(Mul(x, y), z) = Mul(x, Mul(y, z))
BY GroupAxioms

\* A walk goes on with the walk that starts where it ends.
LEMMA WalkJoined ==
    ASSUME NEW k, NEW W, NEW ps, Walked(k, W, ps), NEW p \in 0 .. MaxDistance,
           NEW b, NEW c, NEW y, WalkIs(W, p, b, c, y)
    PROVE  \A n \in 0 .. MaxDistance - p : \A a, x :
              WalkIs(W, n, a, b, x) => WalkIs(W, n + p, a, c, Mul(y, x))
<1> DEFINE G == {n \in Nat : \A a, x : WalkIs(W, n, a, b, x) => WalkIs(W, n + p, a, c, Mul(y, x))}
<1>0. MaxDistance \in Nat /\ WalksOver(W, 2 .. k, ps) /\ ps \in Seq(Links(k))
      /\ MaxDistance - p \in Nat /\ y \in Tm
  BY InputAssumption, WalkTyped DEF Walked, PoolHolds
<1>1. 0 \in G
  <2>1. ASSUME NEW a, NEW x, WalkIs(W, 0, a, b, x) PROVE WalkIs(W, 0 + p, a, c, Mul(y, x))
    <3>1. b = a /\ x = Id
      <4> DEFINE P == 2 .. k
      <4>1. WalksOver(W, P, ps)
        BY <1>0
      <4> HIDE DEF P
      <4>2. QED
        BY <2>1, <4>1, WalkMembers
    <3>2. Mul(y, Id) = y /\ 0 + p = p
      BY <1>0, GroupAxioms
    <3>3. QED
      BY <3>1, <3>2
  <2>2. QED
    BY <2>1
<1>2. ASSUME NEW n \in 1 .. MaxDistance - p, n - 1 \in G PROVE n \in G
  <2>1. SUFFICES ASSUME NEW a, NEW x, WalkIs(W, n, a, b, x)
                 PROVE  WalkIs(W, n + p, a, c, Mul(y, x))
    BY <1>0
  <2>2. /\ n \in 1 .. MaxDistance /\ n + p \in 1 .. MaxDistance
        /\ (n - 1) + p = (n + p) - 1 /\ n - 1 \in 0 .. MaxDistance
    BY <1>0
  <2>3. PICK t \in DOMAIN ps :
           /\ ps[t].distance = 1 /\ ps[t].c1 = a
           /\ GoesOn(W, n - 1, ps[t].c2, b, x, ps[t].tm)
    BY <1>0, <2>1, <2>2, WalkFirst
  <2>4. PICK z : WalkIs(W, n - 1, ps[t].c2, b, z) /\ x = Mul(z, ps[t].tm)
    BY <2>3 DEF GoesOn
  <2>5. WalkIs(W, (n + p) - 1, ps[t].c2, c, Mul(y, z))
    BY <1>2, <2>2, <2>3, <2>4
  <2>6. WalkIs(W, n + p, ps[t].c1, c, Mul(Mul(y, z), ps[t].tm))
    BY <1>0, <2>2, <2>3, <2>4, <2>5, WalkMembers
  <2>7. z \in Tm /\ ps[t].tm \in Tm
    BY <1>0, <2>2, <2>3, <2>4, WalkTyped, LinkFields
  <2>8. Mul(Mul(y, z), ps[t].tm) = Mul(y, x)
    <3>1. Mul(Mul(y, z), ps[t].tm) = Mul(y, Mul(z, ps[t].tm))
      BY <1>0, <2>7, Associative
    <3>2. QED
      BY <2>4, <3>1
  <2>9. QED
    BY <2>3, <2>4, <2>6, <2>8
<1>3. 0 .. MaxDistance - p \subseteq G
  <2> HIDE DEF G
  <2>1. QED
    BY <1>0, <1>1, <1>2, Induction
<1>4. QED
  BY <1>3

\* Transitions of distance 1 are walks.
LEMMA WalkOfOne ==
    ASSUME NEW k, NEW W, NEW ps, Walked(k, W, ps), NEW t \in DOMAIN ps,
           ps[t].distance = 1, 1 <= MaxDistance
    PROVE  WalkIs(W, 1, ps[t].c1, ps[t].c2, ps[t].tm)
<1> DEFINE P == 2 .. k
<1>1. WalksOver(W, P, ps) /\ ps \in Seq(Links(k)) /\ MaxDistance \in Nat
  BY InputAssumption DEF Walked, PoolHolds
<1>2. ps[t].c2 \in P /\ ps[t].tm \in Tm
  BY <1>1, LinkFields
<1> HIDE DEF P
<1>3. WalkIs(W, 1 - 1, ps[t].c2, ps[t].c2, Id)
  BY <1>1, <1>2, WalkMembers
<1>4. 1 \in 1 .. MaxDistance
  BY <1>1
<1>5. WalkIs(W, 1, ps[t].c1, ps[t].c2, Mul(Id, ps[t].tm))
  BY <1>1, <1>3, <1>4, WalkMembers
<1>6. QED
  BY <1>2, <1>5, GroupAxioms

LEMMA InverseIdentity == Inv(Id) = Id
BY GroupAxioms

\* What undoes a matrix from one side is its inverse.
LEMMA InverseUnique ==
    ASSUME NEW x \in Tm, NEW y \in Tm, Mul(y, x) = Id PROVE y = Inv(x)
<1>1. Inv(x) \in Tm /\ Mul(x, Inv(x)) = Id
  BY GroupFacts
<1>2. Mul(Mul(y, x), Inv(x)) = Mul(y, Mul(x, Inv(x)))
  BY <1>1, GroupAxioms
<1>3. Mul(Id, Inv(x)) = Inv(x) /\ Mul(y, Id) = y
  BY <1>1, GroupAxioms
<1>4. QED
  BY <1>1, <1>2, <1>3

LEMMA InverseOfProduct ==
    ASSUME NEW x \in Tm, NEW y \in Tm PROVE Mul(Inv(x), Inv(y)) = Inv(Mul(y, x))
<1>1. Inv(x) \in Tm /\ Inv(y) \in Tm /\ Mul(y, x) \in Tm /\ Mul(Inv(x), Inv(y)) \in Tm
  BY GroupFacts, ProductType
<1>2. Mul(Mul(Inv(x), Inv(y)), Mul(y, x)) = Mul(Inv(x), Mul(Inv(y), Mul(y, x)))
  BY <1>1, GroupAxioms
<1>3. Mul(Inv(y), Mul(y, x)) = Mul(Mul(Inv(y), y), x)
  BY <1>1, GroupAxioms
<1>4. Mul(Inv(y), y) = Id /\ Mul(Id, x) = x /\ Mul(Inv(x), x) = Id
  BY GroupAxioms
<1>5. QED
  BY <1>1, <1>2, <1>3, <1>4, InverseUnique

\* A walk can be taken back, over the reverse transitions.
LEMMA WalkReversed ==
    ASSUME NEW k, NEW W, NEW ps, Walked(k, W, ps)
    PROVE  \A n \in 0 .. MaxDistance : \A a, b, m :
              WalkIs(W, n, a, b, m) => WalkIs(W, n, b, a, Inv(m))
<1> DEFINE G == {n \in Nat : \A a, b, m : WalkIs(W, n, a, b, m) => WalkIs(W, n, b, a, Inv(m))}
<1>0. MaxDistance \in Nat /\ WalksOver(W, 2 .. k, ps) /\ ps \in Seq(Links(k))
      /\ \A t \in DOMAIN ps : Reversed(ps, t)
  BY InputAssumption DEF Walked, PoolHolds
<1>1. 0 \in G
  <2>1. ASSUME NEW a, NEW b, NEW m, WalkIs(W, 0, a, b, m) PROVE WalkIs(W, 0, b, a, Inv(m))
    <3> DEFINE P == 2 .. k
    <3>1. WalksOver(W, P, ps)
      BY <1>0
    <3> HIDE DEF P
    <3>2. b = a /\ m = Id
      BY <2>1, <3>1, WalkMembers
    <3>3. QED
      BY <2>1, <3>2, InverseIdentity
  <2>2. QED
    BY <2>1
<1>2. ASSUME NEW n \in 1 .. MaxDistance, n - 1 \in G PROVE n \in G
  <2>1. SUFFICES ASSUME NEW a, NEW b, NEW m, WalkIs(W, n, a, b, m)
                 PROVE  WalkIs(W, n, b, a, Inv(m))
    BY <1>0
  <2>2. PICK t \in DOMAIN ps :
           /\ ps[t].distance = 1 /\ ps[t].c1 = a
           /\ GoesOn(W, n - 1, ps[t].c2, b, m, ps[t].tm)
    BY <1>0, <2>1, WalkFirst
  <2>3. PICK x : WalkIs(W, n - 1, ps[t].c2, b, x) /\ m = Mul(x, ps[t].tm)
    BY <2>2 DEF GoesOn
  <2> DEFINE r == ps[t].reverse
  <2>4. /\ r \in DOMAIN ps /\ ps[r].c1 = ps[t].c2 /\ ps[r].c2 = a
        /\ ps[r].distance = 1 /\ Mul(ps[r].tm, ps[t].tm) = Id
    BY <1>0, <2>2, <2>3 DEF Reversed
  <2> HIDE DEF r
  <2>5. ps[t].tm \in Tm /\ ps[r].tm \in Tm
    BY <1>0, <2>4, LinkFields
  <2>6. ps[r].tm = Inv(ps[t].tm)
    BY <2>4, <2>5, InverseUnique
  <2>7. 1 <= MaxDistance /\ 1 \in 0 .. MaxDistance /\ n - 1 \in 0 .. MaxDistance - 1
        /\ (n - 1) + 1 = n /\ n - 1 \in 0 .. MaxDistance
    BY <1>0
  <2>8. WalkIs(W, 1, ps[t].c2, a, ps[r].tm)
    BY <2>4, <2>7, WalkOfOne
  <2>9. WalkIs(W, n - 1, b, ps[t].c2, Inv(x))
    BY <1>2, <2>2, <2>3
  <2>10. WalkIs(W, (n - 1) + 1, b, a, Mul(ps[r].tm, Inv(x)))
    BY <2>7, <2>8, <2>9, WalkJoined
  <2>11. x \in Tm
    BY <2>2, <2>3, <2>7, WalkTyped
  <2>12. Mul(ps[r].tm, Inv(x)) = Inv(m)
    BY <2>2, <2>3, <2>5, <2>6, <2>11, InverseOfProduct
  <2>13. QED
    BY <2>7, <2>10, <2>12
<1>3. 0 .. MaxDistance \subseteq G
  <2> HIDE DEF G
  <2>1. QED
    BY <1>0, <1>1, <1>2, Induction
<1>4. QED
  BY <1>3

\* Every transition of ps is a walk of its length and carries the product.
AllWalk(W, ps) ==
    \A t \in DOMAIN ps : WalkIs(W, ps[t].distance, ps[t].c1, ps[t].c2, ps[t].tm)

\* A pool that grows by self transitions only.
LEMMA SelfWalks ==
    ASSUME NEW k, NEW W, NEW ps, Walked(k, W, ps), AllWalk(W, ps),
           NEW l, NEW V, NEW qs, Walked(l, V, qs), 2 .. k \subseteq 2 .. l,
           DOMAIN ps \subseteq DOMAIN qs, \A t \in DOMAIN ps : qs[t] = ps[t],
           \A t \in DOMAIN qs \ DOMAIN ps :
              qs[t].distance = 0 /\ qs[t].c2 = qs[t].c1 /\ qs[t].tm = Id
    PROVE  AllWalk(V, qs)
<1> DEFINE Q == 2 .. l
<1>0. WalksOver(V, Q, qs) /\ qs \in Seq(Links(l))
  BY DEF Walked, PoolHolds
<1>1. ASSUME NEW t \in DOMAIN ps PROVE WalkIs(V, qs[t].distance, qs[t].c1, qs[t].c2, qs[t].tm)
  <2>1. WalkIs(W, ps[t].distance, ps[t].c1, ps[t].c2, ps[t].tm) /\ qs[t] = ps[t]
    BY DEF AllWalk
  <2>2. ps[t].distance \in 0 .. MaxDistance
    BY <2>1 DEF WalkIs
  <2>3. WalkIs(V, ps[t].distance, ps[t].c1, ps[t].c2, ps[t].tm)
    BY <2>1, <2>2, WalkGrows
  <2>4. QED
    BY <2>1, <2>3
<1>2. ASSUME NEW t \in DOMAIN qs \ DOMAIN ps
      PROVE  WalkIs(V, qs[t].distance, qs[t].c1, qs[t].c2, qs[t].tm)
  <2>1. qs[t].c1 \in Q
    BY <1>0, LinkFields
  <2> HIDE DEF Q
  <2>2. WalkIs(V, 0, qs[t].c1, qs[t].c1, Id)
    BY <1>0, <2>1, WalkMembers
  <2>3. QED
    BY <2>2
<1>3. QED
  BY <1>1, <1>2 DEF AllWalk

\* A pool that grows by a transition between adjacent clusters, or by one that
\* was a walk already, and by its reverse.
LEMMA PairWalks ==
    ASSUME NEW k, NEW W, NEW ps, Walked(k, W, ps), AllWalk(W, ps),
           NEW V, NEW qs, Walked(k, V, qs), NEW ab, NEW ba,
           DOMAIN qs = DOMAIN ps \cup {ab, ba}, \A t \in DOMAIN ps : qs[t] = ps[t],
           qs[ab].reverse = ba, 1 <= MaxDistance,
           \/ qs[ab].distance = 1
           \/ WalkIs(W, qs[ab].distance, qs[ab].c1, qs[ab].c2, qs[ab].tm)
    PROVE  AllWalk(V, qs)
<1>0. \A n \in 0 .. MaxDistance : \A a, b, m : WalkIs(W, n, a, b, m) => WalkIs(V, n, a, b, m)
  <2>1. DOMAIN ps \subseteq DOMAIN qs /\ 2 .. k \subseteq 2 .. k
    OBVIOUS
  <2>2. QED
    BY <2>1, WalkGrows
<1>1. ASSUME NEW t \in DOMAIN ps PROVE WalkIs(V, qs[t].distance, qs[t].c1, qs[t].c2, qs[t].tm)
  <2>1. WalkIs(W, ps[t].distance, ps[t].c1, ps[t].c2, ps[t].tm) /\ qs[t] = ps[t]
    BY DEF AllWalk
  <2>2. ps[t].distance \in 0 .. MaxDistance
    BY <2>1 DEF WalkIs
  <2>3. QED
    BY <1>0, <2>1, <2>2
<1>2. WalkIs(V, qs[ab].distance, qs[ab].c1, qs[ab].c2, qs[ab].tm)
  <2>1. CASE qs[ab].distance = 1
    <3>1. ab \in DOMAIN qs
      OBVIOUS
    <3>2. QED
      BY <2>1, <3>1, WalkOfOne
  <2>2. CASE WalkIs(W, qs[ab].distance, qs[ab].c1, qs[ab].c2, qs[ab].tm)
    <3>1. qs[ab].distance \in 0 .. MaxDistance
      BY <2>2 DEF WalkIs
    <3>2. QED
      BY <1>0, <2>2, <3>1
  <2>3. QED
    BY <2>1, <2>2
<1>3. WalkIs(V, qs[ba].distance, qs[ba].c1, qs[ba].c2, qs[ba].tm)
  <2>1. ab \in DOMAIN qs /\ ba \in DOMAIN qs /\ qs \in Seq(Links(k)) /\ Reversed(qs, ab)
    BY DEF Walked, PoolHolds
  <2>2. /\ qs[ba].c1 = qs[ab].c2 /\ qs[ba].c2 = qs[ab].c1 /\ qs[ba].distance = qs[ab].distance
        /\ Mul(qs[ba].tm, qs[ab].tm) = Id
    BY <2>1 DEF Reversed
  <2>3. qs[ab].tm \in Tm /\ qs[ba].tm \in Tm
    BY <2>1, LinkFields
  <2>4. qs[ba].tm = Inv(qs[ab].tm)
    BY <2>2, <2>3, InverseUnique
  <2>5. qs[ab].distance \in 0 .. MaxDistance
    BY <1>2 DEF WalkIs
  <2>6. WalkIs(V, qs[ab].distance, qs[ab].c2, qs[ab].c1, Inv(qs[ab].tm))
    BY <1>2, <2>5, WalkReversed
  <2>7. QED
    BY <2>2, <2>4, <2>6
<1>4. QED
  BY <1>1, <1>2, <1>3 DEF AllWalk

\* createSelfTransition.
LEMMA SelfCreated ==
    ASSUME IInv, NEW W, NEW V, Walked(Len(clusters), W, pool), AllWalk(W, pool),
           Walked(Len(clusters), V, pool'), NEW c \in Pointers, CreateSelfTransition(c)
    PROVE  AllWalk(V, pool')
<1> DEFINE n == Len(clusters)
           t == Len(pool) + 1
           new == [c1 |-> c, c2 |-> c, tm |-> Id, reverse |-> t, distance |-> 0]
<1>1. n \in Nat /\ PoolHolds(n, pool) /\ c \in 2 .. n /\ 2 .. n \subseteq 2 .. n
  BY ListFacts DEF IInv, Pointers
<1>2. CASE pool' = pool
  <2>1. DOMAIN pool \subseteq DOMAIN pool
    OBVIOUS
  <2>2. QED
    BY <1>1, <1>2, <2>1, SelfWalks
<1>3. CASE pool' = Append(pool, new)
  <2>1. /\ DOMAIN pool' = DOMAIN pool \cup {t}
        /\ \A s \in DOMAIN pool : pool'[s] = pool[s]
        /\ pool'[t] = new
    BY <1>1, <1>3, SelfAdded
  <2>2. pool'[t].distance = 0 /\ pool'[t].c2 = pool'[t].c1 /\ pool'[t].tm = Id
    BY <2>1
  <2> HIDE DEF new, t
  <2>3. /\ DOMAIN pool \subseteq DOMAIN pool'
        /\ \A s \in DOMAIN pool' \ DOMAIN pool :
              pool'[s].distance = 0 /\ pool'[s].c2 = pool'[s].c1 /\ pool'[s].tm = Id
    BY <2>1, <2>2
  <2>4. QED
    BY <1>1, <2>1, <2>3, SelfWalks
<1>4. QED
  BY <1>2, <1>3 DEF CreateSelfTransition

\* createClusterTransition: what its callers have to know of the matrix.
LEMMA CreateWalks ==
    ASSUME IInv, NEW W, NEW V, Walked(Len(clusters), W, pool), AllWalk(W, pool),
           Walked(Len(clusters), V, pool'), 1 <= MaxDistance,
           NEW a \in Pointers, NEW b \in Pointers, NEW tm \in Tm, NEW d \in Nat \ {0},
           d = 1 => a # b, d # 1 => WalkIs(W, d, a, b, tm),
           CreateClusterTransition(a, b, tm, d)
    PROVE  AllWalk(V, pool')
<1> DEFINE n == Len(clusters)
<1>0. /\ n \in Nat /\ PoolHolds(n, pool) /\ a \in 2 .. n /\ b \in 2 .. n
      /\ 2 .. n \subseteq 2 .. n /\ DOMAIN pool \subseteq DOMAIN pool
  BY ListFacts DEF IInv, Pointers
<1> HIDE DEF n
<1>1. ASSUME pool' = pool PROVE AllWalk(V, pool')
  BY <1>0, <1>1, SelfWalks DEF n
<1>2. CASE a = b /\ tm = Id
  BY <1>1, <1>2, SelfCreated DEF CreateClusterTransition
<1>3. CASE ~(a = b /\ tm = Id) /\ ExistingTransition(a, b, tm) # Null
  BY <1>1, <1>3 DEF CreateClusterTransition
<1>4. CASE ~(a = b /\ tm = Id) /\ ExistingTransition(a, b, tm) = Null
  <2> DEFINE ab == Len(pool) + 1
             ba == Len(pool) + 2
             fw == [c1 |-> a, c2 |-> b, tm |-> tm, reverse |-> ba, distance |-> d]
             bw == [c1 |-> b, c2 |-> a, tm |-> ReverseTm(tm), reverse |-> ab, distance |-> d]
  <2>1. pool' = pool \o <<fw, bw>>
    BY <1>4 DEF CreateClusterTransition, AddTransitionPair
  <2>2. /\ DOMAIN pool' = DOMAIN pool \cup {ab, ba}
        /\ \A s \in DOMAIN pool : pool'[s] = pool[s]
        /\ pool'[ab] = fw
    BY <1>0, <2>1, PairAdded
  <2>3. /\ pool'[ab].reverse = ba /\ pool'[ab].distance = d
        /\ pool'[ab].c1 = a /\ pool'[ab].c2 = b /\ pool'[ab].tm = tm
    BY <2>2
  <2> HIDE DEF ab, ba, fw, bw
  <2>4. QED
    BY <2>2, <2>3, PairWalks
<1>5. QED
  BY <1>2, <1>3, <1>4

\* Two transitions that meet are a walk as long as both.
LEMMA WalkAlong ==
    ASSUME IInv, NEW W, Walked(Len(clusters), W, pool), AllWalk(W, pool),
           NEW t \in DOMAIN pool, NEW s \in DOMAIN pool, T(t).c2 = T(s).c1,
           T(t).distance + T(s).distance <= MaxDistance
    PROVE  WalkIs(W, T(t).distance + T(s).distance, T(t).c1, T(s).c2, ProductAlong(t, s))
<1>1. /\ WalkIs(W, T(t).distance, T(t).c1, T(t).c2, T(t).tm)
      /\ WalkIs(W, T(s).distance, T(t).c2, T(s).c2, T(s).tm)
  BY DEF AllWalk, T
<1>2. T(t).distance \in Nat /\ T(s).distance \in Nat /\ MaxDistance \in Nat
  BY ListFacts, InputAssumption
<1>3. T(s).distance \in 0 .. MaxDistance /\ T(t).distance \in 0 .. MaxDistance - T(s).distance
  BY <1>2
<1> DEFINE p == T(s).distance
           n == T(t).distance
<1>4. \A i \in 0 .. MaxDistance - p : \A a, x :
         WalkIs(W, i, a, T(t).c2, x) => WalkIs(W, i + p, a, T(s).c2, Mul(T(s).tm, x))
  <2>1. p \in 0 .. MaxDistance /\ WalkIs(W, p, T(t).c2, T(s).c2, T(s).tm)
    BY <1>1, <1>3
  <2> HIDE DEF p
  <2>2. QED
    BY <2>1, WalkJoined
<1>5. QED
  BY <1>1, <1>3, <1>4 DEF ProductAlong

\* The invariant of the walks: V is Walks after the step, W before it.
LEMMA WalksStep ==
    ASSUME IInv, IInv', 2 <= MaxDistance, [Next]_vars,
           NEW W, Walked(Len(clusters), W, pool), AllWalk(W, pool),
           NEW V, Walked(Len(clusters'), V, pool')
    PROVE  AllWalk(V, pool')
<1>0. /\ Len(clusters) \in Nat \ {0} /\ Len(pool) \in Nat /\ MaxDistance \in Nat
      /\ 1 <= MaxDistance
      /\ \A t \in DOMAIN pool : /\ T(t).c1 \in Pointers /\ T(t).c2 \in Pointers
                               /\ T(t).tm \in Tm /\ T(t).distance \in Nat
  BY ListFacts, InputAssumption
<1>1. ASSUME pool' = pool, 2 .. Len(clusters) \subseteq 2 .. Len(clusters') PROVE AllWalk(V, pool')
  <2>1. DOMAIN pool \subseteq DOMAIN pool
    OBVIOUS
  <2>2. QED
    BY <1>1, <2>1, SelfWalks
<1>2. ASSUME clusters' = clusters PROVE Walked(Len(clusters), V, pool')
  BY <1>2
<1>3. CASE StartNew
  <2>1. clusters' = Append(clusters, Len(clusters)) /\ pool' = pool
    BY <1>3 DEF StartNew, CreateCluster
  <2>2. Len(clusters') = Len(clusters) + 1
    BY <1>0, <2>1, ClusterCounted
  <2>3. QED
    BY <1>0, <1>1, <2>1, <2>2
<1>4. ASSUME NEW id \in ImportIds, ImportCluster(id) PROVE AllWalk(V, pool')
  <2> DEFINE n == Len(clusters)
             t == Len(pool) + 1
             new == [c1 |-> n + 1, c2 |-> n + 1, tm |-> Id, reverse |-> t, distance |-> 0]
  <2>1. clusters' = Append(clusters, id) /\ pool' = Append(pool, new)
    BY <1>4 DEF ImportCluster, CreateCluster
  <2>2. id \in Nat
    BY InputAssumption
  <2>3. Len(clusters') = n + 1 /\ PoolHolds(n + 1, pool)
    BY <2>1, <2>2, ClusterCounted
  <2>4. n + 1 \in Nat /\ n + 1 \in 2 .. n + 1 /\ 2 .. n \subseteq 2 .. n + 1
    BY <1>0
  <2>5. /\ DOMAIN pool' = DOMAIN pool \cup {t} /\ \A s \in DOMAIN pool : pool'[s] = pool[s]
        /\ pool'[t] = new
    BY <2>1, <2>3, <2>4, SelfAdded
  <2>6. pool'[t].distance = 0 /\ pool'[t].c2 = pool'[t].c1 /\ pool'[t].tm = Id
    BY <2>5
  <2> HIDE DEF new, t
  <2>7. /\ DOMAIN pool \subseteq DOMAIN pool'
        /\ \A s \in DOMAIN pool' \ DOMAIN pool :
              pool'[s].distance = 0 /\ pool'[s].c2 = pool'[s].c1 /\ pool'[s].tm = Id
    BY <2>5, <2>6
  <2>8. 2 .. Len(clusters) \subseteq 2 .. Len(clusters')
    BY <2>3, <2>4
  <2>9. QED
    BY <2>5, <2>7, <2>8, SelfWalks
<1>5. ASSUME NEW a \in Pointers, NEW b \in Pointers, NEW tm \in InputTm,
             Connect(a, b, tm) \/ ImportTransition(a, b, tm)
      PROVE  AllWalk(V, pool')
  <2>1. /\ a # b /\ CreateClusterTransition(a, b, tm, 1) /\ clusters' = clusters /\ tm \in Tm
    BY <1>5, InputAssumption DEF Connect, ImportTransition
  <2>2. 1 \in Nat \ {0}
    OBVIOUS
  <2>3. QED
    BY <1>0, <1>2, <2>1, <2>2, CreateWalks
<1>6. ASSUME NEW t \in DOMAIN pool, NEW s \in DOMAIN pool, JoinAcross(t, s)
      PROVE  AllWalk(V, pool')
  <2> DEFINE r == T(t).reverse
             tm == Mul(T(s).tm, T(r).tm)
  <2>1. /\ T(t).c1 = T(s).c1 /\ T(t).distance = 1 /\ T(s).distance = 1
        /\ CreateClusterTransition(T(t).c2, T(s).c2, tm, 2) /\ clusters' = clusters
    BY <1>6 DEF JoinAcross
  <2>2. r \in DOMAIN pool /\ T(r).c1 = T(t).c2 /\ T(r).c2 = T(s).c1 /\ T(r).distance = 1
    BY <2>1, ReverseFacts
  <2> HIDE DEF r
  <2>3. WalkIs(W, 1 + 1, T(t).c2, T(s).c2, tm)
    BY <2>1, <2>2, WalkAlong DEF ProductAlong
  <2>4. WalkIs(W, 2, T(t).c2, T(s).c2, tm)
    BY <2>3
  <2>5. tm \in Tm
    BY <1>0, <2>2, ProductType
  <2> HIDE DEF tm
  <2>6. QED
    BY <1>0, <1>2, <2>1, <2>4, <2>5, CreateWalks
<1>7. ASSUME NEW t \in DOMAIN pool, NEW s \in DOMAIN pool, Concatenate(t, s)
      PROVE  AllWalk(V, pool')
  <2>1. /\ clusters' = clusters /\ T(t).c2 = T(s).c1
        /\ T(t).distance + T(s).distance <= MaxDistance
    BY <1>7 DEF Concatenate
  <2>2. CASE IsSelf(s) \/ IsSelf(t)
    BY <1>1, <1>7, <2>1, <2>2 DEF Concatenate
  <2>3. CASE ~IsSelf(s) /\ ~IsSelf(t) /\ T(t).reverse = s
    <3>1. CreateSelfTransition(T(t).c1)
      BY <1>7, <2>3 DEF Concatenate
    <3>2. QED
      BY <1>0, <1>2, <2>1, <3>1, SelfCreated
  <2>4. CASE ~IsSelf(s) /\ ~IsSelf(t) /\ T(t).reverse # s
    <3> DEFINE tm == ProductAlong(t, s)
               d == T(t).distance + T(s).distance
    <3>1. CreateClusterTransition(T(t).c1, T(s).c2, tm, d)
      BY <1>7, <2>4 DEF Concatenate
    <3>2. WalkIs(W, d, T(t).c1, T(s).c2, tm)
      BY <2>1, WalkAlong
    <3>3. tm \in Tm
      BY <1>0, ProductType DEF ProductAlong
    <3>4. T(t).distance # 0 /\ T(s).distance # 0
      BY <2>4, ReverseFacts DEF IsSelf
    <3>5. d \in Nat \ {0} /\ d # 1
      BY <1>0, <3>4
    <3> HIDE DEF tm, d
    <3>6. QED
      BY <1>0, <1>2, <2>1, <3>1, <3>2, <3>3, <3>5, CreateWalks
  <2>5. QED
    BY <2>2, <2>3, <2>4
<1>8. ASSUME NEW a \in Pointers, NEW b \in Pointers, Determine(a, b)
      PROVE  AllWalk(V, pool')
  <2> DEFINE reversedSearch == clusters[a] > clusters[b]
             lo == IF reversedSearch THEN b ELSE a
             hi == IF reversedSearch THEN a ELSE b
  <2>1. clusters' = clusters /\ lo \in Pointers /\ hi \in Pointers /\ (a # b => lo # hi)
    BY <1>8 DEF Determine
  <2>2. \/ pool' = pool
        \/ CreateSelfTransition(a)
        \/ /\ a # b /\ FirstTo(a, b) = Null /\ TwoHops(lo, hi) # {}
           /\ DetermineByPath(lo, hi, reversedSearch)
    BY <1>8 DEF Determine
  <2>3. FirstTo(a, b) = Null => \A t \in DOMAIN pool : ~(T(t).c1 = lo /\ T(t).c2 = hi)
    <3>1. a \in DOMAIN transitions
      BY ListFacts DEF Pointers
    <3>2. FirstTo(a, b) = Null => \A t \in DOMAIN pool : ~(T(t).c1 = a /\ T(t).c2 = b)
      BY <3>1, FirstToFinds
    <3>3. \A t \in DOMAIN pool : T(t).c1 = lo /\ T(t).c2 = hi
             => \E s \in DOMAIN pool : T(s).c1 = a /\ T(s).c2 = b
      BY ReverseFacts
    <3>4. QED
      BY <3>2, <3>3
  <2> HIDE DEF lo, hi, reversedSearch
  <2>4. CASE pool' = pool
    BY <1>1, <2>1, <2>4
  <2>5. CASE CreateSelfTransition(a)
    BY <1>2, <2>1, <2>5, SelfCreated
  <2>6. CASE /\ a # b /\ FirstTo(a, b) = Null /\ TwoHops(lo, hi) # {}
             /\ DetermineByPath(lo, hi, reversedSearch)
    <3>1. PICK t, s, tm : /\ t \in DOMAIN pool /\ s \in DOMAIN pool
                          /\ T(t).c1 = lo /\ T(t).c2 = T(s).c1 /\ T(s).c2 = hi
                          /\ T(t).distance = 1 /\ T(s).distance = 1
                          /\ tm = ProductAlong(t, s)
                          /\ CreateClusterTransition(lo, hi, tm, 2)
      BY <2>1, <2>3, <2>6, PathTaken
    <3>2. WalkIs(W, 1 + 1, lo, hi, tm)
      BY <3>1, WalkAlong
    <3>3. WalkIs(W, 2, lo, hi, tm)
      BY <3>2
    <3>4. tm \in Tm
      BY <1>0, <3>1, ProductType DEF ProductAlong
    <3>5. QED
      BY <1>0, <1>2, <2>1, <3>1, <3>3, <3>4, CreateWalks
  <2>7. QED
    BY <2>2, <2>4, <2>5, <2>6
<1>9. CASE UNCHANGED vars
  BY <1>1, <1>9 DEF vars
<1>10. QED
  BY <1>3, <1>4, <1>5, <1>6, <1>7, <1>8, <1>9 DEF Next

\* The bound on distances admits the distance the code gives a path itself.
LongEnough == MaximumClusterDistance <= MaxDistance

\* However a transition was derived, it carries the misorientation of a walk
\* over as many transitions between adjacent clusters as its distance says.
THEOREM TransitionsAreWalksCorrect == ASSUME LongEnough PROVE Spec => []TransitionsAreWalks
<1> DEFINE Sound == WalksOver(Walks, Pointers, pool)
           WInv == IInv /\ AllWalk(Walks, pool)
<1>1. Sound
  BY WalksDefined
<1>2. Init => AllWalk(Walks, pool)
  BY DEF Init, AllWalk
<1>3. WInv /\ IInv' /\ Sound /\ Sound' /\ [Next]_vars => AllWalk(Walks, pool)'
  <2> SUFFICES ASSUME WInv, IInv', Sound, Sound', [Next]_vars PROVE AllWalk(Walks, pool)'
    OBVIOUS
  <2>1. Walked(Len(clusters), Walks, pool) /\ AllWalk(Walks, pool) /\ 2 <= MaxDistance
    BY DEF Walked, IInv, Pointers, LongEnough, MaximumClusterDistance
  <2>2. Walked(Len(clusters'), Walks', pool')
    BY DEF Walked, IInv, Pointers
  <2>3. QED
    BY <2>1, <2>2, WalksStep
<1>4. WInv => TransitionsAreWalks
  BY DEF AllWalk, WalkIs, TransitionsAreWalks, T
<1> HIDE DEF Sound
<1>5. QED
  BY <1>1, <1>2, <1>3, <1>4, InvariantInit, InvariantStep, PTL DEF Spec
=============================================================================
