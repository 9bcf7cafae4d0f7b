------------------------ MODULE ClusterTablesProofs ------------------------
(***************************************************************************)
(* Formation and dissolution of grains, and their way through the tables   *)
(* into another process, for any number of clusters, links and structures  *)
(* and any tables.  What is proved of the graph and of the fold that       *)
(* stands for a rebuild is used through instances.                         *)
(***************************************************************************)
EXTENDS ClusterTables, FiniteSetTheorems, SequenceTheorems, WellFoundedInduction, TLAPS

\* The graph, with what is proved of it.
GP == INSTANCE ClusterGraphProofs
    WITH AutoIds <- TRUE, ImportIds <- {}, InputTm <- Tm, MaxClusters <- 99, MaxPool <- 999,
         MaxDistance <- 2

\* The fold that stands for a rebuild, with what is proved of it; the rest of
\* that module is of no interest here.
FP == INSTANCE SuperGrainsProofs
    WITH NumClusters <- 1, TransitionSeqs <- {}, NoLink <- <<>>, parent <- <<>>, rank <- <<>>,
         pc <- <<>>, i <- <<>>, path <- <<>>, grain <- <<>>, accepted <- <<>>

LEMMA GraphInputs == GP!GroupAxioms /\ GP!InputAssumption
BY GroupAxioms DEF GP!GroupAxioms, GP!InputAssumption

LEMMA FoldInputs == FP!GroupAxioms /\ FP!PartitionAssumption /\ FP!HierarchyAssumption
<1>1. FP!GroupAxioms
  BY GroupAxioms DEF FP!GroupAxioms
<1>2. FP!PartitionAssumption
  BY DEF FP!PartitionAssumption
<1>3. <<>> \notin FP!Link
  <2>1. \A l \in FP!Link : DOMAIN l = {"to", "tm"}
    BY DEF FP!Link
  <2>2. DOMAIN <<>> = {}
    OBVIOUS
  <2>3. QED
    BY <2>1, <2>2
<1>4. QED
  BY <1>1, <1>2, <1>3 DEF FP!HierarchyAssumption

LEMMA GrainRootComponents ==
    ASSUME NEW C, NEW n \in Nat, NEW edges, DOMAIN edges = 1 .. n,
           \A k \in 1 .. n : edges[k] \in C \X C
    PROVE  FP!Components(C, edges, n, GrainRoot(C, edges))
<1>1. FP!GrainRoot(C, edges) = GrainRoot(C, edges)
  BY DEF FP!GrainRoot, GrainRoot, FP!LinkByRank, LinkByRank, FP!Under, Under, FP!FoldLeft,
         FoldLeft, FP!MapThenFoldSet, MapThenFoldSet, FP!Max, Max
<1>2. QED
  BY <1>1, FoldInputs, FP!GrainRootComponents

----------------------------------------------------------------------------
(* Transitions and pairs of them *)

\* There is a transition from a to b with this matrix.
Joined(a, b, tm) == \E t \in DOMAIN pool : T(t).c1 = a /\ T(t).c2 = b /\ T(t).tm = tm

\* What the graph has for each cluster and each transition.
LEMMA GraphFacts ==
    ASSUME GP!IInv
    PROVE  /\ clusters \in Seq(Nat) /\ Len(clusters) \in Nat \ {0}
           /\ DOMAIN clusters = 1 .. Len(clusters) /\ DOMAIN transitions = DOMAIN clusters
           /\ DOMAIN pool = 1 .. Len(pool) /\ Len(pool) \in Nat
           /\ \A c \in DOMAIN clusters :
                 /\ DOMAIN transitions[c] = 1 .. Len(transitions[c]) /\ Len(transitions[c]) \in Nat
                 /\ \A k \in DOMAIN transitions[c] : At(c, k) \in DOMAIN pool /\ T(At(c, k)).c1 = c
           /\ \A t \in DOMAIN pool :
                 /\ T(t).c1 \in DOMAIN clusters \ {1} /\ T(t).c2 \in DOMAIN clusters \ {1}
                 /\ T(t).tm \in Tm /\ t \in Nat \ {0}
                 /\ \E k \in DOMAIN transitions[T(t).c1] : At(T(t).c1, k) = t
<1>1. /\ Len(clusters) \in Nat \ {0} /\ DOMAIN transitions = 1 .. Len(clusters)
      /\ DOMAIN pool = 1 .. Len(pool) /\ Len(pool) \in Nat
      /\ \A c \in DOMAIN transitions :
            /\ transitions[c] \in Seq(Nat)
            /\ DOMAIN transitions[c] = 1 .. Len(transitions[c])
            /\ \A k \in DOMAIN transitions[c] :
                  transitions[c][k] \in DOMAIN pool /\ pool[transitions[c][k]].c1 = c
      /\ \A t \in DOMAIN pool :
            /\ pool[t].c1 \in GP!Pointers /\ pool[t].c2 \in GP!Pointers /\ pool[t].tm \in Tm
            /\ t \in Nat \ {0}
            /\ \E k \in DOMAIN transitions[pool[t].c1] : transitions[pool[t].c1][k] = t
  BY GraphInputs, GP!ListFacts DEF GP!T
<1>2. clusters \in Seq(Nat) /\ DOMAIN clusters = 1 .. Len(clusters)
  BY DEF GP!IInv
<1>3. GP!Pointers = 2 .. Len(clusters) /\ 2 .. Len(clusters) = DOMAIN clusters \ {1}
  BY <1>1, <1>2 DEF GP!Pointers
<1>4. \A c \in DOMAIN transitions : Len(transitions[c]) \in Nat
  BY <1>1
<1>5. QED
  BY <1>1, <1>2, <1>3, <1>4 DEF T, At

\* The reverse of a transition goes back with the inverse matrix.
LEMMA BackFacts ==
    ASSUME GP!IInv, NEW t \in DOMAIN pool
    PROVE  /\ T(t).reverse \in DOMAIN pool
           /\ T(T(t).reverse).c1 = T(t).c2 /\ T(T(t).reverse).c2 = T(t).c1
           /\ T(T(t).reverse).tm = Inv(T(t).tm)
           /\ T(T(t).reverse).distance = T(t).distance
           /\ T(T(t).reverse).reverse = t
<1>1. /\ T(t).reverse \in DOMAIN pool
      /\ T(T(t).reverse).c1 = T(t).c2 /\ T(T(t).reverse).c2 = T(t).c1
      /\ T(T(t).reverse).distance = T(t).distance
      /\ T(T(t).reverse).reverse = t
  BY GraphInputs, GP!ReverseFacts DEF GP!T, T
<1>2. Mul(T(T(t).reverse).tm, T(t).tm) = Id
  BY DEF GP!IInv, GP!PoolHolds, GP!Reversed, T
<1>3. T(t).tm \in Tm /\ T(T(t).reverse).tm \in Tm
  BY <1>1, GraphFacts
<1>4. T(T(t).reverse).tm = Inv(T(t).tm)
  BY <1>2, <1>3, GraphInputs, GP!InverseUnique
<1>5. QED
  BY <1>1, <1>4

\* createClusterTransition finds a transition if and only if there is one.
LEMMA ExistingIsJoined ==
    ASSUME GP!IInv, NEW a \in DOMAIN clusters, NEW b, NEW tm, a # b
    PROVE  G!ExistingTransition(a, b, tm) = G!Null <=> ~Joined(a, b, tm)
<1> DEFINE list == transitions[a]
           I == {k \in 1 .. Len(list) : T(list[k]).c2 = b /\ T(list[k]).tm = tm}
<1>1. /\ DOMAIN list = 1 .. Len(list)
      /\ \A k \in 1 .. Len(list) : list[k] \in DOMAIN pool /\ T(list[k]).c1 = a
      /\ \A t \in DOMAIN pool : T(t).c1 = a => \E k \in 1 .. Len(list) : list[k] = t
      /\ \A t \in DOMAIN pool : t \in Nat \ {0}
  BY GraphFacts DEF At
<1>2. G!ExistingTransition(a, b, tm)
        = LET k == IF I # {} THEN Min(I) ELSE 0 IN IF k = 0 THEN 0 ELSE list[k]
  BY DEF G!ExistingTransition, G!SelectInSeq, G!Min, Min, G!T, T, G!Null
<1>3. Joined(a, b, tm) <=> I # {}
  BY <1>1 DEF Joined
<1>4. ASSUME I # {} PROVE Min(I) \in I
  <2>1. I \subseteq Nat
    OBVIOUS
  <2> HIDE DEF I
  <2>2. GP!Min(I) \in I
    BY <1>4, <2>1, GraphInputs, GP!LeastPlace
  <2>3. QED
    BY <2>2 DEF GP!Min, Min
<1>5. \A k \in I : k # 0 /\ list[k] # 0
  BY <1>1
<1> HIDE DEF I, list
<1>6. CASE I = {}
  BY <1>2, <1>3, <1>6 DEF G!Null
<1>7. CASE I # {}
  <2>1. G!ExistingTransition(a, b, tm) = list[Min(I)]
    BY <1>2, <1>4, <1>5, <1>7
  <2>2. QED
    BY <1>3, <1>4, <1>5, <1>7, <2>1 DEF G!Null
<1>8. QED
  BY <1>6, <1>7

----------------------------------------------------------------------------
(* What a step of the loop at a defect does *)

\* A pair of places at a cluster: two transitions to crystals next to it.
LEMMA DefectPairFacts ==
    ASSUME GP!IInv, NEW c \in DOMAIN clusters, NEW x \in DefectPairs(c)
    PROVE  LET t == At(c, x[1])
               s == At(c, x[2])
           IN  /\ x[1] \in DOMAIN transitions[c] /\ x[2] \in DOMAIN transitions[c]
               /\ t \in DOMAIN pool /\ s \in DOMAIN pool
               /\ T(t).c1 = c /\ T(s).c1 = c /\ T(t).c2 # T(s).c2
               /\ T(t).distance = 1 /\ T(s).distance = 1
               /\ structure[T(t).c2] = InputCrystal /\ structure[T(s).c2] = InputCrystal
               /\ T(t).c2 \in DOMAIN clusters \ {1} /\ T(s).c2 \in DOMAIN clusters \ {1}
               /\ T(t).tm \in Tm /\ T(s).tm \in Tm
               /\ Misorientation(t, s) = Mul(T(s).tm, Inv(T(t).tm))
               /\ Misorientation(t, s) \in Tm
<1> DEFINE t == At(c, x[1])
           s == At(c, x[2])
<1>1. /\ x[1] \in DOMAIN transitions[c] /\ x[2] \in DOMAIN transitions[c]
      /\ ToCrystal(t) /\ ToCrystal(s) /\ T(t).c2 # T(s).c2
  BY DEF DefectPairs, Places
<1>2. /\ t \in DOMAIN pool /\ s \in DOMAIN pool /\ T(t).c1 = c /\ T(s).c1 = c
  BY <1>1, GraphFacts
<1> HIDE DEF t, s
<1>3. /\ T(t).c2 \in DOMAIN clusters \ {1} /\ T(s).c2 \in DOMAIN clusters \ {1}
      /\ T(t).tm \in Tm /\ T(s).tm \in Tm
  BY <1>2, GraphFacts
<1>4. T(T(t).reverse).tm = Inv(T(t).tm)
  BY <1>2, BackFacts
<1>5. Misorientation(t, s) = Mul(T(s).tm, Inv(T(t).tm)) /\ Misorientation(t, s) \in Tm
  BY <1>3, <1>4, GroupAxioms DEF Misorientation
<1>6. QED
  BY <1>1, <1>2, <1>3, <1>5 DEF t, s, ToCrystal

\* A pool with a transition and its reverse at the end.
LEMMA PoolExtended ==
    ASSUME NEW n \in Nat, NEW ps, GP!PoolHolds(n, ps),
           NEW a \in 2 .. n, NEW b \in 2 .. n, NEW tm \in Tm, NEW d \in Nat \ {0}, d = 1 => a # b
    PROVE  LET ab == Len(ps) + 1
               ba == Len(ps) + 2
               fw == [c1 |-> a, c2 |-> b, tm |-> tm, reverse |-> ba, distance |-> d]
               bw == [c1 |-> b, c2 |-> a, tm |-> GP!ReverseTm(tm), reverse |-> ab, distance |-> d]
               qs == ps \o <<fw, bw>>
           IN  /\ DOMAIN qs = DOMAIN ps \cup {ab, ba}
               /\ ab \in Nat \ DOMAIN ps /\ ba \in Nat \ DOMAIN ps /\ ab # ba
               /\ \A s \in DOMAIN ps : qs[s] = ps[s]
               /\ qs[ab] = fw /\ qs[ba] = bw
               /\ GP!PoolHolds(n, qs)
BY GraphInputs, GP!PairAdded

\* Both instances of the graph insert in the same way.
LEMMA InsertedSame ==
    \A ps, t, list : G!Inserted(ps, t, list) = GP!Inserted(ps, t, list)
BY DEF G!Inserted, GP!Inserted, G!InsertAt, GP!InsertAt, G!Cardinality, GP!Cardinality

\* A new transition from a to b and its reverse, and nothing else, is added.
PairAdded(a, b, tm) ==
    LET ab == Len(pool) + 1
        ba == Len(pool) + 2
    IN  /\ DOMAIN pool' = DOMAIN pool \cup {ab, ba}
        /\ ab \notin DOMAIN pool /\ ba \notin DOMAIN pool
        /\ \A u \in DOMAIN pool : pool'[u] = pool[u]
        /\ pool'[ab] = [c1 |-> a, c2 |-> b, tm |-> tm, reverse |-> ba, distance |-> 2]
        /\ pool'[ba] = [c1 |-> b, c2 |-> a, tm |-> Inv(tm), reverse |-> ab, distance |-> 2]
        /\ \A c \in DOMAIN clusters \ {a, b} : transitions'[c] = transitions[c]
        /\ clusterTransitions' = Append(clusterTransitions, ab)
        /\ clusters' = clusters

\* Join adds a pair, or there is nothing to be joined.
LEMMA JoinDoes ==
    ASSUME GP!IInv, NEW c \in DOMAIN clusters, NEW x \in DefectPairs(c), NEW S,
           Join(At(c, x[1]), At(c, x[2]), S)
    PROVE  LET t == At(c, x[1])
               s == At(c, x[2])
               a == T(t).c2
               b == T(s).c2
               tm == Misorientation(t, s)
           IN  /\ GP!IInv'
               /\ \/ /\ UNCHANGED <<clusters, pool, transitions, clusterTransitions>>
                     /\ tm \in S => Joined(a, b, tm)
                  \/ tm \in S /\ ~Joined(a, b, tm) /\ PairAdded(a, b, tm)
<1> DEFINE t == At(c, x[1])
           s == At(c, x[2])
           a == T(t).c2
           b == T(s).c2
           tm == Misorientation(t, s)
<1>1. /\ t \in DOMAIN pool /\ s \in DOMAIN pool /\ T(t).c1 = c /\ T(s).c1 = c /\ a # b
      /\ T(t).distance = 1 /\ T(s).distance = 1
      /\ a \in DOMAIN clusters \ {1} /\ b \in DOMAIN clusters \ {1} /\ tm \in Tm
  BY DefectPairFacts
<1> HIDE DEF t, s
<1>2. GP!Way(pool, a, b)
  <2>1. /\ T(t).reverse \in DOMAIN pool /\ T(T(t).reverse).c1 = a
        /\ T(T(t).reverse).c2 = c /\ T(T(t).reverse).distance = 1
    BY <1>1, BackFacts
  <2>2. QED
    BY <1>1, <2>1 DEF GP!Way, T
<1>3. a \in GP!Pointers /\ b \in GP!Pointers
  BY <1>1, GraphFacts DEF GP!Pointers
<1>4. Join(t, s, S)
  BY DEF t, s
<1> HIDE DEF a, b, tm
<1>5. \/ UNCHANGED graphVars /\ tm \notin S
      \/ /\ tm \in S /\ G!CreateClusterTransition(a, b, tm, 2)
         /\ UNCHANGED <<clusters, clusterMap>>
  BY <1>4 DEF Join, a, b, tm
<1>6. ASSUME UNCHANGED <<clusters, pool, transitions, clusterTransitions, disconnected>>,
             tm \in S => Joined(a, b, tm)
      PROVE  /\ GP!IInv'
             /\ UNCHANGED <<clusters, pool, transitions, clusterTransitions>>
             /\ tm \in S => Joined(a, b, tm)
  BY <1>6, GraphInputs, GP!SameStep
<1>7. CASE UNCHANGED graphVars /\ tm \notin S
  BY <1>6, <1>7 DEF graphVars, a, b, tm, t, s
<1>8. CASE tm \in S /\ G!CreateClusterTransition(a, b, tm, 2) /\ UNCHANGED <<clusters, clusterMap>>
  <2>1. G!ExistingTransition(a, b, tm) = G!Null <=> ~Joined(a, b, tm)
    BY <1>1, ExistingIsJoined
  <2>2. CASE G!ExistingTransition(a, b, tm) # G!Null
    <3>1. UNCHANGED <<pool, transitions, clusterTransitions, disconnected>>
      BY <1>1, <1>8, <2>2 DEF G!CreateClusterTransition
    <3>2. QED
      BY <1>6, <1>8, <2>1, <2>2, <3>1 DEF a, b, tm, t, s
  <2>3. CASE G!ExistingTransition(a, b, tm) = G!Null
    <3>1. G!AddTransitionPair(a, b, tm, 2)
      BY <1>1, <1>8, <2>3 DEF G!CreateClusterTransition
    <3>2. GP!AddTransitionPair(a, b, tm, 2)
      BY <3>1, InsertedSame DEF G!AddTransitionPair, GP!AddTransitionPair, G!ReverseTm,
                                GP!ReverseTm, G!CacheAfter, GP!CacheAfter
    <3>3. GP!IInv'
      BY <1>1, <1>2, <1>3, <1>8, <3>2, GraphInputs, GP!PairStep
    <3> DEFINE fw == [c1 |-> a, c2 |-> b, tm |-> tm, reverse |-> Len(pool) + 2, distance |-> 2]
               bw == [c1 |-> b, c2 |-> a, tm |-> Inv(tm), reverse |-> Len(pool) + 1, distance |-> 2]
    <3>4. /\ pool' = pool \o <<fw, bw>>
          /\ \A d \in DOMAIN transitions \ {a, b} : transitions'[d] = transitions[d]
          /\ clusterTransitions' = Append(clusterTransitions, Len(pool) + 1)
      BY <3>1 DEF G!AddTransitionPair, G!ReverseTm
    <3>5. /\ GP!PoolHolds(Len(clusters), pool) /\ Len(clusters) \in Nat
          /\ a \in 2 .. Len(clusters) /\ b \in 2 .. Len(clusters)
      BY <1>1, GraphFacts DEF GP!IInv
    <3>6. /\ DOMAIN pool' = DOMAIN pool \cup {Len(pool) + 1, Len(pool) + 2}
          /\ \A u \in DOMAIN pool : pool'[u] = pool[u]
          /\ Len(pool) + 1 \notin DOMAIN pool /\ Len(pool) + 2 \notin DOMAIN pool
          /\ pool'[Len(pool) + 1] = fw /\ pool'[Len(pool) + 2] = bw
      <4> DEFINE gw == [c1 |-> b, c2 |-> a, tm |-> GP!ReverseTm(tm), reverse |-> Len(pool) + 1,
                        distance |-> 2]
                 qs == pool \o <<fw, gw>>
      <4>1. /\ DOMAIN qs = DOMAIN pool \cup {Len(pool) + 1, Len(pool) + 2}
            /\ Len(pool) + 1 \in Nat \ DOMAIN pool /\ Len(pool) + 2 \in Nat \ DOMAIN pool
            /\ \A u \in DOMAIN pool : qs[u] = pool[u]
            /\ qs[Len(pool) + 1] = fw /\ qs[Len(pool) + 2] = gw
        <5> HIDE DEF fw, gw
        <5>1. QED
          BY <1>1, <3>5, PoolExtended DEF fw, gw
      <4>2. gw = bw /\ qs = pool'
        BY <3>4 DEF GP!ReverseTm
      <4> HIDE DEF gw, bw, fw, qs
      <4>3. QED
        BY <4>1, <4>2
    <3>7. PairAdded(a, b, tm)
      BY <1>8, <3>4, <3>6, GraphFacts DEF PairAdded
    <3>8. QED
      BY <1>8, <2>1, <2>3, <3>3, <3>7 DEF a, b, tm, t, s
  <2>4. QED
    BY <2>2, <2>3
<1>9. QED
  BY <1>5, <1>7, <1>8

----------------------------------------------------------------------------
(* The graph that connectClusters leaves *)

\* A graph of n clusters after k links.
Linked(n, k, ps, lists, cts) ==
    /\ GP!PoolHolds(n, ps)
    /\ \A t \in DOMAIN ps : ps[t].distance = 1
    /\ lists \in Seq(Seq(Nat)) /\ Len(lists) = n
    /\ GP!Listed(ps, lists, DOMAIN ps)
    /\ cts \in Seq(Nat) /\ Len(cts) = k
    /\ \A i \in DOMAIN cts : cts[i] \in DOMAIN ps
    /\ \A t \in DOMAIN ps : GP!Published(ps, cts, t)

\* A transition inserted into the list of its first cluster.
LEMMA ListExtended ==
    ASSUME NEW ps, NEW trs, NEW S, GP!Listed(ps, trs, S),
           \A c \in DOMAIN trs : \A i \in DOMAIN trs[c] : ps[trs[c][i]].distance \in Nat,
           NEW a \in DOMAIN trs, NEW t \in Nat, t \notin S, ps[t].c1 = a,
           ps[t].distance \in Nat \ {0}
    PROVE  LET new == [trs EXCEPT ![a] = G!Inserted(ps, t, @)] IN
           /\ DOMAIN new = DOMAIN trs
           /\ GP!Listed(ps, new, S \cup {t})
           /\ \A c \in DOMAIN new : \A i \in DOMAIN new[c] : ps[new[c][i]].distance \in Nat
<1>1. [trs EXCEPT ![a] = G!Inserted(ps, t, @)] = [trs EXCEPT ![a] = GP!Inserted(ps, t, @)]
  BY InsertedSame
<1>2. QED
  BY <1>1, GraphInputs, GP!InsertedListed

\* Lists stay as they are when transitions are added to the pool.
LEMMA ListsKept ==
    ASSUME NEW ps, NEW qs, NEW trs, GP!Listed(ps, trs, DOMAIN ps),
           \A t \in DOMAIN ps : qs[t] = ps[t]
    PROVE  GP!Listed(qs, trs, DOMAIN ps)
BY GraphInputs, GP!ListedStays

LEMMA PublishedExtended ==
    ASSUME NEW ps, NEW qs, NEW cts \in Seq(Nat), NEW ab \in Nat, NEW ba,
           \A t \in DOMAIN ps : GP!Reversed(ps, t) /\ GP!Published(ps, cts, t),
           \A i \in DOMAIN cts : cts[i] \in DOMAIN ps,
           DOMAIN qs = DOMAIN ps \cup {ab, ba}, \A t \in DOMAIN ps : qs[t] = ps[t],
           ab \notin DOMAIN ps, ba \notin DOMAIN ps, ab # ba,
           qs[ab].reverse = ba, qs[ba].reverse = ab
    PROVE  /\ Append(cts, ab) \in Seq(Nat)
           /\ \A i \in DOMAIN Append(cts, ab) : Append(cts, ab)[i] \in DOMAIN qs
           /\ \A t \in DOMAIN qs : GP!Published(qs, Append(cts, ab), t)
BY GraphInputs, GP!PairPublished

\* One link more.
LEMMA LinkAdded ==
    ASSUME NEW n \in Nat, NEW k \in Nat, NEW ps, NEW lists, NEW cts, Linked(n, k, ps, lists, cts),
           NEW a \in 2 .. n, NEW b \in 2 .. n, a # b, NEW tm \in Tm
    PROVE  LET t == Len(ps) + 1
               qs == ps \o <<[c1 |-> a, c2 |-> b, tm |-> tm, reverse |-> t + 1, distance |-> 1],
                             [c1 |-> b, c2 |-> a, tm |-> Inv(tm), reverse |-> t, distance |-> 1]>>
               first == [lists EXCEPT ![a] = G!Inserted(qs, t, @)]
               second == [first EXCEPT ![b] = G!Inserted(qs, t + 1, @)]
           IN  Linked(n, k + 1, qs, second, Append(cts, t))
<1>p. PICK ab : ab = Len(ps) + 1
  OBVIOUS
<1>q. PICK ba : ba = Len(ps) + 2
  OBVIOUS
<1>f. PICK fw : fw = [c1 |-> a, c2 |-> b, tm |-> tm, reverse |-> ba, distance |-> 1]
  OBVIOUS
<1>g. PICK bw : bw = [c1 |-> b, c2 |-> a, tm |-> Inv(tm), reverse |-> ab, distance |-> 1]
  OBVIOUS
<1>s. PICK qs : qs = ps \o <<fw, bw>>
  OBVIOUS
<1>d. PICK first : first = [lists EXCEPT ![a] = G!Inserted(qs, ab, @)]
  OBVIOUS
<1>e. PICK second : second = [first EXCEPT ![b] = G!Inserted(qs, ba, @)]
  OBVIOUS
<1>0. /\ GP!PoolHolds(n, ps) /\ ps \in Seq(GP!Links(n)) /\ Len(ps) \in Nat /\ DOMAIN ps = 1 .. Len(ps)
      /\ \A t \in DOMAIN ps : GP!Reversed(ps, t)
  <2>1. GP!PoolHolds(n, ps)
    BY DEF Linked
  <2>2. ps \in Seq(GP!Links(n)) /\ \A t \in DOMAIN ps : GP!Reversed(ps, t)
    BY <2>1 DEF GP!PoolHolds
  <2>3. QED
    BY <2>1, <2>2, LenProperties
<1>1. ab + 1 = ba /\ ab \in Nat /\ ba \in Nat
  BY <1>0, <1>p, <1>q
<1>2. /\ DOMAIN qs = DOMAIN ps \cup {ab, ba}
      /\ ab \in Nat \ DOMAIN ps /\ ba \in Nat \ DOMAIN ps /\ ab # ba
      /\ \A s \in DOMAIN ps : qs[s] = ps[s]
      /\ qs[ab] = fw /\ qs[ba] = bw
      /\ GP!PoolHolds(n, qs)
  <2>1. 1 \in Nat \ {0} /\ (1 = 1 => a # b)
    OBVIOUS
  <2>2. GP!ReverseTm(tm) = Inv(tm)
    BY DEF GP!ReverseTm
  <2>3. QED
    BY <1>0, <1>p, <1>q, <1>f, <1>g, <1>s, <2>1, <2>2, PoolExtended
<1>3. /\ qs[ab].c1 = a /\ qs[ab].distance = 1 /\ qs[ab].reverse = ba
      /\ qs[ba].c1 = b /\ qs[ba].distance = 1 /\ qs[ba].reverse = ab
  BY <1>2, <1>f, <1>g
<1>4. \A t \in DOMAIN qs : qs[t].distance = 1
  BY <1>2, <1>3 DEF Linked
<1>5. DOMAIN lists = 1 .. n /\ \A c \in DOMAIN lists : lists[c] \in Seq(Nat)
  BY LenProperties DEF Linked
<1>6. GP!Listed(qs, lists, DOMAIN ps)
  <2>1. GP!Listed(ps, lists, DOMAIN ps)
    BY DEF Linked
  <2>2. QED
    BY <1>2, <2>1, ListsKept
<1>7. \A c \in DOMAIN lists : \A i \in DOMAIN lists[c] : qs[lists[c][i]].distance \in Nat
  <2>1. ASSUME NEW c \in DOMAIN lists, NEW i \in DOMAIN lists[c] PROVE lists[c][i] \in DOMAIN ps
    BY <1>6 DEF GP!Listed, GP!Items
  <2>2. QED
    BY <1>2, <1>4, <2>1
<1>8. /\ DOMAIN first = DOMAIN lists
      /\ GP!Listed(qs, first, DOMAIN ps \cup {ab})
      /\ \A c \in DOMAIN first : \A i \in DOMAIN first[c] : qs[first[c][i]].distance \in Nat
  <2>1. a \in DOMAIN lists /\ ab \in Nat /\ ab \notin DOMAIN ps
        /\ qs[ab].c1 = a /\ qs[ab].distance \in Nat \ {0}
    BY <1>2, <1>3, <1>5
  <2>2. LET new == [lists EXCEPT ![a] = G!Inserted(qs, ab, @)]
        IN  /\ DOMAIN new = DOMAIN lists
            /\ GP!Listed(qs, new, DOMAIN ps \cup {ab})
            /\ \A c \in DOMAIN new : \A i \in DOMAIN new[c] : qs[new[c][i]].distance \in Nat
    BY <1>6, <1>7, <2>1, ListExtended
  <2>3. QED
    BY <1>d, <2>2
<1>9. /\ DOMAIN second = DOMAIN lists
      /\ GP!Listed(qs, second, DOMAIN qs)
  <2>1. b \in DOMAIN first /\ ba \in Nat /\ ba \notin DOMAIN ps \cup {ab}
        /\ qs[ba].c1 = b /\ qs[ba].distance \in Nat \ {0}
    BY <1>2, <1>3, <1>5, <1>8
  <2>2. /\ DOMAIN second = DOMAIN first
        /\ GP!Listed(qs, second, (DOMAIN ps \cup {ab}) \cup {ba})
    BY <1>8, <1>e, <2>1, ListExtended
  <2>3. (DOMAIN ps \cup {ab}) \cup {ba} = DOMAIN qs
    BY <1>2
  <2>4. QED
    BY <1>8, <2>2, <2>3
<1>10. second \in Seq(Seq(Nat)) /\ Len(second) = n
  <2>1. \A c \in 1 .. n : second[c] \in Seq(Nat)
    BY <1>5, <1>9 DEF GP!Listed
  <2>2. second = [c \in 1 .. n |-> second[c]]
    BY <1>5, <1>9, <1>d, <1>e
  <2>3. second \in Seq(Seq(Nat))
    BY <2>1, <2>2, IsASeq
  <2>4. QED
    BY <1>5, <1>9, <2>3, LenProperties
<1>11. /\ Append(cts, ab) \in Seq(Nat)
       /\ \A i \in DOMAIN Append(cts, ab) : Append(cts, ab)[i] \in DOMAIN qs
       /\ \A t \in DOMAIN qs : GP!Published(qs, Append(cts, ab), t)
  <2>1. /\ cts \in Seq(Nat) /\ \A i \in DOMAIN cts : cts[i] \in DOMAIN ps
        /\ \A t \in DOMAIN ps : GP!Reversed(ps, t) /\ GP!Published(ps, cts, t)
    BY <1>0 DEF Linked
  <2>2. /\ ab \in Nat /\ ab \notin DOMAIN ps /\ ba \notin DOMAIN ps /\ ab # ba
        /\ DOMAIN qs = DOMAIN ps \cup {ab, ba} /\ \A t \in DOMAIN ps : qs[t] = ps[t]
        /\ qs[ab].reverse = ba /\ qs[ba].reverse = ab
    BY <1>2, <1>3
  <2>3. QED
    BY <2>1, <2>2, PublishedExtended
<1>12. Len(Append(cts, ab)) = k + 1
  <2>1. cts \in Seq(Nat) /\ Len(cts) = k
    BY DEF Linked
  <2>2. QED
    BY <1>1, <2>1, AppendProperties
<1>13. Linked(n, k + 1, qs, second, Append(cts, ab))
  BY <1>2, <1>4, <1>9, <1>10, <1>11, <1>12 DEF Linked
<1>14. QED
  BY <1>1, <1>13, <1>p, <1>f, <1>g, <1>s, <1>d, <1>e

LinkOk(n, l) == l.c1 \in 1 .. n /\ l.c2 \in 1 .. n /\ l.c1 # l.c2 /\ l.tm \in Tm

\* The graphs g after each of m links.
LinkedOneByOne(g, n, links, m) ==
    /\ g[m] = ConnectedGraph(n, links)
    /\ g[0] = [pool |-> <<>>, lists |-> [p \in 1 .. n + 1 |-> <<>>], published |-> <<>>]
    /\ \A k \in 1 .. m : g[k] = WithLink(g[k - 1], links[k])

\* The graph is what its recursion says.
LEMMA ConnectedDefined ==
    ASSUME NEW n \in Nat, NEW links, NEW m \in Nat, Len(links) = m
    PROVE  \E g : LinkedOneByOne(g, n, links, m)
<1> DEFINE Base == [pool |-> <<>>, lists |-> [p \in 1 .. n + 1 |-> <<>>], published |-> <<>>]
           Body(f, k) == IF k = 0 THEN Base ELSE WithLink(f[k - 1], links[k])
           Defined(f, b) == f = [k \in 0 .. b |-> Body(f, k)]
           N == {b \in Nat : \E f : Defined(f, b)}
<1>1. 0 \in N
  <2> DEFINE f == [k \in 0 .. 0 |-> Base]
  <2>1. f = [k \in 0 .. 0 |-> Body(f, k)]
    OBVIOUS
  <2>2. QED
    BY <2>1
<1>2. ASSUME NEW b \in 1 .. m, b - 1 \in N
      PROVE  b \in N
  <2>1. PICK f : Defined(f, b - 1)
    BY <1>2
  <2> DEFINE g == [k \in 0 .. b |-> IF k = b THEN WithLink(f[b - 1], links[b]) ELSE f[k]]
  <2>2. ASSUME NEW k \in 0 .. b PROVE g[k] = Body(g, k)
    <3>1. CASE k = b
      BY <3>1
    <3>2. CASE k # b
      <4>1. k \in 0 .. b - 1 /\ (k # 0 => k - 1 \in 0 .. b /\ k - 1 # b)
        BY <3>2
      <4>2. f[k] = Body(f, k)
        BY <2>1, <4>1
      <4>3. k # 0 => g[k - 1] = f[k - 1]
        BY <4>1
      <4>4. QED
        BY <3>2, <4>2, <4>3
    <3>3. QED
      BY <3>1, <3>2
  <2>3. g = [k \in 0 .. b |-> g[k]]
    OBVIOUS
  <2>4. g = [k \in 0 .. b |-> Body(g, k)]
    BY <2>2, <2>3
  <2>5. b \in Nat /\ \E h : Defined(h, b)
    <3> HIDE DEF g
    <3>1. QED
      BY <2>4
  <2>6. QED
    BY <2>5
<1>3. \E f : Defined(f, m)
  <2>1. m \in N
    <3> HIDE DEF N
    <3>1. 0 .. m \subseteq N
      BY <1>1, <1>2, GraphInputs, GP!Induction
    <3>2. QED
      BY <3>1
  <2>2. QED
    BY <2>1
<1>4. PICK g : /\ Defined(g, m) /\ g[m] = ConnectedGraph(n, links)
  <2> DEFINE c == CHOOSE f : Defined(f, m)
  <2>1. Defined(c, m)
    BY <1>3
  <2>2. ConnectedGraph(n, links) = c[m]
    BY DEF ConnectedGraph
  <2> HIDE DEF c
  <2>3. QED
    BY <2>1, <2>2
<1>5. \A k \in 0 .. m : g[k] = Body(g, k)
  <2>1. g = [k \in 0 .. m |-> Body(g, k)]
    BY <1>4
  <2> HIDE DEF Body
  <2>2. QED
    BY <2>1
<1>6. g[0] = Base /\ \A k \in 1 .. m : g[k] = WithLink(g[k - 1], links[k])
  BY <1>5
<1>7. QED
  BY <1>4, <1>6 DEF LinkedOneByOne

\* Before there is a link.
LEMMA NothingLinked ==
    ASSUME NEW n \in Nat
    PROVE  Linked(n, 0, <<>>, [p \in 1 .. n |-> <<>>], <<>>)
<1> DEFINE lists == [p \in 1 .. n |-> <<>>]
<1>1. <<>> \in Seq(GP!Links(n)) /\ DOMAIN <<>> = {} /\ <<>> \in Seq(Nat) /\ Len(<<>>) = 0
  OBVIOUS
<1>2. GP!PoolHolds(n, <<>>)
  BY <1>1 DEF GP!PoolHolds
<1>3. lists \in Seq(Seq(Nat)) /\ Len(lists) = n
  <2>1. \A p \in 1 .. n : <<>> \in Seq(Nat)
    BY <1>1
  <2>2. lists \in Seq(Seq(Nat))
    BY <2>1, IsASeq
  <2>3. DOMAIN lists = 1 .. n
    OBVIOUS
  <2>4. QED
    BY <2>2, <2>3, LenProperties
<1>4. GP!Listed(<<>>, lists, {})
  BY <1>1 DEF GP!Listed, GP!Sorted, GP!Items
<1>5. QED
  BY <1>1, <1>2, <1>3, <1>4 DEF Linked

LEMMA ConnectedLinked ==
    ASSUME NEW n \in Nat, NEW links, NEW m \in Nat, Len(links) = m,
           \A k \in 1 .. m : LinkOk(n, links[k])
    PROVE  LET g == ConnectedGraph(n, links)
           IN  Linked(n + 1, m, g.pool, g.lists, g.published)
<1>0. PICK g : LinkedOneByOne(g, n, links, m)
  BY ConnectedDefined
<1>1. /\ g[m] = ConnectedGraph(n, links)
      /\ g[0] = [pool |-> <<>>, lists |-> [p \in 1 .. n + 1 |-> <<>>], published |-> <<>>]
      /\ \A k \in 1 .. m : g[k] = WithLink(g[k - 1], links[k])
  BY <1>0 DEF LinkedOneByOne
<1> DEFINE N == {k \in Nat : Linked(n + 1, k, g[k].pool, g[k].lists, g[k].published)}
<1>2. 0 \in N
  <2>1. Linked(n + 1, 0, <<>>, [p \in 1 .. n + 1 |-> <<>>], <<>>)
    <3>1. n + 1 \in Nat
      OBVIOUS
    <3>2. QED
      BY <3>1, NothingLinked
  <2>2. /\ g[0].pool = <<>> /\ g[0].lists = [p \in 1 .. n + 1 |-> <<>>]
        /\ g[0].published = <<>>
    BY <1>1
  <2>3. QED
    BY <2>1, <2>2
<1>3. ASSUME NEW k \in 1 .. m, k - 1 \in N PROVE k \in N
  <2>l. PICK l : l = links[k]
    OBVIOUS
  <2>o. PICK o : o = g[k - 1]
    OBVIOUS
  <2>1. Linked(n + 1, k - 1, o.pool, o.lists, o.published)
    BY <1>3, <2>o
  <2>a. PICK a : a = l.c1 + 1
    OBVIOUS
  <2>b. PICK b : b = l.c2 + 1
    OBVIOUS
  <2>2. /\ n + 1 \in Nat /\ k - 1 \in Nat /\ (k - 1) + 1 = k
        /\ a \in 2 .. n + 1 /\ b \in 2 .. n + 1 /\ a # b /\ l.tm \in Tm
    <3>1. LinkOk(n, l)
      BY <2>l
    <3>2. QED
      BY <2>a, <2>b, <3>1 DEF LinkOk
  <2>t. PICK t : t = Len(o.pool) + 1
    OBVIOUS
  <2>q. PICK qs : qs = o.pool \o <<[c1 |-> a, c2 |-> b, tm |-> l.tm, reverse |-> t + 1, distance |-> 1],
                             [c1 |-> b, c2 |-> a, tm |-> Inv(l.tm), reverse |-> t, distance |-> 1]>>
    OBVIOUS
  <2>f. PICK first : first = [o.lists EXCEPT ![a] = G!Inserted(qs, t, @)]
    OBVIOUS
  <2>s. PICK second : second = [first EXCEPT ![b] = G!Inserted(qs, t + 1, @)]
    OBVIOUS
  <2>3. Linked(n + 1, (k - 1) + 1, qs, second, Append(o.published, t))
    BY <2>1, <2>2, <2>t, <2>q, <2>f, <2>s, LinkAdded
  <2>4. g[k] = [pool |-> qs, lists |-> second, published |-> Append(o.published, t)]
    <3>1. g[k] = WithLink(o, l)
      BY <1>1, <2>l, <2>o
    <3>2. QED
      BY <3>1, <2>a, <2>b, <2>t, <2>q, <2>f, <2>s DEF WithLink
  <2>5. g[k].pool = qs /\ g[k].lists = second /\ g[k].published = Append(o.published, t)
    BY <2>4
  <2>6. Linked(n + 1, k, g[k].pool, g[k].lists, g[k].published)
    BY <2>2, <2>3, <2>5
  <2>7. k \in Nat
    OBVIOUS
  <2>8. QED
    BY <2>6, <2>7
<1>4. m \in N
  <2> HIDE DEF N
  <2>1. 0 .. m \subseteq N
    BY <1>2, <1>3, GraphInputs, GP!Induction
  <2>2. QED
    BY <2>1
<1>5. QED
  BY <1>1, <1>4

----------------------------------------------------------------------------
(* The invariant of formSuperClusters *)

\* Of every transition that is not direct, one direction was created since the call.
Recorded ==
    \A t \in DOMAIN pool : T(t).distance # 1 =>
        \E k \in DOMAIN clusterTransitions :
            /\ k > oldTransitionCount
            /\ clusterTransitions[k] = t \/ clusterTransitions[k] = T(t).reverse

MeetSomewhere(a, b) == \E d \in DOMAIN clusters : MeetAt(a, b, d)

\* The transitions created since the call join crystals that meet at a defect.
Meeting ==
    \A k \in DOMAIN clusterTransitions : k > oldTransitionCount =>
        MeetSomewhere(T(clusterTransitions[k]).c1, T(clusterTransitions[k]).c2)

\* The loops have come to the pair at x of cluster d.
Passed(d, x) == d < center \/ (d = center /\ ~Before(pair, x))

\* The pair at x of cluster d is joined if it is to be.
PairJoined(d, x) ==
    LET t == At(d, x[1])
        s == At(d, x[2])
    IN  Misorientation(t, s) \in Symmetries[InputCrystal]
        => Joined(T(t).c2, T(s).c2, Misorientation(t, s))

Handled ==
    \A d \in DOMAIN clusters : \A x \in DefectPairs(d) :
        structure[d] # InputCrystal /\ Passed(d, x) => PairJoined(d, x)

OnlyZeroIsOther == \A c \in DOMAIN clusters : structure[c] = Other <=> c = 1

Forming ==
    /\ GP!IInv
    /\ OnlyZeroIsOther
    /\ center \in Nat \ {0} /\ oldTransitionCount \in Nat
    /\ oldTransitionCount <= Len(clusterTransitions)
    /\ Recorded /\ Meeting /\ Handled

\* Two places come one before the other.
LEMMA PlacesOrdered ==
    ASSUME NEW list, DOMAIN list \subseteq Nat \ {0}, NEW x \in Places(list), NEW y \in Places(list)
    PROVE  /\ Before(<<0, 0>>, x)
           /\ x = y \/ Before(x, y) \/ Before(y, x)
           /\ ~Before(x, x)
<1>1. /\ x = <<x[1], x[2]>> /\ x[1] \in Nat \ {0} /\ x[2] \in Nat \ {0}
      /\ y = <<y[1], y[2]>> /\ y[1] \in Nat \ {0} /\ y[2] \in Nat \ {0}
  BY DEF Places
<1> PICK x1 : x1 = x[1]
  OBVIOUS
<1> PICK x2 : x2 = x[2]
  OBVIOUS
<1> PICK y1 : y1 = y[1]
  OBVIOUS
<1> PICK y2 : y2 = y[2]
  OBVIOUS
<1>2. x = y <=> (x1 = y1 /\ x2 = y2)
  BY <1>1
<1>3. <<0, 0>>[1] = 0 /\ <<0, 0>>[2] = 0
  OBVIOUS
<1>4. QED
  BY <1>1, <1>2, <1>3 DEF Before

\* Cluster 0 has no transitions.
LEMMA NoPairAtZero == ASSUME GP!IInv, 1 \in DOMAIN clusters PROVE DefectPairs(1) = {}
<1>1. DOMAIN transitions[1] = {}
  BY GraphFacts
<1>2. QED
  BY <1>1 DEF DefectPairs, Places

LEMMA FormingInit == Init => Forming
<1> SUFFICES ASSUME Init PROVE Forming
  OBVIOUS
<1>1. PICK in \in Inputs :
        LET n == Len(in.structure)
            g == ConnectedGraph(n, in.links) IN
        /\ clusters = [p \in 1 .. n + 1 |-> p - 1]
        /\ pool = g.pool /\ transitions = g.lists /\ clusterTransitions = g.published
        /\ disconnected = {}
        /\ structure = <<Other>> \o in.structure
        /\ center = 2 /\ pair = <<0, 0>>
        /\ oldTransitionCount = Len(in.links)
  BY DEF Init
<1>s. PICK ss : ss = in.structure
  OBVIOUS
<1>l. PICK links : links = in.links
  OBVIOUS
<1>n. PICK n : n = Len(ss)
  OBVIOUS
<1>m. PICK m : m = Len(links)
  OBVIOUS
<1>2. /\ Other \notin DOMAIN Symmetries
      /\ ss \in Seq(DOMAIN Symmetries)
      /\ links \in Seq([c1 : DOMAIN ss, c2 : DOMAIN ss, tm : Tm])
      /\ \A k \in DOMAIN links : links[k].c1 # links[k].c2
  BY <1>s, <1>l, SuperAssumption
<1>3. /\ n \in Nat /\ DOMAIN ss = 1 .. n /\ \A k \in 1 .. n : ss[k] \in DOMAIN Symmetries
      /\ m \in Nat /\ DOMAIN links = 1 .. m
  BY <1>2, <1>n, <1>m, LenProperties, ElementOfSeq
<1>4. \A k \in 1 .. m : LinkOk(n, links[k])
  <2>1. \A k \in 1 .. m : links[k] \in [c1 : DOMAIN ss, c2 : DOMAIN ss, tm : Tm]
    BY <1>2, <1>m, ElementOfSeq
  <2>2. QED
    BY <1>2, <1>3, <2>1 DEF LinkOk
<1>5. Linked(n + 1, m, pool, transitions, clusterTransitions)
  <2>1. LET g == ConnectedGraph(n, links)
        IN  pool = g.pool /\ transitions = g.lists /\ clusterTransitions = g.published
    BY <1>1, <1>s, <1>l, <1>n
  <2>2. QED
    BY <1>3, <1>4, <1>m, <2>1, ConnectedLinked
<1>6. /\ clusters \in Seq(Nat) /\ Len(clusters) = n + 1 /\ DOMAIN clusters = 1 .. n + 1
      /\ clusters # <<>>
  <2>1. clusters = [p \in 1 .. n + 1 |-> p - 1]
    BY <1>1, <1>s, <1>n
  <2>2. \A p \in 1 .. n + 1 : p - 1 \in Nat
    BY <1>3
  <2>3. n + 1 \in Nat /\ DOMAIN clusters = 1 .. n + 1
    BY <1>3, <2>1
  <2>4. clusters \in Seq(Nat)
    BY <2>1, <2>2, <2>3, IsASeq
  <2>5. Len(clusters) = n + 1
    BY <2>3, <2>4, LenProperties
  <2>6. Len(<<>>) = 0 /\ n + 1 # 0
    BY <1>3
  <2>7. QED
    BY <2>3, <2>4, <2>5, <2>6
<1>7. GP!IInv
  <2>1. disconnected = {}
    BY <1>1
  <2>2. disconnected \subseteq GP!Pointers \X GP!Pointers /\ GP!Apart(pool, disconnected)
    BY <2>1 DEF GP!Apart
  <2>3. QED
    BY <1>5, <1>6, <2>2 DEF Linked, GP!IInv
<1>8. /\ center = 2 /\ pair = <<0, 0>> /\ oldTransitionCount = m
      /\ structure = <<Other>> \o ss
  BY <1>1, <1>s, <1>l, <1>m
<1>9. OnlyZeroIsOther
  <2>1. \A c \in 1 .. n + 1 : structure[c] = IF c = 1 THEN Other ELSE ss[c - 1]
    <3>1. <<Other>> \in Seq({Other} \cup DOMAIN Symmetries) /\ Len(<<Other>>) = 1
          /\ <<Other>>[1] = Other
      OBVIOUS
    <3>2. ss \in Seq({Other} \cup DOMAIN Symmetries)
      BY <1>2, <1>3, SeqDef
    <3>3. \A c \in 1 .. Len(<<Other>>) + Len(ss) :
             (<<Other>> \o ss)[c] = IF c <= Len(<<Other>>) THEN <<Other>>[c]
                                    ELSE ss[c - Len(<<Other>>)]
      BY <3>1, <3>2, ConcatProperties
    <3>4. ASSUME NEW c \in 1 .. n + 1
          PROVE  structure[c] = IF c = 1 THEN Other ELSE ss[c - 1]
      <4>1. c \in 1 .. 1 + n /\ (c <= 1 <=> c = 1)
        BY <1>3
      <4>2. (<<Other>> \o ss)[c] = IF c <= 1 THEN <<Other>>[c] ELSE ss[c - 1]
        BY <1>n, <3>1, <3>3, <4>1
      <4>3. QED
        BY <1>8, <3>1, <4>1, <4>2
    <3>5. QED
      BY <3>4
  <2>2. \A c \in 1 .. n + 1 : c # 1 => c - 1 \in 1 .. n
    BY <1>3
  <2>3. QED
    BY <1>2, <1>3, <1>6, <2>1, <2>2 DEF OnlyZeroIsOther
<1>10. /\ \A t \in DOMAIN pool : T(t).distance = 1
       /\ Len(clusterTransitions) = m /\ DOMAIN clusterTransitions = 1 .. m
  BY <1>3, <1>5, LenProperties DEF Linked, T
<1>11. Recorded /\ Meeting
  <2>1. \A k \in DOMAIN clusterTransitions : ~(k > oldTransitionCount)
    BY <1>3, <1>8, <1>10
  <2>2. QED
    BY <1>10, <2>1 DEF Recorded, Meeting
<1>12. Handled
  <2>1. ASSUME NEW d \in DOMAIN clusters, NEW x \in DefectPairs(d), Passed(d, x) PROVE FALSE
    <3>1. d # 1
      BY <1>7, NoPairAtZero
    <3>2. d \in Nat /\ ~(d < 2)
      BY <1>3, <1>6, <3>1
    <3>3. DOMAIN transitions[d] \subseteq Nat \ {0}
      BY <1>7, GraphFacts
    <3>4. Before(<<0, 0>>, x)
      BY <3>3, PlacesOrdered DEF DefectPairs
    <3>5. QED
      BY <1>8, <2>1, <3>2, <3>4 DEF Passed
  <2>2. QED
    BY <2>1 DEF Handled
<1>13. QED
  BY <1>3, <1>7, <1>8, <1>9, <1>10, <1>11, <1>12 DEF Forming

\* Nothing that is looked at changes.
LEMMA GraphKept ==
    ASSUME GP!IInv, UNCHANGED <<clusters, pool, transitions, clusterTransitions, structure>>,
           NEW d
    PROVE  /\ DefectPairs(d)' = DefectPairs(d)
           /\ \A x : PairJoined(d, x)' <=> PairJoined(d, x)
<1>1. \A t : T(t)' = T(t)
  BY DEF T
<1>2. \A k : At(d, k)' = At(d, k)
  BY DEF At
<1>3. \A t, s : Misorientation(t, s)' = Misorientation(t, s)
  BY <1>1 DEF Misorientation
<1>4. \A a, b, tm : Joined(a, b, tm)' <=> Joined(a, b, tm)
  BY <1>1 DEF Joined
<1>5. DefectPairs(d)' = DefectPairs(d)
  BY <1>1, <1>2 DEF DefectPairs, Places, ToCrystal
<1>6. ASSUME NEW x PROVE PairJoined(d, x)' <=> PairJoined(d, x)
  <2>1. At(d, x[1])' = At(d, x[1]) /\ At(d, x[2])' = At(d, x[2])
    BY <1>2
  <2>2. QED
    BY <1>1, <1>3, <1>4, <2>1 DEF PairJoined
<1>7. QED
  BY <1>5, <1>6

\* A pair of distance 2 makes no transition direct, and none is lost.
LEMMA PairKeeps ==
    ASSUME GP!IInv, NEW a, NEW b, NEW tm, PairAdded(a, b, tm)
    PROVE  /\ \A t \in DOMAIN pool : t \in DOMAIN pool' /\ T(t)' = T(t)
           /\ \A e, f, m : Direct(e, f, m)' <=> Direct(e, f, m)
           /\ \A e, f, m : Joined(e, f, m) => Joined(e, f, m)'
           /\ Joined(a, b, tm)'
<1>p. PICK p : p = Len(pool) + 1
  OBVIOUS
<1>q. PICK q : q = Len(pool) + 2
  OBVIOUS
<1>1. /\ DOMAIN pool' = DOMAIN pool \cup {p, q}
      /\ \A u \in DOMAIN pool : pool'[u] = pool[u]
      /\ pool'[p] = [c1 |-> a, c2 |-> b, tm |-> tm, reverse |-> q, distance |-> 2]
      /\ pool'[q] = [c1 |-> b, c2 |-> a, tm |-> Inv(tm), reverse |-> p, distance |-> 2]
  BY <1>p, <1>q DEF PairAdded
<1>2. /\ T(p)'.c1 = a /\ T(p)'.c2 = b /\ T(p)'.tm = tm /\ T(p)'.distance = 2
      /\ T(q)'.distance = 2
  BY <1>1 DEF T
<1>3. \A t \in DOMAIN pool : t \in DOMAIN pool' /\ T(t)' = T(t)
  BY <1>1 DEF T
<1>4. \A t \in DOMAIN pool' : T(t)'.distance = 1 => t \in DOMAIN pool
  BY <1>1, <1>2
<1>5. \A e, f, m : Direct(e, f, m)' <=> Direct(e, f, m)
  BY <1>3, <1>4 DEF Direct
<1>6. \A e, f, m : Joined(e, f, m) => Joined(e, f, m)'
  BY <1>3 DEF Joined
<1>7. Joined(a, b, tm)'
  BY <1>1, <1>2 DEF Joined
<1>8. QED
  BY <1>3, <1>5, <1>6, <1>7

\* A cluster that is not at the ends keeps its list and its pairs.
LEMMA DefectKept ==
    ASSUME GP!IInv, NEW a, NEW b, NEW tm, PairAdded(a, b, tm), structure' = structure,
           NEW d \in DOMAIN clusters \ {a, b}
    PROVE  /\ DefectPairs(d)' = DefectPairs(d)
           /\ \A x \in DefectPairs(d) : PairJoined(d, x) => PairJoined(d, x)'
<1>1. /\ \A t \in DOMAIN pool : t \in DOMAIN pool' /\ T(t)' = T(t)
      /\ \A e, f, m : Joined(e, f, m) => Joined(e, f, m)'
  BY PairKeeps
<1>2. transitions'[d] = transitions[d] /\ \A k : At(d, k)' = At(d, k)
  BY DEF PairAdded, At
<1>3. \A k \in DOMAIN transitions[d] : At(d, k) \in DOMAIN pool
  BY GraphFacts
<1>4. Places(transitions[d])' = Places(transitions[d])
  BY <1>2 DEF Places
<1>5. \A x \in Places(transitions[d]) : x[1] \in DOMAIN transitions[d] /\ x[2] \in DOMAIN transitions[d]
  BY DEF Places
<1>6. \A k \in DOMAIN transitions[d] : T(At(d, k))' = T(At(d, k))
  BY <1>1, <1>2, <1>3
<1>7. \A k \in DOMAIN transitions[d] : ToCrystal(At(d, k))' <=> ToCrystal(At(d, k))
  BY <1>6 DEF ToCrystal
<1>8. DefectPairs(d)' = DefectPairs(d)
  BY <1>4, <1>5, <1>6, <1>7 DEF DefectPairs
<1>9. ASSUME NEW x \in DefectPairs(d), PairJoined(d, x) PROVE PairJoined(d, x)'
  <2>t. PICK t : t = At(d, x[1])
    OBVIOUS
  <2>s. PICK s : s = At(d, x[2])
    OBVIOUS
  <2>1. At(d, x[1])' = t /\ At(d, x[2])' = s
    BY <1>2, <2>t, <2>s
  <2>2. t \in DOMAIN pool /\ s \in DOMAIN pool
    BY <2>t, <2>s, DefectPairFacts
  <2>3. T(t).reverse \in DOMAIN pool
    BY <2>2, BackFacts
  <2>4. T(t)' = T(t) /\ T(s)' = T(s) /\ Misorientation(t, s)' = Misorientation(t, s)
    <3>r. PICK r : r = T(t).reverse
      OBVIOUS
    <3>1. T(t)' = T(t) /\ T(s)' = T(s) /\ T(r)' = T(r)
      BY <1>1, <2>2, <2>3, <3>r
    <3>2. T(t)'.reverse = r
      BY <3>1, <3>r
    <3>3. Misorientation(t, s)' = Mul(T(s)'.tm, T(r)'.tm)
      BY <3>2 DEF Misorientation
    <3>4. QED
      BY <3>1, <3>3, <3>r DEF Misorientation
  <2>m. PICK m : m = Misorientation(t, s)
    OBVIOUS
  <2>5. m \in Symmetries[InputCrystal] => Joined(T(t).c2, T(s).c2, m)
    BY <1>9, <2>m, <2>s, <2>t DEF PairJoined
  <2>6. m \in Symmetries[InputCrystal] => Joined(T(t).c2, T(s).c2, m)'
    <3>e. PICK e : e = T(t).c2
      OBVIOUS
    <3>f. PICK f : f = T(s).c2
      OBVIOUS
    <3>1. m \in Symmetries[InputCrystal] => Joined(e, f, m)'
      BY <1>1, <2>5, <3>e, <3>f
    <3>2. T(t)'.c2 = e /\ T(s)'.c2 = f
      BY <2>4, <3>e, <3>f
    <3>3. QED
      BY <3>1, <3>2
  <2>7. QED
    BY <2>1, <2>4, <2>6, <2>m DEF PairJoined
<1>10. QED
  BY <1>8, <1>9

\* What the loops have come to when they come to the next pair.
LEMMA PassedNext ==
    ASSUME GP!IInv, center \in DOMAIN clusters, NEW y \in DefectPairs(center),
           NextOf(DefectPairs(center), y), pair' = y, center' = center,
           NEW d, NEW x \in DefectPairs(d), Passed(d, x)'
    PROVE  Passed(d, x) \/ (d = center /\ x = y)
<1>1. d < center \/ (d = center /\ ~Before(y, x))
  BY DEF Passed, Before
<1>2. CASE d = center /\ ~Before(y, x)
  <2>1. DOMAIN transitions[center] \subseteq Nat \ {0}
    BY GraphFacts
  <2>2. x = y \/ Before(x, y)
    BY <1>2, <2>1, PlacesOrdered DEF DefectPairs
  <2>3. Before(pair, x) => ~Before(x, y)
    BY <1>2 DEF NextOf
  <2>4. QED
    BY <1>2, <2>2, <2>3 DEF Passed
<1>3. QED
  BY <1>1, <1>2 DEF Passed

\* Crystals that met still meet.
LEMMA MeetingKept ==
    ASSUME UNCHANGED <<clusters, structure>>, NEW e, NEW f,
           \A g, h, m : Direct(g, h, m)' <=> Direct(g, h, m), MeetSomewhere(e, f)
    PROVE  MeetSomewhere(e, f)'
<1>1. PICK d \in DOMAIN clusters : MeetAt(e, f, d)
  BY DEF MeetSomewhere
<1>2. MeetAt(e, f, d)'
  BY <1>1 DEF MeetAt
<1>3. QED
  BY <1>1, <1>2 DEF MeetSomewhere

\* The crystals at a pair of a defect meet there, if nothing joins them yet.
LEMMA PairMeets ==
    ASSUME GP!IInv, NEW c \in DOMAIN clusters, structure[c] # InputCrystal,
           NEW x \in DefectPairs(c),
           Misorientation(At(c, x[1]), At(c, x[2])) \in Symmetries[InputCrystal],
           ~Direct(T(At(c, x[1])).c2, T(At(c, x[2])).c2, Misorientation(At(c, x[1]), At(c, x[2])))
    PROVE  MeetSomewhere(T(At(c, x[1])).c2, T(At(c, x[2])).c2)
<1>t. PICK t : t = At(c, x[1])
  OBVIOUS
<1>s. PICK s : s = At(c, x[2])
  OBVIOUS
<1>1. /\ t \in DOMAIN pool /\ s \in DOMAIN pool
      /\ T(t).c1 = c /\ T(s).c1 = c /\ T(t).c2 # T(s).c2
      /\ T(t).distance = 1 /\ T(s).distance = 1
      /\ structure[T(t).c2] = InputCrystal /\ structure[T(s).c2] = InputCrystal
      /\ T(t).tm \in Tm /\ T(s).tm \in Tm
      /\ Misorientation(t, s) = Mul(T(s).tm, Inv(T(t).tm))
  BY <1>t, <1>s, DefectPairFacts
<1>2. Direct(c, T(t).c2, T(t).tm) /\ Direct(c, T(s).c2, T(s).tm)
  BY <1>1 DEF Direct
<1>3. /\ Mul(T(s).tm, Inv(T(t).tm)) \in Symmetries[InputCrystal]
      /\ ~Direct(T(t).c2, T(s).c2, Mul(T(s).tm, Inv(T(t).tm)))
  BY <1>1, <1>t, <1>s
<1>4. MeetAt(T(t).c2, T(s).c2, c)
  BY <1>1, <1>2, <1>3 DEF MeetAt
<1>5. MeetSomewhere(T(t).c2, T(s).c2)
  BY <1>4 DEF MeetSomewhere
<1>6. QED
  BY <1>5, <1>t, <1>s

\* A pair is recorded when it is created.
LEMMA PairRecorded ==
    ASSUME Forming, NEW a, NEW b, NEW tm, PairAdded(a, b, tm),
           UNCHANGED <<structure, oldTransitionCount>>, MeetSomewhere(a, b)
    PROVE  /\ oldTransitionCount <= Len(clusterTransitions')
           /\ Recorded' /\ Meeting'
<1>p. PICK p : p = Len(pool) + 1
  OBVIOUS
<1>q. PICK q : q = Len(pool) + 2
  OBVIOUS
<1>n. PICK n : n = Len(clusterTransitions)
  OBVIOUS
<1>0. /\ GP!IInv /\ clusterTransitions \in Seq(Nat) /\ oldTransitionCount \in Nat
      /\ oldTransitionCount <= n
      /\ \A k \in DOMAIN clusterTransitions : clusterTransitions[k] \in DOMAIN pool
      /\ n \in Nat /\ DOMAIN clusterTransitions = 1 .. n
  BY <1>n, LenProperties DEF Forming, GP!IInv
<1>1. /\ DOMAIN pool' = DOMAIN pool \cup {p, q}
      /\ pool'[p] = [c1 |-> a, c2 |-> b, tm |-> tm, reverse |-> q, distance |-> 2]
      /\ pool'[q] = [c1 |-> b, c2 |-> a, tm |-> Inv(tm), reverse |-> p, distance |-> 2]
      /\ clusterTransitions' = Append(clusterTransitions, p)
      /\ clusters' = clusters
  BY <1>p, <1>q DEF PairAdded
<1>2. T(p)'.c1 = a /\ T(p)'.c2 = b /\ T(q)'.reverse = p
  BY <1>1 DEF T
<1>3. /\ \A t \in DOMAIN pool : T(t)' = T(t)
      /\ \A e, f, m : Direct(e, f, m)' <=> Direct(e, f, m)
  BY <1>0, PairKeeps
<1>4. /\ DOMAIN clusterTransitions' = 1 .. n + 1 /\ Len(clusterTransitions') = n + 1
      /\ clusterTransitions'[n + 1] = p
      /\ \A k \in 1 .. n : clusterTransitions'[k] = clusterTransitions[k]
  <2>1. p \in Nat
    BY <1>0, <1>p, GraphFacts
  <2>2. /\ Append(clusterTransitions, p) \in Seq(Nat) /\ Len(Append(clusterTransitions, p)) = n + 1
        /\ Append(clusterTransitions, p)[n + 1] = p
        /\ \A k \in 1 .. n : Append(clusterTransitions, p)[k] = clusterTransitions[k]
    BY <1>0, <1>n, <2>1, AppendProperties
  <2>3. DOMAIN Append(clusterTransitions, p) = 1 .. n + 1
    BY <2>2, LenProperties
  <2>4. QED
    BY <1>1, <2>2, <2>3
<1>5. /\ n + 1 \in 1 .. n + 1 /\ n + 1 > oldTransitionCount /\ oldTransitionCount <= n + 1
      /\ \A k \in 1 .. n : k \in 1 .. n + 1
      /\ \A k \in 1 .. n + 1 : k \in 1 .. n \/ k = n + 1
  BY <1>0
<1>6. Recorded'
  <2> SUFFICES ASSUME NEW t \in DOMAIN pool', T(t)'.distance # 1
               PROVE  \E k \in DOMAIN clusterTransitions' :
                         /\ k > oldTransitionCount
                         /\ clusterTransitions'[k] = t \/ clusterTransitions'[k] = T(t)'.reverse
    BY DEF Recorded
  <2>1. CASE t \in DOMAIN pool
    <3>1. T(t)' = T(t)
      BY <1>3, <2>1
    <3>2. PICK k \in 1 .. n : /\ k > oldTransitionCount
                              /\ clusterTransitions[k] = t \/ clusterTransitions[k] = T(t).reverse
      BY <1>0, <2>1, <3>1 DEF Forming, Recorded
    <3>3. QED
      BY <1>4, <1>5, <3>1, <3>2
  <2>2. CASE t = p
    BY <1>4, <1>5, <2>2
  <2>3. CASE t = q
    BY <1>2, <1>4, <1>5, <2>3
  <2>4. QED
    BY <1>1, <2>1, <2>2, <2>3
<1>7. Meeting'
  <2> SUFFICES ASSUME NEW k \in DOMAIN clusterTransitions', k > oldTransitionCount
               PROVE  MeetSomewhere(T(clusterTransitions[k]).c1, T(clusterTransitions[k]).c2)'
    BY DEF Meeting
  <2>t. PICK t : t = clusterTransitions'[k]
    OBVIOUS
  <2>1. PICK e : e = T(t)'.c1
    OBVIOUS
  <2>2. PICK f : f = T(t)'.c2
    OBVIOUS
  <2>3. MeetSomewhere(e, f)
    <3>1. CASE k = n + 1
      BY <1>2, <1>4, <2>t, <2>1, <2>2, <3>1
    <3>2. CASE k \in 1 .. n
      <4>1. t = clusterTransitions[k] /\ t \in DOMAIN pool
        BY <1>0, <1>4, <2>t, <3>2
      <4>2. e = T(t).c1 /\ f = T(t).c2
        BY <1>3, <2>1, <2>2, <4>1
      <4>3. MeetSomewhere(T(t).c1, T(t).c2)
        BY <1>0, <3>2, <4>1 DEF Forming, Meeting
      <4>4. QED
        BY <4>2, <4>3
    <3>3. QED
      BY <1>4, <1>5, <3>1, <3>2
  <2>4. MeetSomewhere(e, f)'
    <3>1. UNCHANGED <<clusters, structure>>
      BY <1>1
    <3>2. QED
      BY <1>3, <2>3, <3>1, MeetingKept
  <2>5. QED
    BY <2>1, <2>2, <2>4, <2>t
<1>8. QED
  BY <1>4, <1>5, <1>6, <1>7

LEMMA JoinPairForms == Forming /\ JoinPair => Forming'
<1> SUFFICES ASSUME Forming, JoinPair PROVE Forming'
  OBVIOUS
<1>1. PICK y \in Places(transitions[center]) :
         /\ NextOf(DefectPairs(center), y)
         /\ Join(At(center, y[1]), At(center, y[2]), Symmetries[InputCrystal])
         /\ pair' = y
  BY DEF JoinPair
<1>c. PICK c : c = center
  OBVIOUS
<1>2. /\ c \in DOMAIN clusters /\ structure[c] # InputCrystal /\ y \in DefectPairs(c)
      /\ UNCHANGED <<structure, center, oldTransitionCount>>
  BY <1>1, <1>c DEF JoinPair, AtDefect, NextOf
<1>3. /\ GP!IInv /\ OnlyZeroIsOther /\ center \in Nat \ {0} /\ oldTransitionCount \in Nat
      /\ oldTransitionCount <= Len(clusterTransitions) /\ Recorded /\ Meeting /\ Handled
  BY DEF Forming
<1>t. PICK t : t = At(c, y[1])
  OBVIOUS
<1>s. PICK s : s = At(c, y[2])
  OBVIOUS
<1>a. PICK a : a = T(t).c2
  OBVIOUS
<1>b. PICK b : b = T(s).c2
  OBVIOUS
<1>m. PICK tm : tm = Misorientation(t, s)
  OBVIOUS
<1>w. PICK S : S = Symmetries[InputCrystal]
  OBVIOUS
<1>4. /\ GP!IInv'
      /\ \/ /\ UNCHANGED <<clusters, pool, transitions, clusterTransitions>>
            /\ tm \in S => Joined(a, b, tm)
         \/ tm \in S /\ ~Joined(a, b, tm) /\ PairAdded(a, b, tm)
  BY <1>1, <1>2, <1>3, <1>a, <1>b, <1>c, <1>m, <1>s, <1>t, <1>w, JoinDoes
<1>5. clusters' = clusters
  BY <1>4 DEF PairAdded
<1>6. OnlyZeroIsOther'
  BY <1>2, <1>3, <1>5 DEF OnlyZeroIsOther
<1>7. ASSUME \A d \in DOMAIN clusters : structure[d] # InputCrystal =>
                /\ DefectPairs(d)' = DefectPairs(d)
                /\ \A x \in DefectPairs(d) : PairJoined(d, x) => PairJoined(d, x)',
             PairJoined(c, y)'
      PROVE  Handled'
  <2> SUFFICES ASSUME NEW d \in DOMAIN clusters, NEW x \in DefectPairs(d)',
                      structure[d] # InputCrystal, Passed(d, x)'
               PROVE  PairJoined(d, x)'
    BY <1>2, <1>5 DEF Handled
  <2>1. x \in DefectPairs(d)
    BY <1>7
  <2>2. Passed(d, x) \/ (d = center /\ x = y)
    BY <1>1, <1>2, <1>3, <1>c, <2>1, PassedNext
  <2>3. CASE Passed(d, x)
    BY <1>3, <1>7, <2>1, <2>3 DEF Handled
  <2>4. CASE d = center /\ x = y
    BY <1>7, <1>c, <2>4
  <2>5. QED
    BY <2>2, <2>3, <2>4
<1>8. CASE UNCHANGED <<clusters, pool, transitions, clusterTransitions>> /\ (tm \in S => Joined(a, b, tm))
  <2>1. UNCHANGED <<clusters, pool, transitions, clusterTransitions, structure>>
    BY <1>2, <1>8
  <2>2. \A d : /\ DefectPairs(d)' = DefectPairs(d)
               /\ \A x : PairJoined(d, x)' <=> PairJoined(d, x)
    BY <1>3, <2>1, GraphKept
  <2>3. PairJoined(c, y)
    BY <1>8, <1>a, <1>b, <1>m, <1>s, <1>t, <1>w DEF PairJoined
  <2>4. Handled'
    BY <1>7, <2>2, <2>3
  <2>5. Recorded' /\ Meeting'
    <3>1. Recorded'
      BY <1>2, <1>3, <1>8 DEF Recorded, T
    <3>2. \A g, h, m : Direct(g, h, m)' <=> Direct(g, h, m)
      BY <1>8 DEF Direct, T
    <3>3. \A e, f : MeetSomewhere(e, f) => MeetSomewhere(e, f)'
      BY <2>1, <3>2, MeetingKept
    <3>4. \A k : T(clusterTransitions[k])' = T(clusterTransitions[k])
      BY <1>8 DEF T
    <3>5. Meeting'
      <4> SUFFICES ASSUME NEW k \in DOMAIN clusterTransitions, k > oldTransitionCount
                   PROVE  MeetSomewhere(T(clusterTransitions[k]).c1, T(clusterTransitions[k]).c2)'
        BY <1>2, <1>8 DEF Meeting
      <4>1. PICK e : e = T(clusterTransitions[k]).c1
        OBVIOUS
      <4>2. PICK f : f = T(clusterTransitions[k]).c2
        OBVIOUS
      <4>3. MeetSomewhere(e, f)'
        BY <1>3, <3>3, <4>1, <4>2 DEF Meeting
      <4>4. T(clusterTransitions[k])'.c1 = e /\ T(clusterTransitions[k])'.c2 = f
        BY <3>4, <4>1, <4>2
      <4>5. QED
        BY <4>3, <4>4
    <3>6. QED
      BY <3>1, <3>5
  <2>6. QED
    BY <1>2, <1>3, <1>4, <1>6, <1>8, <2>4, <2>5 DEF Forming
<1>9. CASE tm \in S /\ ~Joined(a, b, tm) /\ PairAdded(a, b, tm)
  <2>1. /\ t \in DOMAIN pool /\ s \in DOMAIN pool
        /\ structure[a] = InputCrystal /\ structure[b] = InputCrystal
    BY <1>2, <1>3, <1>a, <1>b, <1>s, <1>t, DefectPairFacts
  <2>2. \A d \in DOMAIN clusters : structure[d] # InputCrystal =>
           /\ DefectPairs(d)' = DefectPairs(d)
           /\ \A x \in DefectPairs(d) : PairJoined(d, x) => PairJoined(d, x)'
    <3>1. ASSUME NEW d \in DOMAIN clusters, structure[d] # InputCrystal
          PROVE  /\ DefectPairs(d)' = DefectPairs(d)
                 /\ \A x \in DefectPairs(d) : PairJoined(d, x) => PairJoined(d, x)'
      <4>1. d \in DOMAIN clusters \ {a, b} /\ structure' = structure
        BY <1>2, <2>1, <3>1
      <4>2. QED
        BY <1>3, <1>9, <4>1, DefectKept
    <3>2. QED
      BY <3>1
  <2>3. MeetSomewhere(a, b)
    <3>1. ~Direct(a, b, tm)
      BY <1>9 DEF Direct, Joined
    <3>2. QED
      BY <1>2, <1>3, <1>9, <1>a, <1>b, <1>m, <1>s, <1>t, <1>w, <3>1, PairMeets
  <2>4. /\ oldTransitionCount <= Len(clusterTransitions') /\ Recorded' /\ Meeting'
    BY <1>2, <1>9, <2>3, PairRecorded
  <2>5. PairJoined(c, y)'
    <3>1. /\ \A u \in DOMAIN pool : T(u)' = T(u)
          /\ Joined(a, b, tm)'
      BY <1>3, <1>9, PairKeeps
    <3>2. c \in DOMAIN clusters \ {a, b}
      BY <1>2, <2>1
    <3>3. At(c, y[1])' = t /\ At(c, y[2])' = s
      BY <1>9, <1>s, <1>t, <3>2 DEF PairAdded, At
    <3>4. T(t)'.c2 = a /\ T(s)'.c2 = b
      BY <1>a, <1>b, <2>1, <3>1
    <3>5. Misorientation(t, s)' = tm
      <4>r. PICK r : r = T(t).reverse
        OBVIOUS
      <4>1. r \in DOMAIN pool
        BY <1>3, <2>1, <4>r, BackFacts
      <4>2. T(t)'.reverse = r /\ T(r)' = T(r) /\ T(s)' = T(s)
        BY <2>1, <3>1, <4>1, <4>r
      <4>3. QED
        BY <1>m, <4>2, <4>r DEF Misorientation
    <3>6. QED
      BY <3>1, <3>3, <3>4, <3>5 DEF PairJoined
  <2>6. Handled'
    BY <1>7, <2>2, <2>5
  <2>7. QED
    BY <1>2, <1>3, <1>4, <1>6, <2>4, <2>6 DEF Forming
<1>10. QED
  BY <1>4, <1>8, <1>9

LEMMA NextCenterForms == Forming /\ NextCenter => Forming'
<1> SUFFICES ASSUME Forming, NextCenter PROVE Forming'
  OBVIOUS
<1>1. /\ center \in DOMAIN clusters /\ center' = center + 1 /\ pair' = <<0, 0>>
      /\ UNCHANGED <<clusters, pool, transitions, clusterTransitions, disconnected, structure,
                     oldTransitionCount>>
      /\ structure[center] # InputCrystal => Finished(DefectPairs(center))
  BY DEF NextCenter, AtDefect, graphVars
<1>2. /\ GP!IInv /\ OnlyZeroIsOther /\ center \in Nat \ {0} /\ oldTransitionCount \in Nat
      /\ oldTransitionCount <= Len(clusterTransitions) /\ Recorded /\ Meeting /\ Handled
  BY DEF Forming
<1>3. GP!IInv'
  BY <1>1, <1>2, GraphInputs, GP!SameStep
<1>4. \A d : /\ DefectPairs(d)' = DefectPairs(d)
             /\ \A x : PairJoined(d, x)' <=> PairJoined(d, x)
  BY <1>1, <1>2, GraphKept
<1>5. Handled'
  <2> SUFFICES ASSUME NEW d \in DOMAIN clusters, NEW x \in DefectPairs(d)',
                      structure[d] # InputCrystal, Passed(d, x)'
               PROVE  PairJoined(d, x)'
    BY <1>1 DEF Handled
  <2>1. x \in DefectPairs(d)
    BY <1>4
  <2>2. d \in Nat /\ DOMAIN transitions[d] \subseteq Nat \ {0}
    BY <1>2, GraphFacts
  <2>3. Before(<<0, 0>>, x)
    BY <2>1, <2>2, PlacesOrdered DEF DefectPairs
  <2>4. d < center + 1
    BY <1>1, <2>3 DEF Passed, Before
  <2>5. Passed(d, x)
    <3>1. CASE d = center
      <4>1. ~Before(pair, x)
        BY <1>1, <2>1, <3>1 DEF Finished
      <4>2. QED
        BY <3>1, <4>1 DEF Passed
    <3>2. CASE d # center
      BY <1>2, <2>2, <2>4, <3>2 DEF Passed
    <3>3. QED
      BY <3>1, <3>2
  <2>6. QED
    BY <1>2, <1>4, <2>1, <2>5 DEF Handled
<1>6. Recorded'
  BY <1>1, <1>2 DEF Recorded, T
<1>7. Meeting'
  BY <1>1, <1>2 DEF Meeting, MeetSomewhere, MeetAt, Direct, T
<1>8. OnlyZeroIsOther' /\ center' \in Nat \ {0}
  BY <1>1, <1>2 DEF OnlyZeroIsOther
<1>9. QED
  BY <1>1, <1>2, <1>3, <1>5, <1>6, <1>7, <1>8 DEF Forming

----------------------------------------------------------------------------
(* The grains *)

\* The k-th transition created since the call joins a and b, in some direction.
JoinedBy(k, a, b) ==
    LET t == clusterTransitions[k]
    IN  \/ T(t).c1 = a /\ T(t).c2 = b
        \/ T(t).c1 = b /\ T(t).c2 = a

SinceTheCall == {k \in DOMAIN clusterTransitions : k > oldTransitionCount}

\* What one of two places in a list that meets both directions of gives.
LEMMA PairCreated ==
    ASSUME Forming, center \notin DOMAIN clusters, NEW d \in DOMAIN clusters,
           structure[d] # InputCrystal,
           NEW i \in DOMAIN transitions[d], NEW j \in DOMAIN transitions[d], i < j,
           NEW a, NEW b, a # b, structure[a] = InputCrystal, structure[b] = InputCrystal,
           T(At(d, i)).c2 = a, T(At(d, i)).distance = 1,
           T(At(d, j)).c2 = b, T(At(d, j)).distance = 1,
           NEW m, m = Misorientation(At(d, i), At(d, j)), m \in Symmetries[InputCrystal]
    PROVE  Joined(a, b, m)
<1> DEFINE x == <<i, j>>
<1>1. x[1] = i /\ x[2] = j
  OBVIOUS
<1>2. x \in DefectPairs(d)
  <2>1. x \in Places(transitions[d])
    BY <1>1 DEF Places
  <2> HIDE DEF x
  <2>2. QED
    BY <1>1, <2>1 DEF DefectPairs, ToCrystal
<1> HIDE DEF x
<1>3. Passed(d, x)
  <2>1. GP!IInv /\ center \in Nat \ {0} /\ Len(clusters) \in Nat /\ DOMAIN clusters = 1 .. Len(clusters)
    BY GraphFacts DEF Forming
  <2>2. d < center
    BY <2>1
  <2>3. QED
    BY <2>2 DEF Passed
<1>4. PairJoined(d, x)
  BY <1>2, <1>3 DEF Forming, Handled
<1>5. QED
  BY <1>1, <1>4 DEF PairJoined

\* Crystals that meet at a defect are joined when the loops have ended.
LEMMA MeetingsJoined ==
    ASSUME Forming, center \notin DOMAIN clusters, NEW d \in DOMAIN clusters,
           NEW a, NEW b, MeetAt(a, b, d)
    PROVE  \E k \in SinceTheCall : JoinedBy(k, a, b)
<1>0. GP!IInv /\ Recorded
  BY DEF Forming
<1>1. PICK x \in Tm, y \in Tm :
         /\ Direct(d, a, x) /\ Direct(d, b, y)
         /\ Mul(y, Inv(x)) \in Symmetries[InputCrystal]
         /\ ~Direct(a, b, Mul(y, Inv(x)))
  BY DEF MeetAt
<1>2. /\ a # b /\ structure[a] = InputCrystal /\ structure[b] = InputCrystal
      /\ structure[d] # InputCrystal
  BY DEF MeetAt
<1>m. PICK m : m = Mul(y, Inv(x))
  OBVIOUS
<1>3. m \in Tm /\ Inv(m) = Mul(x, Inv(y)) /\ Inv(Inv(m)) = m /\ Inv(m) \in Tm
  <2>1. Inv(x) \in Tm /\ Inv(y) \in Tm /\ m \in Tm /\ Inv(m) \in Tm
    BY <1>m, GroupAxioms
  <2>2. Mul(m, Inv(m)) = Id /\ Mul(Inv(x), x) = Id
    BY <2>1, GroupAxioms
  <2>3. Inv(Inv(m)) = m /\ Inv(Inv(x)) = x
    BY <2>1, <2>2, GroupAxioms, GraphInputs, GP!InverseUnique
  <2>4. Inv(Mul(y, Inv(x))) = Mul(Inv(Inv(x)), Inv(y))
    BY <2>1, GraphInputs, GP!InverseOfProduct
  <2>5. QED
    BY <1>m, <2>1, <2>3, <2>4
<1>4. /\ m \in Symmetries[InputCrystal] /\ Inv(m) \in Symmetries[InputCrystal]
      /\ ~Direct(a, b, m)
  BY <1>1, <1>m, SuperAssumption
<1>5. PICK t \in DOMAIN pool : T(t).c1 = d /\ T(t).c2 = a /\ T(t).tm = x /\ T(t).distance = 1
  BY <1>1 DEF Direct
<1>6. PICK s \in DOMAIN pool : T(s).c1 = d /\ T(s).c2 = b /\ T(s).tm = y /\ T(s).distance = 1
  BY <1>1 DEF Direct
<1>7. PICK i \in DOMAIN transitions[d] : At(d, i) = t
  BY <1>0, <1>5, GraphFacts
<1>8. PICK j \in DOMAIN transitions[d] : At(d, j) = s
  BY <1>0, <1>6, GraphFacts
<1>9. i \in Nat /\ j \in Nat /\ i # j
  BY <1>0, <1>2, <1>5, <1>6, <1>7, <1>8, GraphFacts
<1>10. Misorientation(t, s) = m /\ Misorientation(s, t) = Inv(m)
  <2>1. T(T(t).reverse).tm = Inv(x)
    BY <1>0, <1>5, BackFacts
  <2>2. T(T(s).reverse).tm = Inv(y)
    BY <1>0, <1>6, BackFacts
  <2>3. QED
    BY <1>3, <1>5, <1>6, <1>m, <2>1, <2>2 DEF Misorientation
<1>11. PICK u \in DOMAIN pool : /\ T(u).distance # 1
                                /\ \/ T(u).c1 = a /\ T(u).c2 = b
                                   \/ T(u).c1 = b /\ T(u).c2 = a
  <2>1. CASE i < j
    <3>1. Joined(a, b, m)
      BY <1>2, <1>4, <1>5, <1>6, <1>7, <1>8, <1>10, <2>1, PairCreated
    <3>2. QED
      BY <1>4, <3>1 DEF Joined, Direct
  <2>2. CASE j < i
    <3>1. Joined(b, a, Inv(m))
      BY <1>2, <1>4, <1>5, <1>6, <1>7, <1>8, <1>10, <2>2, PairCreated
    <3>2. PICK v \in DOMAIN pool : T(v).c1 = b /\ T(v).c2 = a /\ T(v).tm = Inv(m)
      BY <3>1 DEF Joined
    <3>3. /\ T(v).reverse \in DOMAIN pool /\ T(T(v).reverse).c1 = a /\ T(T(v).reverse).c2 = b
          /\ T(T(v).reverse).tm = m /\ T(T(v).reverse).distance = T(v).distance
      BY <1>0, <1>3, <3>2, BackFacts
    <3>4. T(v).distance # 1
      BY <1>4, <3>3 DEF Direct
    <3>5. QED
      BY <3>2, <3>4
  <2>3. QED
    BY <1>9, <2>1, <2>2
<1>12. PICK k \in DOMAIN clusterTransitions :
          /\ k > oldTransitionCount
          /\ clusterTransitions[k] = u \/ clusterTransitions[k] = T(u).reverse
  BY <1>0, <1>11 DEF Recorded
<1>13. T(T(u).reverse).c1 = T(u).c2 /\ T(T(u).reverse).c2 = T(u).c1
  BY <1>0, BackFacts
<1>14. k \in SinceTheCall /\ JoinedBy(k, a, b)
  BY <1>11, <1>12, <1>13 DEF SinceTheCall, JoinedBy
<1>15. QED
  BY <1>14

\* The edges of the fold are the transitions created since the call.
LEMMA EdgesSinceTheCall ==
    ASSUME Forming
    PROVE  \E n \in Nat :
              /\ DOMAIN EdgesOf(SuperTransitions) = 1 .. n
              /\ \A k \in 1 .. n :
                    /\ k + oldTransitionCount \in SinceTheCall
                    /\ LET t == clusterTransitions[k + oldTransitionCount]
                       IN  /\ EdgesOf(SuperTransitions)[k] = <<T(t).c1, T(t).c2>>
                           /\ T(t).c1 \in DOMAIN clusters /\ T(t).c2 \in DOMAIN clusters
              /\ \A k \in SinceTheCall : \E j \in 1 .. n : k = j + oldTransitionCount
<1>1. PICK o : o = oldTransitionCount
  OBVIOUS
<1>2. PICK m : m = Len(clusterTransitions)
  OBVIOUS
<1>3. PICK ts : ts = SuperTransitions
  OBVIOUS
<1>4. /\ GP!IInv /\ clusterTransitions \in Seq(Nat) /\ o \in Nat /\ o <= m
      /\ \A k \in DOMAIN clusterTransitions : clusterTransitions[k] \in DOMAIN pool
      /\ m \in Nat /\ DOMAIN clusterTransitions = 1 .. m
  BY <1>1, <1>2, LenProperties DEF Forming, GP!IInv
<1>5. m - o \in Nat /\ DOMAIN ts = 1 .. m - o /\ \A k \in 1 .. m - o : ts[k] = clusterTransitions[k + o]
  <2>1. o + 1 \in Int /\ m \in Int /\ \A k \in o + 1 .. m : clusterTransitions[k] \in Nat
    BY <1>4, ElementOfSeq
  <2>2. /\ SubSeq(clusterTransitions, o + 1, m) \in Seq(Nat)
        /\ Len(SubSeq(clusterTransitions, o + 1, m)) = IF o + 1 <= m THEN m - (o + 1) + 1 ELSE 0
        /\ \A k \in 1 .. m - (o + 1) + 1 :
              SubSeq(clusterTransitions, o + 1, m)[k] = clusterTransitions[(o + 1) + k - 1]
    BY <2>1, SubSeqProperties
  <2>3. /\ m - (o + 1) + 1 = m - o /\ (~(o + 1 <= m) => m - o = 0) /\ m - o \in Nat
        /\ \A k \in 1 .. m - o : (o + 1) + k - 1 = k + o
    BY <1>4
  <2>4. ts = SubSeq(clusterTransitions, o + 1, m)
    BY <1>1, <1>2, <1>3 DEF SuperTransitions
  <2>5. ts \in Seq(Nat) /\ Len(ts) = m - o
    BY <2>2, <2>3, <2>4
  <2>6. DOMAIN ts = 1 .. m - o
    BY <2>5, LenProperties
  <2>7. QED
    BY <2>2, <2>3, <2>4, <2>6
<1>6. \A k \in 1 .. m - o : k + o \in 1 .. m /\ k + o > o
  BY <1>4
<1>7. \A k \in 1 .. m : k > o => k - o \in 1 .. m - o /\ k = (k - o) + o
  BY <1>4
<1>8. \A k \in 1 .. m - o : k + o \in SinceTheCall
  BY <1>1, <1>4, <1>6 DEF SinceTheCall
<1>9. \A k \in SinceTheCall : \E j \in 1 .. m - o : k = j + o
  <2>1. \A k \in SinceTheCall : k \in 1 .. m /\ k > o
    BY <1>1, <1>4 DEF SinceTheCall
  <2>2. QED
    BY <1>7, <2>1
<1>10. ASSUME NEW k \in 1 .. m - o
       PROVE  LET t == clusterTransitions[k + o]
              IN  /\ EdgesOf(ts)[k] = <<T(t).c1, T(t).c2>>
                  /\ T(t).c1 \in DOMAIN clusters /\ T(t).c2 \in DOMAIN clusters
  <2>1. EdgesOf(ts)[k] = <<T(ts[k]).c1, T(ts[k]).c2>> /\ ts[k] = clusterTransitions[k + o]
    BY <1>5 DEF EdgesOf
  <2>2. clusterTransitions[k + o] \in DOMAIN pool
    BY <1>4, <1>6
  <2>3. QED
    BY <1>4, <2>1, <2>2, GraphFacts
<1>11. DOMAIN EdgesOf(ts) = 1 .. m - o
  BY <1>5 DEF EdgesOf
<1>12. QED
  BY <1>1, <1>3, <1>5, <1>8, <1>9, <1>10, <1>11

\* Every cluster has the structure of the root of its grain.
Uniform ==
    \A c \in DOMAIN clusters : /\ root[c] \in DOMAIN clusters
                               /\ root[root[c]] = root[c]
                               /\ structure[root[c]] = structure[c]

\* One of the first n edges joins the pair x, in some direction.
EdgeFor(edges, n, x) ==
    \E k \in 1 .. n : \/ edges[k][1] = x[1] /\ edges[k][2] = x[2]
                      \/ edges[k][1] = x[2] /\ edges[k][2] = x[1]

\* The roots r are those of the components of C under the pairs in M.
ComponentsUnder(C, M, r) ==
    /\ r \in [C -> C] /\ \A c \in C : r[r[c]] = r[c]
    /\ \A x \in M : r[x[1]] = r[x[2]]
    /\ \A S \in SUBSET C :
          (\A x \in M : x[1] \in S <=> x[2] \in S) => \A c \in S : r[c] \in S

\* A fold over edges that join whatever is in M, and nothing else.
LEMMA FoldOver ==
    ASSUME NEW C, NEW n \in Nat, NEW edges, DOMAIN edges = 1 .. n,
           \A k \in 1 .. n : edges[k] \in C \X C,
           NEW M \in SUBSET (C \X C),
           \A k \in 1 .. n : <<edges[k][1], edges[k][2]>> \in M,
           \A x \in M : EdgeFor(edges, n, x),
           NEW r, r = GrainRoot(C, edges)
    PROVE  ComponentsUnder(C, M, r)
<1>1. FP!Components(C, edges, n, r)
  BY GrainRootComponents
<1>2. /\ r \in [C -> C]
      /\ \A c \in C : r[r[c]] = r[c]
      /\ \A k \in 1 .. n : r[edges[k][1]] = r[edges[k][2]]
      /\ \A S \in SUBSET C :
            (\A k \in 1 .. n : edges[k][1] \in S <=> edges[k][2] \in S)
            => \A c \in S : r[c] \in S
  BY <1>1 DEF FP!Components
<1>3. \A x \in M : r[x[1]] = r[x[2]]
  BY <1>2 DEF EdgeFor
<1>4. ASSUME NEW S \in SUBSET C, \A x \in M : x[1] \in S <=> x[2] \in S
      PROVE  \A c \in S : r[c] \in S
  <2>1. ASSUME NEW k \in 1 .. n PROVE edges[k][1] \in S <=> edges[k][2] \in S
    <3>1. PICK x \in M : x = <<edges[k][1], edges[k][2]>>
      OBVIOUS
    <3>2. x[1] = edges[k][1] /\ x[2] = edges[k][2]
      BY <3>1
    <3>3. QED
      BY <1>4, <3>2
  <2>2. QED
    BY <1>2, <2>1
<1>5. QED
  BY <1>2, <1>3, <1>4 DEF ComponentsUnder

LEMMA GrainsForm ==
    ASSUME Forming, FormGrains
    PROVE  GrainsMeetAtDefects' /\ Uniform' /\ OnlyZeroIsOther'
<1>1. /\ center \notin DOMAIN clusters /\ phase' = "formed"
      /\ root' = GrainRoot(DOMAIN clusters, EdgesOf(SuperTransitions))
      /\ UNCHANGED <<clusters, pool, structure>>
  BY DEF FormGrains, graphVars
<1>C. PICK C : C = DOMAIN clusters
  OBVIOUS
<1>E. PICK edges : edges = EdgesOf(SuperTransitions)
  OBVIOUS
<1>M. PICK M : M = {x \in C \X C : \E d \in C : MeetAt(x[1], x[2], d)}
  OBVIOUS
<1>o. PICK o : o = oldTransitionCount
  OBVIOUS
<1>2. PICK n \in Nat :
         /\ DOMAIN edges = 1 .. n
         /\ \A k \in 1 .. n :
               /\ k + o \in SinceTheCall
               /\ LET t == clusterTransitions[k + o]
                  IN  /\ edges[k] = <<T(t).c1, T(t).c2>>
                      /\ T(t).c1 \in C /\ T(t).c2 \in C
         /\ \A k \in SinceTheCall : \E j \in 1 .. n : k = j + o
  BY <1>C, <1>E, <1>o, EdgesSinceTheCall
<1>3. ASSUME NEW k \in 1 .. n PROVE edges[k] \in C \X C
  <2>t. PICK t : t = clusterTransitions[k + o]
    OBVIOUS
  <2>1. edges[k] = <<T(t).c1, T(t).c2>> /\ T(t).c1 \in C /\ T(t).c2 \in C
    BY <1>2, <2>t
  <2>2. QED
    BY <2>1
<1>4. ASSUME NEW k \in 1 .. n PROVE <<edges[k][1], edges[k][2]>> \in M
  <2>t. PICK t : t = clusterTransitions[k + o]
    OBVIOUS
  <2>1. edges[k][1] = T(t).c1 /\ edges[k][2] = T(t).c2 /\ T(t).c1 \in C /\ T(t).c2 \in C
    BY <1>2, <2>t
  <2>2. MeetSomewhere(T(t).c1, T(t).c2)
    BY <1>2, <1>o, <2>t DEF Forming, Meeting, SinceTheCall
  <2>e. PICK e : e = T(t).c1
    OBVIOUS
  <2>f. PICK f : f = T(t).c2
    OBVIOUS
  <2>3. PICK d \in C : MeetAt(e, f, d)
    BY <1>C, <2>2, <2>e, <2>f DEF MeetSomewhere
  <2>4. <<e, f>> \in C \X C /\ <<e, f>>[1] = e /\ <<e, f>>[2] = f
    BY <2>1, <2>e, <2>f
  <2>5. <<e, f>> \in M
    BY <1>M, <2>3, <2>4
  <2>6. QED
    BY <2>1, <2>5, <2>e, <2>f
<1>5. ASSUME NEW x \in M PROVE EdgeFor(edges, n, x)
  <2>a. PICK a : a = x[1]
    OBVIOUS
  <2>b. PICK b : b = x[2]
    OBVIOUS
  <2>1. PICK d \in C : MeetAt(a, b, d)
    BY <1>M, <2>a, <2>b
  <2>2. PICK k \in SinceTheCall : JoinedBy(k, a, b)
    BY <1>1, <1>C, <2>1, MeetingsJoined
  <2>3. PICK j \in 1 .. n : k = j + o
    BY <1>2
  <2>4. /\ edges[j][1] = T(clusterTransitions[k]).c1
        /\ edges[j][2] = T(clusterTransitions[k]).c2
    BY <1>2, <2>3
  <2>5. \/ edges[j][1] = a /\ edges[j][2] = b
        \/ edges[j][1] = b /\ edges[j][2] = a
    BY <2>2, <2>4 DEF JoinedBy
  <2>6. QED
    BY <2>5, <2>a, <2>b DEF EdgeFor
<1>r. PICK r : r = root'
  OBVIOUS
<1>u. ComponentsUnder(C, M, r)
  <2>1. M \in SUBSET (C \X C) /\ r = GrainRoot(C, edges)
    BY <1>1, <1>C, <1>E, <1>M, <1>r
  <2>2. DOMAIN edges = 1 .. n
    BY <1>2
  <2>3. \A k \in 1 .. n : edges[k] \in C \X C
    BY <1>3
  <2>4. \A k \in 1 .. n : <<edges[k][1], edges[k][2]>> \in M
    BY <1>4
  <2>5. \A x \in M : EdgeFor(edges, n, x)
    BY <1>5
  <2>6. QED
    BY <2>1, <2>2, <2>3, <2>4, <2>5, FoldOver
<1>6. /\ r \in [C -> C] /\ \A c \in C : r[r[c]] = r[c]
      /\ \A x \in M : r[x[1]] = r[x[2]]
      /\ \A S \in SUBSET C :
            (\A x \in M : x[1] \in S <=> x[2] \in S) => \A c \in S : r[c] \in S
  BY <1>u DEF ComponentsUnder
<1>7. \A a, b, d : MeetAt(a, b, d)' <=> MeetAt(a, b, d)
  BY <1>1 DEF MeetAt, Direct, T
<1>8. GrainsMeetAtDefects'
  <2> DEFINE meet == {x \in (DOMAIN clusters') \X (DOMAIN clusters') :
                         \E d \in DOMAIN clusters' : MeetAt(x[1], x[2], d)'}
  <2>1. DOMAIN clusters' = C /\ root' = r
    BY <1>1, <1>C, <1>r
  <2>2. meet = M
    BY <1>7, <1>M, <2>1
  <2>3. /\ \A c \in DOMAIN clusters' : root'[root'[c]] = root'[c]
        /\ \A x \in meet : root'[x[1]] = root'[x[2]]
        /\ \A S \in SUBSET DOMAIN clusters' :
              (\A x \in meet : x[1] \in S <=> x[2] \in S) => \A c \in S : root'[c] \in S
    BY <1>6, <2>1, <2>2
  <2>4. QED
    BY <2>3 DEF GrainsMeetAtDefects
<1>9. Uniform'
  <2>1. \A x \in M : structure[x[1]] = InputCrystal /\ structure[x[2]] = InputCrystal
    BY <1>M DEF MeetAt
  <2>2. ASSUME NEW c \in C PROVE structure[r[c]] = structure[c]
    <3>1. CASE structure[c] = InputCrystal
      <4> DEFINE S == {e \in C : structure[e] = InputCrystal}
      <4>1. S \in SUBSET C /\ c \in S /\ \A x \in M : x[1] \in S <=> x[2] \in S
        BY <1>M, <2>1, <3>1
      <4>2. r[c] \in S
        <5> HIDE DEF S
        <5>1. QED
          BY <1>6, <4>1
      <4>3. QED
        BY <3>1, <4>2
    <3>2. CASE structure[c] # InputCrystal
      <4>1. {c} \in SUBSET C /\ \A x \in M : x[1] \in {c} <=> x[2] \in {c}
        BY <2>1, <3>2
      <4>2. r[c] \in {c}
        BY <1>6, <4>1
      <4>3. QED
        BY <4>2
    <3>3. QED
      BY <3>1, <3>2
  <2>3. \A c \in C : r[c] \in C /\ r[r[c]] = r[c] /\ structure[r[c]] = structure[c]
    BY <1>6, <2>2
  <2>4. DOMAIN clusters' = C /\ root' = r /\ structure' = structure
    BY <1>1, <1>C, <1>r
  <2>5. QED
    BY <2>3, <2>4 DEF Uniform
<1>10. OnlyZeroIsOther'
  BY <1>1 DEF Forming, OnlyZeroIsOther
<1>11. QED
  BY <1>8, <1>9, <1>10

LEMMA GrainsDissolve ==
    ASSUME Uniform, OnlyZeroIsOther, DissolveSmallClusters \/ KeepSmallClusters
    PROVE  DissolvedTogether'
<1>1. UNCHANGED <<clusters, atomCount, root>>
  BY DEF DissolveSmallClusters, KeepSmallClusters, graphVars
<1>2. SUFFICES ASSUME NEW c \in DOMAIN clusters \ {1}
               PROVE  /\ structure'[c] = structure'[root[c]]
                      /\ structure'[c] = Other => atomCount[root[c]] < MinClusterSize
  BY <1>1 DEF DissolvedTogether
<1>3. /\ root[c] \in DOMAIN clusters /\ root[root[c]] = root[c]
      /\ structure[root[c]] = structure[c] /\ structure[c] # Other
  BY DEF Uniform, OnlyZeroIsOther
<1>4. CASE DissolveSmallClusters
  <2>1. /\ structure'[c] = IF atomCount[root[c]] < MinClusterSize THEN Other ELSE structure[c]
        /\ structure'[root[c]] = IF atomCount[root[root[c]]] < MinClusterSize THEN Other
                                 ELSE structure[root[c]]
    BY <1>3, <1>4 DEF DissolveSmallClusters, ClusterSize
  <2>2. QED
    BY <1>3, <2>1
<1>5. CASE KeepSmallClusters
  BY <1>3, <1>5 DEF KeepSmallClusters
<1>6. QED
  BY <1>4, <1>5

----------------------------------------------------------------------------
(* The theorems *)

IInv ==
    /\ phase = "form" => Forming
    /\ phase = "formed" => Uniform /\ OnlyZeroIsOther
    /\ GrainsMeetAtDefects /\ DissolvedTogether

LEMMA InvariantInit == Start => IInv
BY FormingInit DEF Start, Init, IInv, GrainsMeetAtDefects, DissolvedTogether

\* Nothing but the analysis is in one of its phases.
LEMMA OtherPhases ==
    ASSUME [Step]_vars, ~Analyse, ~(UNCHANGED vars)
    PROVE  phase' \notin {"form", "formed", "built"}
BY DEF Step, WriteClusters, WriteTransitions, ExportClustersFails, ExportTransitionsFails,
       StartImport, ImportCluster, StartLinking, ImportLink, Reject, StartJoining,
       JoinImportedPair, NextImportedCenter, FormImportedGrains

LEMMA InvariantStep == IInv /\ [Step]_vars => IInv'
<1> SUFFICES ASSUME IInv, [Step]_vars PROVE IInv'
  OBVIOUS
<1>0. ASSUME phase' \notin {"form", "formed", "built"} PROVE IInv'
  BY <1>0 DEF IInv, GrainsMeetAtDefects, DissolvedTogether
<1>1. ASSUME Forming' PROVE phase' = "form" => IInv'
  BY <1>1 DEF IInv, GrainsMeetAtDefects, DissolvedTogether
<1>2. CASE JoinPair
  <2>1. phase = "form" /\ phase' = "form"
    BY <1>2 DEF JoinPair, AtDefect
  <2>2. QED
    BY <1>1, <1>2, <2>1, JoinPairForms DEF IInv
<1>3. CASE NextCenter
  <2>1. phase = "form" /\ phase' = "form"
    BY <1>3 DEF NextCenter
  <2>2. QED
    BY <1>1, <1>3, <2>1, NextCenterForms DEF IInv
<1>4. CASE FormGrains
  <2>1. phase = "form" /\ phase' = "formed"
    BY <1>4 DEF FormGrains
  <2>2. GrainsMeetAtDefects' /\ Uniform' /\ OnlyZeroIsOther'
    BY <1>4, <2>1, GrainsForm DEF IInv
  <2>3. DissolvedTogether'
    BY <2>1 DEF DissolvedTogether
  <2>4. QED
    BY <2>1, <2>2, <2>3 DEF IInv
<1>5. CASE DissolveSmallClusters \/ KeepSmallClusters
  <2>1. phase = "formed" /\ phase' = "built"
    BY <1>5 DEF DissolveSmallClusters, KeepSmallClusters
  <2>2. DissolvedTogether'
    BY <1>5, <2>1, GrainsDissolve DEF IInv
  <2>3. GrainsMeetAtDefects'
    BY <2>1 DEF GrainsMeetAtDefects
  <2>4. QED
    BY <2>1, <2>2, <2>3 DEF IInv
<1>6. CASE UNCHANGED vars
  <2>1. UNCHANGED <<clusters, pool, transitions, clusterTransitions, disconnected, structure,
                    atomCount, root, phase, center, pair, oldTransitionCount>>
    BY <1>6 DEF vars, superVars, graphVars
  <2>2. Forming => Forming'
    <3> SUFFICES ASSUME Forming PROVE Forming'
      OBVIOUS
    <3>2. GP!IInv'
      BY <2>1, GraphInputs, GP!SameStep DEF Forming
    <3>3. \A d : /\ DefectPairs(d)' = DefectPairs(d)
                 /\ \A x : PairJoined(d, x)' <=> PairJoined(d, x)
      BY <2>1, GraphKept DEF Forming
    <3>4. \A d, x : Passed(d, x)' <=> Passed(d, x)
      BY <2>1 DEF Passed, Before
    <3>5. Handled'
      BY <2>1, <3>3, <3>4 DEF Forming, Handled
    <3>6. Recorded'
      BY <2>1 DEF Forming, Recorded, T
    <3>7. Meeting'
      BY <2>1 DEF Forming, Meeting, MeetSomewhere, MeetAt, Direct, T
    <3>8. OnlyZeroIsOther'
      BY <2>1 DEF Forming, OnlyZeroIsOther
    <3>9. QED
      BY <2>1, <3>2, <3>5, <3>6, <3>7, <3>8 DEF Forming
  <2>3. Uniform /\ OnlyZeroIsOther => Uniform' /\ OnlyZeroIsOther'
    BY <2>1 DEF Uniform, OnlyZeroIsOther
  <2>4. GrainsMeetAtDefects => GrainsMeetAtDefects'
    BY <2>1 DEF GrainsMeetAtDefects, MeetAt, Direct, T
  <2>5. DissolvedTogether => DissolvedTogether'
    BY <2>1 DEF DissolvedTogether
  <2>6. QED
    BY <2>1, <2>2, <2>3, <2>4, <2>5 DEF IInv
<1>7. CASE ~Analyse /\ ~(UNCHANGED vars)
  BY <1>0, <1>7, OtherPhases
<1>8. QED
  BY <1>2, <1>3, <1>4, <1>5, <1>6, <1>7 DEF Analyse, Next

\* Before any are dissolved, the grains are the components of the crystals that
\* meet at a defect, whatever the order in which the loops come to clusters and
\* transitions, and whatever transitions formSuperClusters adds meanwhile.
THEOREM GrainsMeetAtDefectsCorrect == TablesSpec => []GrainsMeetAtDefects
<1>1. IInv => GrainsMeetAtDefects
  BY DEF IInv
<1>2. QED
  BY <1>1, InvariantInit, InvariantStep, PTL DEF TablesSpec

\* dissolveSmallClusters judges each cluster for itself, and yet dissolves a
\* grain as a whole or not at all, and none whose root is large enough.
THEOREM DissolvedTogetherCorrect == TablesSpec => []DissolvedTogether
<1>1. IInv => DissolvedTogether
  BY DEF IInv
<1>2. QED
  BY <1>1, InvariantInit, InvariantStep, PTL DEF TablesSpec
----------------------------------------------------------------------------
(* The graph of an import *)

Image(list) == {list[k] : k \in DOMAIN list}

\* Every id has its cluster, cluster 0 is the first.
MapSound ==
    /\ clusters \in Seq(Nat) /\ Len(clusters) > 0 /\ clusters[1] = 0
    /\ DOMAIN clusterMap = Image(clusters)
    /\ \A p \in DOMAIN clusters : clusterMap[clusters[p]] = p
    /\ structure \in [DOMAIN clusters -> Structure] /\ structure[1] = Other

\* A transition of pool ps between the clusters in C, and its way back.
LinkTyped(C, ps, t) ==
    /\ ps[t].c1 \in C /\ ps[t].c2 \in C /\ ps[t].tm \in Tm
    /\ ps[t].distance \in Nat /\ (ps[t].distance = 0 => ps[t].c1 = ps[t].c2)
    /\ ps[t].reverse \in DOMAIN ps /\ ps[ps[t].reverse].tm = Inv(ps[t].tm)

PoolOver(C, ps, trs) ==
    /\ DOMAIN ps = 1 .. Len(ps) /\ Len(ps) \in Nat /\ ps = [t \in DOMAIN ps |-> ps[t]]
    /\ \A t \in DOMAIN ps : LinkTyped(C, ps, t)
    /\ DOMAIN trs = C /\ trs = [c \in C |-> trs[c]]
    /\ GP!Listed(ps, trs, DOMAIN ps)

PoolSound == PoolOver(DOMAIN clusters, pool, transitions)

LEMMA PoolFacts ==
    ASSUME NEW C, NEW ps, NEW trs, PoolOver(C, ps, trs)
    PROVE  /\ DOMAIN ps = 1 .. Len(ps) /\ Len(ps) \in Nat /\ DOMAIN trs = C
           /\ \A c \in C :
                 /\ DOMAIN trs[c] = 1 .. Len(trs[c]) /\ Len(trs[c]) \in Nat
                 /\ \A k \in DOMAIN trs[c] : trs[c][k] \in DOMAIN ps /\ ps[trs[c][k]].c1 = c
           /\ \A t \in DOMAIN ps :
                 /\ t \in Nat \ {0} /\ LinkTyped(C, ps, t)
                 /\ \E k \in DOMAIN trs[ps[t].c1] : trs[ps[t].c1][k] = t
<1>1. /\ DOMAIN ps = 1 .. Len(ps) /\ Len(ps) \in Nat /\ DOMAIN trs = C
      /\ \A t \in DOMAIN ps : LinkTyped(C, ps, t)
      /\ GP!Listed(ps, trs, DOMAIN ps)
  BY DEF PoolOver
<1>2. \A c \in C : trs[c] \in Seq(Nat) /\ GP!Items(trs[c]) = {t \in DOMAIN ps : ps[t].c1 = c}
  BY <1>1 DEF GP!Listed
<1>3. \A c \in C :
         /\ DOMAIN trs[c] = 1 .. Len(trs[c]) /\ Len(trs[c]) \in Nat
         /\ \A k \in DOMAIN trs[c] : trs[c][k] \in DOMAIN ps /\ ps[trs[c][k]].c1 = c
  <2>1. \A c \in C : DOMAIN trs[c] = 1 .. Len(trs[c]) /\ Len(trs[c]) \in Nat
    BY <1>2, LenProperties
  <2>2. QED
    BY <1>2, <2>1 DEF GP!Items
<1>4. ASSUME NEW t \in DOMAIN ps
      PROVE  /\ t \in Nat \ {0}
             /\ \E k \in DOMAIN trs[ps[t].c1] : trs[ps[t].c1][k] = t
  <2>1. t \in Nat \ {0} /\ ps[t].c1 \in C
    BY <1>1 DEF LinkTyped
  <2>2. t \in GP!Items(trs[ps[t].c1])
    BY <1>2, <2>1
  <2>3. QED
    BY <2>1, <2>2 DEF GP!Items
<1>5. QED
  BY <1>1, <1>3, <1>4

LEMMA InverseTwice == ASSUME NEW tm \in Tm PROVE Inv(Inv(tm)) = tm
<1>1. Inv(tm) \in Tm /\ Mul(tm, Inv(tm)) = Id
  BY GroupAxioms
<1>2. QED
  BY <1>1, GraphInputs, GP!InverseUnique

\* A transition and its reverse are added to a pool and to its lists.
PairIn(ps, trs, a, b, tm, d, qs, new) ==
    LET ab == Len(ps) + 1
        ba == Len(ps) + 2
        first == [trs EXCEPT ![a] = G!Inserted(qs, ab, @)]
    IN  /\ qs = ps \o <<[c1 |-> a, c2 |-> b, tm |-> tm, reverse |-> ba, distance |-> d],
                        [c1 |-> b, c2 |-> a, tm |-> Inv(tm), reverse |-> ab, distance |-> d]>>
        /\ new = [first EXCEPT ![b] = G!Inserted(qs, ba, @)]

\* What such a pool has.
PairMade(C, ps, trs, a, b, tm, d, qs, new) ==
    LET ab == Len(ps) + 1
        ba == Len(ps) + 2
    IN  /\ PoolOver(C, qs, new)
        /\ DOMAIN qs = DOMAIN ps \cup {ab, ba}
        /\ ab \notin DOMAIN ps /\ ba \notin DOMAIN ps
        /\ \A s \in DOMAIN ps : qs[s] = ps[s]
        /\ qs[ab] = [c1 |-> a, c2 |-> b, tm |-> tm, reverse |-> ba, distance |-> d]
        /\ qs[ba] = [c1 |-> b, c2 |-> a, tm |-> Inv(tm), reverse |-> ab, distance |-> d]
        /\ \A c \in C \ {a, b} : new[c] = trs[c]

LEMMA PoolExtends ==
    ASSUME NEW C, NEW ps, NEW trs, PoolOver(C, ps, trs),
           NEW a \in C, NEW b \in C, a # b, NEW tm \in Tm, NEW d \in Nat \ {0},
           NEW qs, NEW second, PairIn(ps, trs, a, b, tm, d, qs, second)
    PROVE  PairMade(C, ps, trs, a, b, tm, d, qs, second)
<1>p. PICK ab : ab = Len(ps) + 1
  OBVIOUS
<1>q. PICK ba : ba = Len(ps) + 2
  OBVIOUS
<1>f. PICK fw : fw = [c1 |-> a, c2 |-> b, tm |-> tm, reverse |-> ba, distance |-> d]
  OBVIOUS
<1>g. PICK bw : bw = [c1 |-> b, c2 |-> a, tm |-> Inv(tm), reverse |-> ab, distance |-> d]
  OBVIOUS
<1>s. qs = ps \o <<fw, bw>>
  BY <1>p, <1>q, <1>f, <1>g DEF PairIn
<1>d. PICK first : first = [trs EXCEPT ![a] = G!Inserted(qs, ab, @)]
  OBVIOUS
<1>e. second = [first EXCEPT ![b] = G!Inserted(qs, ba, @)]
  BY <1>p, <1>q, <1>d DEF PairIn
<1>1. /\ DOMAIN ps = 1 .. Len(ps) /\ Len(ps) \in Nat /\ DOMAIN trs = C
      /\ ps = [t \in DOMAIN ps |-> ps[t]] /\ trs = [c \in C |-> trs[c]]
      /\ \A t \in DOMAIN ps : LinkTyped(C, ps, t)
      /\ GP!Listed(ps, trs, DOMAIN ps)
  BY DEF PoolOver
<1>2. /\ ab \in Nat /\ ba \in Nat /\ ab # ba /\ ab \notin DOMAIN ps /\ ba \notin DOMAIN ps
  BY <1>1, <1>p, <1>q
<1>3. /\ Len(qs) = Len(ps) + 2 /\ DOMAIN qs = 1 .. Len(qs)
      /\ \A s \in DOMAIN ps : qs[s] = ps[s]
      /\ qs[ab] = fw /\ qs[ba] = bw
      /\ qs = [t \in DOMAIN qs |-> qs[t]]
  <2>1. ps \in Seq(Image(ps))
    BY <1>1, IsASeq DEF Image
  <2> DEFINE two == <<fw, bw>>
  <2>2. two \in Seq({fw, bw}) /\ Len(two) = 2 /\ two[1] = fw /\ two[2] = bw
    OBVIOUS
  <2> DEFINE U == Image(ps) \cup {fw, bw}
  <2>3. ps \in Seq(U) /\ two \in Seq(U)
    <3>1. \A k \in 1 .. Len(ps) : ps[k] \in U
      BY <1>1 DEF Image
    <3>2. \A k \in 1 .. 2 : two[k] \in U
      BY <2>2
    <3> HIDE DEF U
    <3>3. ps \in Seq(U)
      BY <1>1, <3>1, IsASeq
    <3>4. two \in Seq(U)
      BY <3>2
    <3>5. QED
      BY <3>3, <3>4
  <2> HIDE DEF U, two
  <2>4. /\ ps \o two \in Seq(U) /\ Len(ps \o two) = Len(ps) + Len(two)
        /\ \A i \in 1 .. Len(ps) + Len(two) :
              (ps \o two)[i] = IF i <= Len(ps) THEN ps[i] ELSE two[i - Len(ps)]
    BY <2>3, ConcatProperties
  <2>5. qs = ps \o two
    BY <1>s DEF two
  <2>6. qs \in Seq(U) /\ Len(qs) = Len(ps) + 2
        /\ \A i \in 1 .. Len(ps) + 2 : qs[i] = IF i <= Len(ps) THEN ps[i] ELSE two[i - Len(ps)]
    BY <2>2, <2>4, <2>5
  <2>7. DOMAIN qs = 1 .. Len(qs) /\ qs = [t \in DOMAIN qs |-> qs[t]]
    BY <2>6, LenProperties
  <2>8. ab \in 1 .. Len(ps) + 2 /\ ba \in 1 .. Len(ps) + 2 /\ ~(ab <= Len(ps)) /\ ~(ba <= Len(ps))
        /\ ab - Len(ps) = 1 /\ ba - Len(ps) = 2
    BY <1>1, <1>p, <1>q
  <2>9. \A s \in DOMAIN ps : s \in 1 .. Len(ps) + 2 /\ s <= Len(ps)
    BY <1>1
  <2>10. qs[ab] = fw /\ qs[ba] = bw
    BY <2>2, <2>6, <2>8
  <2>11. \A s \in DOMAIN ps : qs[s] = ps[s]
    BY <2>6, <2>9
  <2>12. QED
    BY <2>6, <2>7, <2>10, <2>11
<1>4. DOMAIN qs = DOMAIN ps \cup {ab, ba}
  BY <1>1, <1>3, <1>p, <1>q
<1>5. /\ qs[ab].c1 = a /\ qs[ab].c2 = b /\ qs[ab].tm = tm /\ qs[ab].distance = d /\ qs[ab].reverse = ba
      /\ qs[ba].c1 = b /\ qs[ba].c2 = a /\ qs[ba].tm = Inv(tm) /\ qs[ba].distance = d
      /\ qs[ba].reverse = ab
  BY <1>3, <1>f, <1>g
<1>6. ASSUME NEW t \in DOMAIN qs PROVE LinkTyped(C, qs, t)
  <2>1. CASE t \in DOMAIN ps
    <3>1. LinkTyped(C, ps, t) /\ qs[t] = ps[t]
      BY <1>1, <1>3, <2>1
    <3>2. ps[t].reverse \in DOMAIN ps
      BY <3>1 DEF LinkTyped
    <3>3. QED
      BY <1>3, <1>4, <3>1, <3>2 DEF LinkTyped
  <2>2. Inv(tm) \in Tm /\ Inv(Inv(tm)) = tm
    BY GroupAxioms, InverseTwice
  <2>3. CASE t = ab
    BY <1>4, <1>5, <2>2, <2>3 DEF LinkTyped
  <2>4. CASE t = ba
    BY <1>4, <1>5, <2>2, <2>4 DEF LinkTyped
  <2>5. QED
    BY <1>4, <2>1, <2>3, <2>4
<1>7. GP!Listed(qs, trs, DOMAIN ps)
  BY <1>1, <1>3, ListsKept
<1>8. \A c \in DOMAIN trs : \A i \in DOMAIN trs[c] : qs[trs[c][i]].distance \in Nat
  <2>1. ASSUME NEW c \in DOMAIN trs, NEW i \in DOMAIN trs[c] PROVE trs[c][i] \in DOMAIN ps
    BY <1>7 DEF GP!Listed, GP!Items
  <2>2. QED
    BY <1>4, <1>6, <2>1 DEF LinkTyped
<1>9. /\ DOMAIN first = DOMAIN trs
      /\ GP!Listed(qs, first, DOMAIN ps \cup {ab})
      /\ \A c \in DOMAIN first : \A i \in DOMAIN first[c] : qs[first[c][i]].distance \in Nat
  <2>1. a \in DOMAIN trs /\ qs[ab].distance \in Nat \ {0}
    BY <1>1, <1>5
  <2>2. LET new == [trs EXCEPT ![a] = G!Inserted(qs, ab, @)]
        IN  /\ DOMAIN new = DOMAIN trs
            /\ GP!Listed(qs, new, DOMAIN ps \cup {ab})
            /\ \A c \in DOMAIN new : \A i \in DOMAIN new[c] : qs[new[c][i]].distance \in Nat
    BY <1>2, <1>5, <1>7, <1>8, <2>1, ListExtended
  <2>3. QED
    BY <1>d, <2>2
<1>10. DOMAIN second = C /\ GP!Listed(qs, second, DOMAIN qs)
  <2>1. b \in DOMAIN first /\ ba \notin DOMAIN ps \cup {ab} /\ qs[ba].distance \in Nat \ {0}
    BY <1>1, <1>2, <1>5, <1>9
  <2>2. /\ DOMAIN second = DOMAIN first
        /\ GP!Listed(qs, second, (DOMAIN ps \cup {ab}) \cup {ba})
    BY <1>2, <1>5, <1>9, <1>e, <2>1, ListExtended
  <2>3. (DOMAIN ps \cup {ab}) \cup {ba} = DOMAIN qs
    BY <1>4
  <2>4. QED
    BY <1>1, <1>9, <2>2, <2>3
<1>11. second = [c \in C |-> second[c]] /\ \A c \in C \ {a, b} : second[c] = trs[c]
  BY <1>1, <1>d, <1>e
<1>12. Len(qs) \in Nat
  BY <1>1, <1>3
<1>13. PoolOver(C, qs, second)
  BY <1>3, <1>6, <1>10, <1>11, <1>12 DEF PoolOver
<1>14. QED
  BY <1>2, <1>3, <1>4, <1>11, <1>13, <1>p, <1>q, <1>f, <1>g DEF PairMade

\* The same of the graph.
LEMMA SoundFacts ==
    ASSUME PoolSound
    PROVE  /\ DOMAIN pool = 1 .. Len(pool) /\ Len(pool) \in Nat /\ DOMAIN transitions = DOMAIN clusters
           /\ \A c \in DOMAIN clusters :
                 /\ DOMAIN transitions[c] = 1 .. Len(transitions[c]) /\ Len(transitions[c]) \in Nat
                 /\ \A k \in DOMAIN transitions[c] : At(c, k) \in DOMAIN pool /\ T(At(c, k)).c1 = c
           /\ \A t \in DOMAIN pool :
                 /\ t \in Nat \ {0}
                 /\ T(t).c1 \in DOMAIN clusters /\ T(t).c2 \in DOMAIN clusters /\ T(t).tm \in Tm
                 /\ T(t).distance \in Nat /\ (T(t).distance = 0 => T(t).c1 = T(t).c2)
                 /\ T(t).reverse \in DOMAIN pool /\ T(T(t).reverse).tm = Inv(T(t).tm)
                 /\ \E k \in DOMAIN transitions[T(t).c1] : At(T(t).c1, k) = t
<1>C. PICK C : C = DOMAIN clusters
  OBVIOUS
<1>p. PICK ps : ps = pool
  OBVIOUS
<1>t. PICK trs : trs = transitions
  OBVIOUS
<1>1. PoolOver(C, ps, trs)
  BY <1>C, <1>p, <1>t DEF PoolSound
<1>2. /\ DOMAIN ps = 1 .. Len(ps) /\ Len(ps) \in Nat /\ DOMAIN trs = C
      /\ \A c \in C :
            /\ DOMAIN trs[c] = 1 .. Len(trs[c]) /\ Len(trs[c]) \in Nat
            /\ \A k \in DOMAIN trs[c] : trs[c][k] \in DOMAIN ps /\ ps[trs[c][k]].c1 = c
      /\ \A t \in DOMAIN ps :
            /\ t \in Nat \ {0} /\ LinkTyped(C, ps, t)
            /\ \E k \in DOMAIN trs[ps[t].c1] : trs[ps[t].c1][k] = t
  BY <1>1, PoolFacts
<1>3. QED
  BY <1>2, <1>C, <1>p, <1>t DEF LinkTyped, T, At

\* createClusterTransition finds a transition in such a pool if there is one.
LEMMA ExistingIn ==
    ASSUME PoolSound, NEW a \in DOMAIN clusters, NEW b, NEW tm, a # b
    PROVE  LET e == G!ExistingTransition(a, b, tm) IN
           /\ e = G!Null => ~Joined(a, b, tm)
           /\ e # G!Null => e \in DOMAIN pool /\ T(e).c1 = a /\ T(e).c2 = b /\ T(e).tm = tm
<1> DEFINE list == transitions[a]
           I == {k \in 1 .. Len(list) : T(list[k]).c2 = b /\ T(list[k]).tm = tm}
<1>1. /\ DOMAIN list = 1 .. Len(list)
      /\ \A k \in 1 .. Len(list) : list[k] \in DOMAIN pool /\ T(list[k]).c1 = a
      /\ \A t \in DOMAIN pool : T(t).c1 = a => \E k \in 1 .. Len(list) : list[k] = t
      /\ \A t \in DOMAIN pool : t \in Nat \ {0}
  BY SoundFacts DEF At
<1>2. G!ExistingTransition(a, b, tm)
        = LET k == IF I # {} THEN Min(I) ELSE 0 IN IF k = 0 THEN 0 ELSE list[k]
  BY DEF G!ExistingTransition, G!SelectInSeq, G!Min, Min, G!T, T, G!Null
<1>3. Joined(a, b, tm) <=> I # {}
  BY <1>1 DEF Joined
<1>4. ASSUME I # {} PROVE Min(I) \in I
  <2>1. I \subseteq Nat
    OBVIOUS
  <2> HIDE DEF I
  <2>2. GP!Min(I) \in I
    BY <1>4, <2>1, GraphInputs, GP!LeastPlace
  <2>3. QED
    BY <2>2 DEF GP!Min, Min
<1>5. \A k \in I : /\ k # 0 /\ list[k] # 0 /\ list[k] \in DOMAIN pool
                   /\ T(list[k]).c1 = a /\ T(list[k]).c2 = b /\ T(list[k]).tm = tm
  BY <1>1
<1> HIDE DEF I, list
<1>6. CASE I = {}
  BY <1>2, <1>3, <1>6 DEF G!Null
<1>7. CASE I # {}
  <2>1. G!ExistingTransition(a, b, tm) = list[Min(I)]
    BY <1>2, <1>4, <1>5, <1>7
  <2>2. QED
    BY <1>4, <1>5, <1>7, <2>1 DEF G!Null
<1>8. QED
  BY <1>6, <1>7

\* A new transition and its reverse, and nothing else, is added.
PairOf(a, b, tm, d) ==
    LET ab == Len(pool) + 1
        ba == Len(pool) + 2
    IN  /\ DOMAIN pool' = DOMAIN pool \cup {ab, ba}
        /\ ab \notin DOMAIN pool /\ ba \notin DOMAIN pool
        /\ \A u \in DOMAIN pool : pool'[u] = pool[u]
        /\ pool'[ab].c1 = a /\ pool'[ab].c2 = b /\ pool'[ab].tm = tm /\ pool'[ab].distance = d
        /\ pool'[ba].c1 = b /\ pool'[ba].c2 = a /\ pool'[ba].tm = Inv(tm) /\ pool'[ba].distance = d
        /\ \A c \in DOMAIN clusters \ {a, b} : transitions'[c] = transitions[c]

LEMMA CreateDoes ==
    ASSUME PoolSound, NEW a \in DOMAIN clusters, NEW b \in DOMAIN clusters, a # b,
           NEW tm \in Tm, NEW d \in Nat \ {0},
           G!CreateClusterTransition(a, b, tm, d), clusters' = clusters,
           returned' = G!Created(a, b, tm)
    PROVE  /\ PoolSound'
           /\ \/ /\ UNCHANGED <<pool, transitions>>
                 /\ returned' \in DOMAIN pool
                 /\ T(returned').c1 = a /\ T(returned').c2 = b /\ T(returned').tm = tm
              \/ PairOf(a, b, tm, d) /\ ~Joined(a, b, tm) /\ returned' = Len(pool) + 1
<1>e. PICK e : e = G!ExistingTransition(a, b, tm)
  OBVIOUS
<1>1. /\ e = G!Null => ~Joined(a, b, tm)
      /\ e # G!Null => e \in DOMAIN pool /\ T(e).c1 = a /\ T(e).c2 = b /\ T(e).tm = tm
  BY <1>e, ExistingIn
<1>2. CASE e # G!Null
  <2>1. UNCHANGED <<pool, transitions>>
    BY <1>2, <1>e DEF G!CreateClusterTransition
  <2>2. returned' = e
    BY <1>2, <1>e DEF G!Created
  <2>3. PoolSound'
    BY <2>1 DEF PoolSound
  <2>4. QED
    BY <1>1, <1>2, <2>1, <2>2, <2>3
<1>3. CASE e = G!Null
  <2>1. G!AddTransitionPair(a, b, tm, d) /\ returned' = Len(pool) + 1
    BY <1>3, <1>e DEF G!CreateClusterTransition, G!Created
  <2>C. PICK C : C = DOMAIN clusters
    OBVIOUS
  <2>p. PICK ps : ps = pool
    OBVIOUS
  <2>t. PICK trs : trs = transitions
    OBVIOUS
  <2>q. PICK qs : qs = pool'
    OBVIOUS
  <2>n. PICK new : new = transitions'
    OBVIOUS
  <2>2. PairIn(ps, trs, a, b, tm, d, qs, new) /\ PoolOver(C, ps, trs) /\ a \in C /\ b \in C
    BY <2>1, <2>C, <2>p, <2>t, <2>q, <2>n DEF G!AddTransitionPair, G!ReverseTm, PairIn, PoolSound
  <2>3. PairMade(C, ps, trs, a, b, tm, d, qs, new)
    BY <2>2, PoolExtends
  <2>4. PoolSound'
    BY <1>3, <2>3, <2>C, <2>q, <2>n DEF PoolSound, PairMade
  <2>5. PairOf(a, b, tm, d)
    BY <2>3, <2>C, <2>p, <2>t, <2>q, <2>n DEF PairOf, PairMade
  <2>6. QED
    BY <1>1, <1>3, <2>1, <2>4, <2>5
<1>4. QED
  BY <1>2, <1>3

\* A cluster is found if and only if it has the id.
LEMMA FindExact ==
    ASSUME MapSound, NEW id \in Nat
    PROVE  /\ G!FindCluster(id) = G!Null <=> id \notin Image(clusters)
           /\ G!FindCluster(id) # G!Null =>
                 G!FindCluster(id) \in DOMAIN clusters /\ clusters[G!FindCluster(id)] = id
<1>1. /\ DOMAIN clusters = 1 .. Len(clusters) /\ Len(clusters) \in Nat
      /\ DOMAIN clusterMap = Image(clusters)
      /\ \A p \in DOMAIN clusters : clusterMap[clusters[p]] = p
  BY LenProperties DEF MapSound
<1>2. CASE id < Len(clusters) /\ clusters[id + 1] = id
  <2>1. G!FindCluster(id) = id + 1 /\ id + 1 \in DOMAIN clusters /\ id + 1 # 0
    BY <1>1, <1>2 DEF G!FindCluster
  <2>2. QED
    BY <1>2, <2>1 DEF Image, G!Null
<1>3. CASE ~(id < Len(clusters) /\ clusters[id + 1] = id)
  <2>1. CASE id \in Image(clusters)
    <3>1. PICK p \in DOMAIN clusters : clusters[p] = id
      BY <2>1 DEF Image
    <3>2. G!FindCluster(id) = p /\ p # 0
      BY <1>1, <1>3, <2>1, <3>1 DEF G!FindCluster
    <3>3. QED
      BY <2>1, <3>1, <3>2 DEF G!Null
  <2>2. CASE id \notin Image(clusters)
    BY <1>1, <1>3, <2>2 DEF G!FindCluster, G!Null
  <2>3. QED
    BY <2>1, <2>2
<1>4. QED
  BY <1>2, <1>3

\* A cluster and its self transition are added.
WithSelf(n, ps) ==
    Append(ps, [c1 |-> n + 1, c2 |-> n + 1, tm |-> Id, reverse |-> Len(ps) + 1, distance |-> 0])

LEMMA SelfExtends ==
    ASSUME NEW n \in Nat, NEW ps, NEW trs, PoolOver(1 .. n, ps, trs)
    PROVE  LET t == Len(ps) + 1
               qs == WithSelf(n, ps)
           IN  /\ PoolOver(1 .. n + 1, qs, Append(trs, <<t>>))
               /\ DOMAIN qs = DOMAIN ps \cup {t} /\ qs[t].distance = 0
               /\ \A s \in DOMAIN ps : qs[s] = ps[s]
<1>t. PICK t : t = Len(ps) + 1
  OBVIOUS
<1>q. PICK qs : qs = WithSelf(n, ps)
  OBVIOUS
<1> DEFINE self == [c1 |-> n + 1, c2 |-> n + 1, tm |-> Id, reverse |-> t, distance |-> 0]
<1>1. /\ DOMAIN ps = 1 .. Len(ps) /\ Len(ps) \in Nat /\ DOMAIN trs = 1 .. n
      /\ ps = [s \in DOMAIN ps |-> ps[s]] /\ trs = [c \in 1 .. n |-> trs[c]]
      /\ \A s \in DOMAIN ps : LinkTyped(1 .. n, ps, s)
      /\ GP!Listed(ps, trs, DOMAIN ps)
  BY DEF PoolOver
<1>2. t \in Nat /\ t \notin DOMAIN ps
  BY <1>1, <1>t
<1>3. /\ DOMAIN qs = DOMAIN ps \cup {t} /\ Len(qs) \in Nat /\ DOMAIN qs = 1 .. Len(qs)
      /\ \A s \in DOMAIN ps : qs[s] = ps[s]
      /\ qs[t] = self /\ qs = [s \in DOMAIN qs |-> qs[s]]
  <2> DEFINE U == Image(ps) \cup {self}
  <2>1. self \in U /\ \A k \in 1 .. Len(ps) : ps[k] \in U
    BY <1>1 DEF Image
  <2> HIDE DEF U, self
  <2>2. ps \in Seq(U)
    BY <1>1, <2>1, IsASeq
  <2>3. /\ Append(ps, self) \in Seq(U) /\ Len(Append(ps, self)) = Len(ps) + 1
        /\ \A k \in 1 .. Len(ps) : Append(ps, self)[k] = ps[k]
        /\ Append(ps, self)[Len(ps) + 1] = self
    BY <2>1, <2>2, AppendProperties
  <2>4. qs = Append(ps, self)
    BY <1>q, <1>t DEF WithSelf, self
  <2>5. qs \in Seq(U) /\ Len(qs) = Len(ps) + 1 /\ qs[t] = self
        /\ \A k \in 1 .. Len(ps) : qs[k] = ps[k]
    BY <2>3, <2>4, <1>t
  <2>6. DOMAIN qs = 1 .. Len(qs) /\ qs = [s \in DOMAIN qs |-> qs[s]]
    BY <2>5, LenProperties
  <2>7. DOMAIN qs = DOMAIN ps \cup {t}
    BY <1>1, <1>t, <2>5, <2>6
  <2>8. QED
    BY <1>1, <2>5, <2>6, <2>7
<1>4. /\ qs[t].c1 = n + 1 /\ qs[t].c2 = n + 1 /\ qs[t].tm = Id /\ qs[t].reverse = t
      /\ qs[t].distance = 0
  BY <1>3
<1> HIDE DEF self
<1>5. ASSUME NEW s \in DOMAIN qs PROVE LinkTyped(1 .. n + 1, qs, s)
  <2>1. CASE s \in DOMAIN ps
    <3>1. LinkTyped(1 .. n, ps, s) /\ qs[s] = ps[s] /\ 1 .. n \subseteq 1 .. n + 1
      BY <1>1, <1>3, <2>1
    <3>2. ps[s].reverse \in DOMAIN ps
      BY <3>1 DEF LinkTyped
    <3>3. QED
      BY <1>3, <3>1, <3>2 DEF LinkTyped
  <2>2. CASE s = t
    <3>1. Id \in Tm /\ Inv(Id) = Id /\ n + 1 \in 1 .. n + 1 /\ t \in DOMAIN qs
      BY <1>3, GroupAxioms, GraphInputs, GP!InverseIdentity
    <3>2. QED
      BY <1>4, <2>2, <3>1 DEF LinkTyped
  <2>3. QED
    BY <1>3, <2>1, <2>2
<1>6. trs \in Seq(Seq(Nat)) /\ Len(trs) = n
  <2>1. \A c \in 1 .. n : trs[c] \in Seq(Nat)
    BY <1>1 DEF GP!Listed
  <2>0. trs = [c \in 1 .. n |-> trs[c]]
    BY <1>1
  <2>2. trs \in Seq(Seq(Nat))
    BY <2>0, <2>1, IsASeq
  <2>3. QED
    BY <1>1, <2>2, LenProperties
<1>7. GP!Listed(qs, trs, DOMAIN qs)
  <2>1. GP!Listed(qs, trs, DOMAIN ps)
    BY <1>1, <1>3, ListsKept
  <2>2. ASSUME NEW c \in DOMAIN trs
        PROVE  {s \in DOMAIN qs : qs[s].c1 = c} = {s \in DOMAIN ps : qs[s].c1 = c}
    <3>1. c # n + 1
      BY <1>1
    <3>2. QED
      BY <1>3, <1>4, <3>1
  <2>3. QED
    BY <2>1, <2>2 DEF GP!Listed
<1>8. <<t>> \in Seq(Nat) /\ GP!Sorted(qs, <<t>>) /\ GP!Items(<<t>>) = {t}
  <2>1. DOMAIN <<t>> = {1} /\ <<t>>[1] = t /\ <<t>> \in Seq(Nat)
    BY <1>2
  <2>2. QED
    BY <2>1 DEF GP!Sorted, GP!Items
<1>9. {s \in DOMAIN qs : qs[s].c1 = n + 1} = {t}
  <2>1. \A s \in DOMAIN ps : qs[s].c1 \in 1 .. n
    BY <1>1, <1>3 DEF LinkTyped
  <2>2. \A s \in DOMAIN ps : qs[s].c1 # n + 1
    BY <2>1
  <2>3. QED
    BY <1>3, <1>4, <2>2
<1> DEFINE new == Append(trs, <<t>>)
<1>10. /\ new \in Seq(Seq(Nat)) /\ Len(new) = n + 1
       /\ GP!Listed(qs, new, DOMAIN qs)
  <2>1. GP!Items(<<t>>) = {s \in DOMAIN qs : qs[s].c1 = Len(trs) + 1}
    BY <1>6, <1>8, <1>9
  <2>2. QED
    BY <1>6, <1>7, <1>8, <2>1, GraphInputs, GP!ListAppended
<1> HIDE DEF new
<1>11. DOMAIN new = 1 .. n + 1 /\ new = [c \in 1 .. n + 1 |-> new[c]]
  BY <1>10, LenProperties
<1>12. PoolOver(1 .. n + 1, qs, new)
  BY <1>3, <1>5, <1>10, <1>11 DEF PoolOver
<1>13. QED
  BY <1>3, <1>4, <1>12, <1>t, <1>q DEF new

----------------------------------------------------------------------------
(* What has been imported *)

\* Rows D of the clusters table, by the ids of the clusters.
Named(D) == {<<clustersTable[i].id, clustersTable[i].structure>> : i \in D}

\* The transitions that rows E of the transitions table stand for.
DirectRows(E) ==
    {i \in E : transitionsTable[i].distance = 1 /\ transitionsTable[i].c1 # transitionsTable[i].c2}

LinkOf(i) == <<transitionsTable[i].c1, transitionsTable[i].c2, transitionsTable[i].tm>>
BackOf(i) == <<transitionsTable[i].c2, transitionsTable[i].c1, Inv(transitionsTable[i].tm)>>
LinksOf(E) == {LinkOf(i) : i \in DirectRows(E)} \cup {BackOf(i) : i \in DirectRows(E)}

FilesTyped ==
    /\ clustersTable = NoFile \/ clustersTable \in Seq(ClusterRow)
    /\ transitionsTable = NoFile \/ transitionsTable \in Seq(TransitionRow)

FilesRead == clustersTable \in Seq(ClusterRow) /\ transitionsTable \in Seq(TransitionRow)

\* The clusters are rows D, which make sense.
ClustersAre(D) ==
    /\ MapSound
    /\ \A i, j \in D : /\ clustersTable[i].id > 0
                       /\ clustersTable[i].id = clustersTable[j].id => i = j
    /\ Image(clusters) = {0} \cup {clustersTable[i].id : i \in D}
    /\ Cardinality(D) + 1 = Len(clusters)
    /\ NamedClusters = Named(D)

\* The transitions are rows E, which make sense with these clusters.
LinksAre(E) ==
    /\ PoolSound
    /\ \A i \in E :
          LET row == transitionsTable[i] IN
          /\ row.c1 \in Image(clusters) /\ row.c2 \in Image(clusters)
          /\ (row.c1 = row.c2 \/ row.distance = 0) => row.tm = Id
    /\ DirectTransitions = LinksOf(E)

\* Transitions of a longer distance are created after those of distance 1.
NearFirst ==
    \A t \in DOMAIN pool, i \in todo : T(t).distance > 1 => transitionsTable[i].distance > 1

----------------------------------------------------------------------------
(* Steps of the import *)

LEMMA FilesKept ==
    ASSUME UNCHANGED files
    PROVE  /\ \A D : Named(D)' = Named(D)
           /\ \A E : LinksOf(E)' = LinksOf(E)
           /\ FilesRead => FilesRead'
           /\ Acceptable' <=> Acceptable
BY DEF files, Named, LinksOf, LinkOf, BackOf, DirectRows, FilesRead, Acceptable

\* Nothing has been imported.
LEMMA NothingImported ==
    ASSUME StartImport
    PROVE  ClustersAre({})' /\ LinksAre({})' /\ pool' = <<>>
<1>1. /\ clusters' = <<0>> /\ clusterMap' = [k \in {0} |-> 1]
      /\ pool' = <<>> /\ transitions' = <<<<>>>> /\ structure' = <<Other>>
  BY DEF StartImport
<1>2. clusters' \in Seq(Nat) /\ Len(clusters') = 1 /\ DOMAIN clusters' = {1} /\ clusters'[1] = 0
  BY <1>1
<1>3. Image(clusters)' = {0}
  BY <1>2 DEF Image
<1>4. structure' \in [DOMAIN clusters' -> Structure] /\ structure'[1] = Other
  BY <1>1, <1>2 DEF Structure
<1>5. MapSound'
  BY <1>1, <1>2, <1>3, <1>4 DEF MapSound
<1>6. Cardinality({}) = 0
  BY FS_EmptySet
<1>7. NamedClusters' = {} /\ Named({})' = {}
  BY <1>2 DEF NamedClusters, Named
<1>8. ClustersAre({})'
  BY <1>2, <1>3, <1>5, <1>6, <1>7 DEF ClustersAre
<1>9. /\ DOMAIN pool' = {} /\ Len(pool') = 0 /\ DOMAIN transitions' = {1}
      /\ transitions'[1] = <<>> /\ <<>> \in Seq(Nat) /\ DOMAIN <<>> = {}
      /\ pool' = [t \in DOMAIN pool' |-> pool'[t]] /\ transitions' = [c \in {1} |-> transitions'[c]]
  BY <1>1
<1>10. PoolSound'
  <2>1. GP!Listed(pool', transitions', DOMAIN pool')
    BY <1>9 DEF GP!Listed, GP!Sorted, GP!Items
  <2>2. DOMAIN pool' = 1 .. Len(pool') /\ Len(pool') \in Nat
    BY <1>9
  <2>3. QED
    BY <1>2, <1>9, <2>1, <2>2 DEF PoolSound, PoolOver
<1>11. DirectTransitions' = {} /\ LinksOf({})' = {}
  BY <1>9 DEF DirectTransitions, LinksOf, DirectRows
<1>12. QED
  BY <1>1, <1>8, <1>10, <1>11 DEF LinksAre

\* A row of the clusters table becomes a cluster.
LEMMA ClusterImported ==
    ASSUME NEW D, NEW i \in DOMAIN clustersTable, i \notin D, D \subseteq DOMAIN clustersTable,
           FilesRead, ClustersAre(D), PoolSound, \A t \in DOMAIN pool : T(t).distance = 0,
           clustersTable[i].id > 0, G!FindCluster(clustersTable[i].id) = G!Null,
           G!ImportCluster(clustersTable[i].id),
           structure' = Append(structure, clustersTable[i].structure), UNCHANGED files
    PROVE  /\ ClustersAre(D \cup {i})' /\ PoolSound'
           /\ \A t \in DOMAIN pool' : T(t)'.distance = 0
           /\ clusters' = Append(clusters, clustersTable[i].id)
<1>c. PICK id : id = clustersTable[i].id
  OBVIOUS
<1>s. PICK s : s = clustersTable[i].structure
  OBVIOUS
<1>n. PICK n : n = Len(clusters)
  OBVIOUS
<1>1. /\ id \in Nat /\ id > 0 /\ s \in Structure /\ IsFiniteSet(DOMAIN clustersTable)
  <2>1. clustersTable \in Seq(ClusterRow) /\ DOMAIN clustersTable = 1 .. Len(clustersTable)
        /\ Len(clustersTable) \in Nat
    BY LenProperties DEF FilesRead
  <2>2. clustersTable[i] \in ClusterRow
    BY <2>1
  <2>3. id \in Int /\ s \in Structure /\ id > 0
    BY <1>c, <1>s, <2>2 DEF ClusterRow
  <2>4. IsFiniteSet(DOMAIN clustersTable)
    BY <2>1, FS_Interval
  <2>5. QED
    BY <2>3, <2>4
<1>2. /\ clusters \in Seq(Nat) /\ n \in Nat /\ n > 0 /\ clusters[1] = 0
      /\ DOMAIN clusters = 1 .. n /\ DOMAIN clusterMap = Image(clusters)
      /\ \A p \in DOMAIN clusters : clusterMap[clusters[p]] = p
      /\ structure \in [DOMAIN clusters -> Structure] /\ structure[1] = Other
      /\ id \notin Image(clusters)
  <2>1. MapSound
    BY DEF ClustersAre
  <2>2. id \notin Image(clusters)
    BY <1>1, <1>c, <2>1, FindExact
  <2>3. QED
    BY <1>n, <2>1, <2>2, LenProperties DEF MapSound
<1>3. /\ clusters' = Append(clusters, id)
      /\ clusterMap' = [k \in Image(clusters) \cup {id} |-> IF k = id THEN n + 1 ELSE clusterMap[k]]
      /\ pool' = WithSelf(n, pool) /\ transitions' = Append(transitions, <<Len(pool) + 1>>)
  BY <1>2, <1>c, <1>n DEF G!ImportCluster, G!CreateCluster, WithSelf
<1>4. /\ clusters' \in Seq(Nat) /\ Len(clusters') = n + 1 /\ DOMAIN clusters' = 1 .. n + 1
      /\ clusters'[n + 1] = id /\ \A p \in 1 .. n : clusters'[p] = clusters[p]
  <2>1. /\ clusters' \in Seq(Nat) /\ Len(clusters') = n + 1
        /\ clusters'[n + 1] = id /\ \A p \in 1 .. n : clusters'[p] = clusters[p]
    BY <1>1, <1>2, <1>3, <1>n, AppendProperties
  <2>2. QED
    BY <2>1, LenProperties
<1>5. /\ structure' \in [1 .. n + 1 -> Structure]
      /\ structure'[n + 1] = s /\ \A p \in 1 .. n : structure'[p] = structure[p]
  <2>1. structure \in Seq(Structure) /\ Len(structure) = n
    <3>1. \A p \in 1 .. n : structure[p] \in Structure
      BY <1>2
    <3>2. structure = [p \in 1 .. n |-> structure[p]]
      BY <1>2
    <3>3. structure \in Seq(Structure)
      BY <1>2, <3>1, <3>2, IsASeq
    <3>4. QED
      BY <1>2, <3>3, LenProperties
  <2>2. structure' = Append(structure, s)
    BY <1>s
  <2>3. /\ structure' \in Seq(Structure) /\ Len(structure') = n + 1
        /\ structure'[n + 1] = s /\ \A p \in 1 .. n : structure'[p] = structure[p]
    BY <1>1, <2>1, <2>2, AppendProperties
  <2>4. structure' \in [1 .. n + 1 -> Structure]
    BY <2>3, LenProperties
  <2>5. QED
    BY <2>3, <2>4
<1>6. Image(clusters)' = Image(clusters) \cup {id}
  <2>1. 1 .. n + 1 = (1 .. n) \cup {n + 1}
    BY <1>2
  <2>2. QED
    BY <1>2, <1>4, <2>1 DEF Image
<1>7. MapSound'
  <2>1. clusters'[1] = 0 /\ structure'[1] = Other
    BY <1>2, <1>4, <1>5
  <2>2. ASSUME NEW p \in 1 .. n + 1 PROVE clusterMap'[clusters'[p]] = p
    <3>1. CASE p = n + 1
      BY <1>3, <1>4, <3>1
    <3>2. CASE p # n + 1
      <4>1. p \in 1 .. n
        BY <1>2, <3>2
      <4>2. clusters'[p] = clusters[p] /\ clusters[p] \in Image(clusters)
        BY <1>2, <1>4, <4>1 DEF Image
      <4>3. QED
        BY <1>2, <1>3, <4>1, <4>2
    <3>3. QED
      BY <3>1, <3>2
  <2>3. DOMAIN clusterMap' = Image(clusters)'
    BY <1>3, <1>6
  <2>4. Len(clusters') > 0
    BY <1>2, <1>4
  <2>5. QED
    BY <1>4, <1>5, <2>1, <2>2, <2>3, <2>4 DEF MapSound
<1>8. clustersTable' = clustersTable
  BY DEF files
<1>9. \A j, k \in D \cup {i} : /\ clustersTable[j].id > 0
                               /\ clustersTable[j].id = clustersTable[k].id => j = k
  <2>1. \A j \in D : clustersTable[j].id # id
    BY <1>2 DEF ClustersAre
  <2>2. QED
    BY <1>1, <1>c, <2>1 DEF ClustersAre
<1>10. Image(clusters)' = {0} \cup {clustersTable[j].id : j \in D \cup {i}}
  BY <1>6, <1>c DEF ClustersAre
<1>11. Cardinality(D \cup {i}) + 1 = Len(clusters')
  <2>1. IsFiniteSet(D)
    BY <1>1, FS_Subset
  <2>2. Cardinality(D \cup {i}) = Cardinality(D) + 1
    BY <2>1, FS_AddElement
  <2>3. QED
    BY <1>4, <1>n, <2>2 DEF ClustersAre
<1>12. NamedClusters' = Named(D \cup {i})'
  <2>1. DOMAIN clusters' \ {1} = (DOMAIN clusters \ {1}) \cup {n + 1}
    BY <1>2, <1>4
  <2>2. NamedClusters' = NamedClusters \cup {<<id, s>>}
    BY <1>2, <1>4, <1>5, <2>1 DEF NamedClusters
  <2>3. Named(D \cup {i})' = Named(D) \cup {<<id, s>>}
    BY <1>8, <1>c, <1>s DEF Named
  <2>4. QED
    BY <2>2, <2>3 DEF ClustersAre
<1>13. ClustersAre(D \cup {i})'
  BY <1>7, <1>8, <1>9, <1>10, <1>11, <1>12 DEF ClustersAre
<1>14. PoolSound' /\ \A t \in DOMAIN pool' : T(t)'.distance = 0
  <2>p. PICK ps : ps = pool
    OBVIOUS
  <2>t. PICK trs : trs = transitions
    OBVIOUS
  <2>q. PICK qs : qs = WithSelf(n, ps)
    OBVIOUS
  <2>1. PoolOver(1 .. n, ps, trs)
    BY <1>2, <2>p, <2>t DEF PoolSound
  <2>2. /\ PoolOver(1 .. n + 1, WithSelf(n, ps), Append(trs, <<Len(ps) + 1>>))
        /\ DOMAIN WithSelf(n, ps) = DOMAIN ps \cup {Len(ps) + 1}
        /\ WithSelf(n, ps)[Len(ps) + 1].distance = 0
        /\ \A t \in DOMAIN ps : WithSelf(n, ps)[t] = ps[t]
    BY <1>2, <2>1, SelfExtends
  <2>6. /\ PoolOver(1 .. n + 1, qs, Append(trs, <<Len(ps) + 1>>))
        /\ DOMAIN qs = DOMAIN ps \cup {Len(ps) + 1} /\ qs[Len(ps) + 1].distance = 0
        /\ \A t \in DOMAIN ps : qs[t] = ps[t]
    BY <2>2, <2>q
  <2>3. pool' = qs /\ transitions' = Append(trs, <<Len(ps) + 1>>)
    BY <1>3, <2>p, <2>t, <2>q
  <2>4. PoolSound'
    BY <1>4, <2>6, <2>3 DEF PoolSound
  <2>5. \A t \in DOMAIN pool' : pool'[t].distance = 0
    BY <2>6, <2>3, <2>p DEF T
  <2>7. QED
    BY <2>4, <2>5 DEF T
<1>15. QED
  BY <1>3, <1>13, <1>14, <1>c

\* What one row more says of the transitions.
LEMMA LinksExtended ==
    ASSUME NEW E, NEW i
    PROVE  LinksOf(E \cup {i})
             = LinksOf(E) \cup (IF i \in DirectRows({i}) THEN {LinkOf(i), BackOf(i)} ELSE {})
<1>1. DirectRows(E \cup {i}) = DirectRows(E) \cup (IF i \in DirectRows({i}) THEN {i} ELSE {})
  BY DEF DirectRows
<1>2. QED
  BY <1>1 DEF LinksOf

\* A link is there in both directions.
LEMMA LinksReversed ==
    ASSUME NEW E, \A i \in E : transitionsTable[i].tm \in Tm,
           NEW a, NEW b, NEW tm, <<a, b, tm>> \in LinksOf(E)
    PROVE  <<b, a, Inv(tm)>> \in LinksOf(E)
<1>1. PICK i \in DirectRows(E) : <<a, b, tm>> = LinkOf(i) \/ <<a, b, tm>> = BackOf(i)
  BY DEF LinksOf
<1>2. i \in E /\ transitionsTable[i].tm \in Tm
  BY DEF DirectRows
<1>3. CASE <<a, b, tm>> = LinkOf(i)
  <2>1. <<b, a, Inv(tm)>> = BackOf(i)
    BY <1>3 DEF LinkOf, BackOf
  <2>2. QED
    BY <2>1 DEF LinksOf
<1>4. CASE <<a, b, tm>> = BackOf(i)
  <2>1. Inv(Inv(transitionsTable[i].tm)) = transitionsTable[i].tm
    BY <1>2, InverseTwice
  <2>2. <<b, a, Inv(tm)>> = LinkOf(i)
    BY <1>4, <2>1 DEF LinkOf, BackOf
  <2>3. QED
    BY <2>2 DEF LinksOf
<1>5. QED
  BY <1>1, <1>3, <1>4

\* A pair between adjacent clusters is a link in both directions, any other is none.
LEMMA DirectGrows ==
    ASSUME NEW a, NEW b, NEW tm, NEW d, PairOf(a, b, tm, d), clusters' = clusters,
           \A t \in DOMAIN pool : T(t).c1 \in DOMAIN clusters /\ T(t).c2 \in DOMAIN clusters
    PROVE  DirectTransitions' = DirectTransitions \cup
               (IF d = 1 THEN {<<clusters[a], clusters[b], tm>>, <<clusters[b], clusters[a], Inv(tm)>>}
                ELSE {})
<1> DEFINE near == {t \in DOMAIN pool : T(t).distance = 1}
           new == IF d = 1 THEN {Len(pool) + 1, Len(pool) + 2} ELSE {}
<1>1. {t \in DOMAIN pool' : pool'[t].distance = 1} = near \cup new
  BY DEF PairOf, T
<1>2. \A t \in near : pool'[t] = pool[t]
  BY DEF PairOf
<1>3. DirectTransitions'
        = {<<clusters[pool'[t].c1], clusters[pool'[t].c2], pool'[t].tm>> : t \in near \cup new}
  BY <1>1 DEF DirectTransitions, T
<1>4. DirectTransitions = {<<clusters[pool[t].c1], clusters[pool[t].c2], pool[t].tm>> : t \in near}
  BY DEF DirectTransitions, T
<1> HIDE DEF near
<1>5. DirectTransitions' = DirectTransitions
        \cup {<<clusters[pool'[t].c1], clusters[pool'[t].c2], pool'[t].tm>> : t \in new}
  <2> HIDE DEF new
  <2>1. QED
    BY <1>2, <1>3, <1>4
<1>6. {<<clusters[pool'[t].c1], clusters[pool'[t].c2], pool'[t].tm>> : t \in new}
        = IF d = 1 THEN {<<clusters[a], clusters[b], tm>>, <<clusters[b], clusters[a], Inv(tm)>>}
          ELSE {}
  BY DEF PairOf
<1>7. QED
  BY <1>5, <1>6

\* Nothing but transitions of a longer distance is created.
LEMMA LinksKept ==
    ASSUME NEW E, LinksAre(E), PoolSound', clusters' = clusters, UNCHANGED files,
           NEW a, NEW b, NEW tm, NEW d, d # 1,
           UNCHANGED <<pool, transitions>> \/ PairOf(a, b, tm, d)
    PROVE  LinksAre(E)'
<1>1. \A t \in DOMAIN pool : T(t).c1 \in DOMAIN clusters /\ T(t).c2 \in DOMAIN clusters
  BY SoundFacts DEF LinksAre
<1>2. DirectTransitions' = DirectTransitions
  <2>1. CASE UNCHANGED <<pool, transitions>>
    BY <2>1 DEF DirectTransitions, T
  <2>2. CASE PairOf(a, b, tm, d)
    BY <1>1, <2>2, DirectGrows
  <2>3. QED
    BY <2>1, <2>2
<1>3. LinksOf(E)' = LinksOf(E) /\ transitionsTable' = transitionsTable
  BY FilesKept DEF files
<1>4. Image(clusters)' = Image(clusters)
  BY DEF Image
<1>5. QED
  BY <1>2, <1>3, <1>4 DEF LinksAre

LEMMA RowsTyped ==
    ASSUME FilesRead, NEW i \in DOMAIN transitionsTable
    PROVE  /\ transitionsTable[i].c1 \in Nat /\ transitionsTable[i].c2 \in Nat
           /\ transitionsTable[i].tm \in Tm /\ transitionsTable[i].distance \in Nat
<1>1. transitionsTable[i] \in TransitionRow
  BY LenProperties DEF FilesRead
<1>2. QED
  BY <1>1 DEF TransitionRow

\* A row of the transitions table.
LEMMA LinkImported ==
    ASSUME NEW E, E \subseteq DOMAIN transitionsTable, NEW i \in DOMAIN transitionsTable,
           FilesRead, MapSound, LinksAre(E), UNCHANGED <<clusters, files>>,
           transitionsTable[i].distance = 1 =>
               \A t \in DOMAIN pool : T(t).distance \in {0, 1},
           NEW a, a = G!FindCluster(transitionsTable[i].c1), a # G!Null,
           NEW b, b = G!FindCluster(transitionsTable[i].c2), b # G!Null,
           \/ /\ transitionsTable[i].c1 = transitionsTable[i].c2 \/ transitionsTable[i].distance = 0
              /\ transitionsTable[i].tm = Id
              /\ UNCHANGED <<pool, transitions>>
           \/ /\ ~(transitionsTable[i].c1 = transitionsTable[i].c2 \/ transitionsTable[i].distance = 0)
              /\ G!CreateClusterTransition(a, b, transitionsTable[i].tm, transitionsTable[i].distance)
              /\ returned' = G!Created(a, b, transitionsTable[i].tm)
    PROVE  /\ LinksAre(E \cup {i})'
           /\ \A t \in DOMAIN pool' :
                 T(t)'.distance > 1 => \/ t \in DOMAIN pool /\ T(t).distance > 1
                                       \/ transitionsTable[i].distance > 1
<1>x. PICK x : x = transitionsTable[i].c1
  OBVIOUS
<1>y. PICK y : y = transitionsTable[i].c2
  OBVIOUS
<1>m. PICK tm : tm = transitionsTable[i].tm
  OBVIOUS
<1>d. PICK d : d = transitionsTable[i].distance
  OBVIOUS
<1>1. x \in Nat /\ y \in Nat /\ tm \in Tm /\ d \in Nat
  BY <1>x, <1>y, <1>m, <1>d, RowsTyped
<1>2. /\ a \in DOMAIN clusters /\ b \in DOMAIN clusters
      /\ clusters[a] = x /\ clusters[b] = y
      /\ x \in Image(clusters) /\ y \in Image(clusters)
  BY <1>1, <1>x, <1>y, FindExact DEF Image
<1>3. PoolSound /\ DirectTransitions = LinksOf(E)
  BY DEF LinksAre
<1>4. /\ \A t \in DOMAIN pool :
             /\ T(t).c1 \in DOMAIN clusters /\ T(t).c2 \in DOMAIN clusters
             /\ T(t).distance = 0 => T(t).c1 = T(t).c2
  BY <1>3, SoundFacts
<1>5. /\ transitionsTable' = transitionsTable
      /\ LinksOf(E \cup {i})' = LinksOf(E \cup {i})
  BY FilesKept DEF files
<1>6. \A j \in E \cup {i} :
         LET row == transitionsTable'[j] IN
         /\ row.c1 \in Image(clusters)' /\ row.c2 \in Image(clusters)'
         /\ (row.c1 = row.c2 \/ row.distance = 0) => row.tm = Id
  <2>1. Image(clusters)' = Image(clusters)
    BY DEF Image
  <2>2. QED
    BY <1>2, <1>5, <1>x, <1>y, <2>1 DEF LinksAre
<1>7. i \in DirectRows({i}) <=> d = 1 /\ x # y
  BY <1>x, <1>y, <1>d DEF DirectRows
<1>8. LinkOf(i) = <<x, y, tm>> /\ BackOf(i) = <<y, x, Inv(tm)>>
  BY <1>x, <1>y, <1>m DEF LinkOf, BackOf
<1>9. CASE UNCHANGED <<pool, transitions>> /\ (x = y \/ d = 0)
  <2>1. LinksOf(E \cup {i}) = LinksOf(E)
    <3>1. i \notin DirectRows({i})
      BY <1>7, <1>9
    <3>2. QED
      BY <3>1, LinksExtended
  <2>2. PoolSound' /\ DirectTransitions' = DirectTransitions
    BY <1>3, <1>9 DEF PoolSound, DirectTransitions, T
  <2>3. QED
    BY <1>3, <1>5, <1>6, <1>9, <2>1, <2>2 DEF LinksAre, T
<1>10. CASE /\ x # y /\ d # 0 /\ G!CreateClusterTransition(a, b, tm, d)
            /\ returned' = G!Created(a, b, tm)
  <2>1. /\ PoolSound'
        /\ \/ /\ UNCHANGED <<pool, transitions>>
              /\ returned' \in DOMAIN pool
              /\ T(returned').c1 = a /\ T(returned').c2 = b /\ T(returned').tm = tm
           \/ PairOf(a, b, tm, d) /\ ~Joined(a, b, tm) /\ returned' = Len(pool) + 1
    <3>1. a # b /\ d \in Nat \ {0}
      BY <1>1, <1>2, <1>10
    <3>2. QED
      BY <1>1, <1>2, <1>3, <1>10, <3>1, CreateDoes
  <2>2. LinksOf(E \cup {i})
          = LinksOf(E) \cup (IF d = 1 THEN {<<x, y, tm>>, <<y, x, Inv(tm)>>} ELSE {})
    BY <1>7, <1>8, <1>10, LinksExtended
  <2>3. CASE PairOf(a, b, tm, d)
    <3>1. DirectTransitions' = DirectTransitions \cup
              (IF d = 1 THEN {<<x, y, tm>>, <<y, x, Inv(tm)>>} ELSE {})
      BY <1>2, <1>4, <2>3, DirectGrows
    <3>2. \A t \in DOMAIN pool' :
             pool'[t].distance > 1 => (t \in DOMAIN pool /\ pool[t].distance > 1) \/ d > 1
      BY <1>1, <2>3 DEF PairOf
    <3>3. QED
      BY <1>3, <1>5, <1>6, <1>d, <2>1, <2>2, <3>1, <3>2 DEF LinksAre, T
  <2>4. CASE /\ UNCHANGED <<pool, transitions>>
             /\ returned' \in DOMAIN pool
             /\ T(returned').c1 = a /\ T(returned').c2 = b /\ T(returned').tm = tm
    <3>1. DirectTransitions' = DirectTransitions
      BY <2>4 DEF DirectTransitions, T
    <3>2. LinksOf(E \cup {i}) = LinksOf(E)
      <4>1. CASE d # 1
        BY <2>2, <4>1
      <4>2. CASE d = 1
        <5>1. T(returned').distance = 1
          <6>1. T(returned').distance # 0
            BY <1>2, <1>4, <1>10, <2>4
          <6>2. QED
            BY <1>d, <2>4, <4>2, <6>1
        <5>2. <<x, y, tm>> \in DirectTransitions
          <6>1. <<clusters[T(returned').c1], clusters[T(returned').c2], T(returned').tm>>
                  \in DirectTransitions
            BY <2>4, <5>1 DEF DirectTransitions
          <6>2. QED
            BY <1>2, <2>4, <6>1
        <5>3. \A j \in E : transitionsTable[j].tm \in Tm
          BY RowsTyped
        <5>4. <<y, x, Inv(tm)>> \in LinksOf(E)
          BY <1>3, <5>2, <5>3, LinksReversed
        <5>5. QED
          BY <1>3, <2>2, <5>2, <5>4
      <4>3. QED
        BY <4>1, <4>2
    <3>3. QED
      BY <1>3, <1>5, <1>6, <2>1, <2>4, <3>1, <3>2 DEF LinksAre, T
  <2>5. QED
    BY <2>1, <2>3, <2>4
<1>11. QED
  BY <1>9, <1>10, <1>x, <1>y, <1>m, <1>d

\* How far the import is.
ImportAt ==
    /\ phase = "clusters" =>
          /\ FilesRead /\ todo \subseteq DOMAIN clustersTable
          /\ ClustersAre(DOMAIN clustersTable \ todo)
          /\ PoolSound /\ \A t \in DOMAIN pool : T(t).distance = 0
    /\ phase = "links" =>
          /\ FilesRead /\ todo \subseteq DOMAIN transitionsTable
          /\ ClustersAre(DOMAIN clustersTable) /\ LinksAre(DOMAIN transitionsTable \ todo)
          /\ NearFirst
    /\ phase \in {"join", "imported"} =>
          /\ FilesRead
          /\ ClustersAre(DOMAIN clustersTable) /\ LinksAre(DOMAIN transitionsTable)
    /\ phase = "rejected" => ~Acceptable

\* A table that was read is one of the kind expected.
LEMMA LoadedTyped ==
    ASSUME FilesTyped
    PROVE  /\ Loads(clustersTable) /\ Loads(transitionsTable) <=> FilesRead
           /\ ~FilesRead => ~Acceptable
           /\ FilesRead => NoFile \notin {clustersTable, transitionsTable}
<1>1. NoFile \notin Seq(ClusterRow) /\ NoFile \notin Seq(TransitionRow)
  BY TablesAssumption DEF TablesAssumption
<1>2. Loads(clustersTable) /\ Loads(transitionsTable) <=> FilesRead
  BY <1>1 DEF Loads, FilesTyped, FilesRead
<1>3. ~FilesRead => ~Acceptable
  BY <1>2 DEF Loads, Acceptable
<1>4. FilesRead => NoFile \notin {clustersTable, transitionsTable}
  BY <1>1 DEF FilesRead
<1>5. QED
  BY <1>2, <1>3, <1>4

\* The ids of the rows are those of the clusters that have been created.
LEMMA IdsAre ==
    ASSUME ClustersAre(DOMAIN clustersTable), NEW id, id \notin Image(clusters)
    PROVE  id \notin {0} \cup {clustersTable[j].id : j \in DOMAIN clustersTable}
BY DEF ClustersAre

LEMMA ClustersKept ==
    ASSUME NEW D, ClustersAre(D), UNCHANGED <<clusters, clusterMap, structure, clustersTable>>
    PROVE  ClustersAre(D)'
<1>1. MapSound' /\ Image(clusters)' = Image(clusters)
  BY DEF ClustersAre, MapSound, Image
<1>2. NamedClusters' = NamedClusters /\ Named(D)' = Named(D)
  BY DEF NamedClusters, Named
<1>3. QED
  BY <1>1, <1>2 DEF ClustersAre

\* Clusters and their adjacencies, while only longer transitions are created.
LEMMA GraphStays ==
    ASSUME FilesRead, ClustersAre(DOMAIN clustersTable), LinksAre(DOMAIN transitionsTable),
           UNCHANGED <<clusters, clusterMap, structure>>, UNCHANGED files,
           \/ UNCHANGED <<pool, transitions>>
           \/ PoolSound' /\ \E a, b, tm : PairOf(a, b, tm, 2)
    PROVE  /\ FilesRead'
           /\ ClustersAre(DOMAIN clustersTable)' /\ LinksAre(DOMAIN transitionsTable)'
<1>1. FilesRead' /\ clustersTable' = clustersTable /\ transitionsTable' = transitionsTable
  BY FilesKept DEF files
<1>D. PICK D : D = DOMAIN clustersTable
  OBVIOUS
<1>E. PICK E : E = DOMAIN transitionsTable
  OBVIOUS
<1>2. ClustersAre(D)'
  BY <1>1, <1>D, ClustersKept
<1>3. LinksAre(E)'
  <2>1. CASE UNCHANGED <<pool, transitions>>
    <3>1. PoolSound'
      BY <2>1 DEF LinksAre, PoolSound
    <3>2. 2 # 1
      OBVIOUS
    <3>3. QED
      BY <1>E, <2>1, <3>1, <3>2, LinksKept
  <2>2. CASE PoolSound' /\ \E a, b, tm : PairOf(a, b, tm, 2)
    <3>1. PICK a, b, tm : PairOf(a, b, tm, 2)
      BY <2>2
    <3>2. 2 # 1
      OBVIOUS
    <3>3. QED
      BY <1>E, <2>2, <3>1, <3>2, LinksKept
  <2>3. QED
    BY <2>1, <2>2
<1>4. QED
  BY <1>1, <1>2, <1>3, <1>D, <1>E

LEMMA StartImportAt == ASSUME FilesTyped, StartImport PROVE ImportAt'
<1>1. UNCHANGED files /\ files' = files
  BY DEF StartImport, files
<1>2. CASE FilesRead
  <2>1. phase' = "clusters" /\ todo' = DOMAIN clustersTable
    BY <1>2, LoadedTyped DEF StartImport
  <2>2. /\ ClustersAre({})' /\ PoolSound' /\ \A t \in DOMAIN pool' : pool'[t].distance = 0
    BY NothingImported DEF LinksAre
  <2>3. (DOMAIN clustersTable \ todo)' = {}
    BY <1>1, <2>1 DEF files
  <2>4. FilesRead' /\ todo' \subseteq DOMAIN clustersTable'
    BY <1>1, <1>2, <2>1, FilesKept DEF files
  <2>5. QED
    BY <2>1, <2>2, <2>3, <2>4 DEF ImportAt, T
<1>3. CASE ~FilesRead
  <2>1. phase' = "rejected" /\ ~Acceptable
    BY <1>3, LoadedTyped DEF StartImport
  <2>2. QED
    BY <1>1, <2>1, FilesKept DEF ImportAt
<1>4. QED
  BY <1>2, <1>3

\* A clusters row that is turned down makes no sense.
LEMMA ClusterRejected ==
    ASSUME FilesRead, NEW i \in todo, todo \subseteq DOMAIN clustersTable,
           ClustersAre(DOMAIN clustersTable \ todo),
           clustersTable[i].id <= 0 \/ G!FindCluster(clustersTable[i].id) # G!Null
    PROVE  ~Acceptable
<1>1. clustersTable[i].id \in Int
  <2>1. clustersTable[i] \in ClusterRow
    BY LenProperties DEF FilesRead
  <2>2. QED
    BY <2>1 DEF ClusterRow
<1>2. CASE clustersTable[i].id <= 0
  BY <1>1, <1>2 DEF Acceptable
<1>3. CASE clustersTable[i].id > 0 /\ G!FindCluster(clustersTable[i].id) # G!Null
  <2>1. clustersTable[i].id \in Nat
    BY <1>1, <1>3
  <2>2. clustersTable[i].id \in Image(clusters)
    BY <1>3, <2>1, FindExact DEF ClustersAre, Image
  <2>3. PICK j \in DOMAIN clustersTable \ todo : clustersTable[j].id = clustersTable[i].id
    BY <1>3, <2>2 DEF ClustersAre
  <2>4. j # i /\ j \in DOMAIN clustersTable /\ i \in DOMAIN clustersTable
    OBVIOUS
  <2>5. QED
    BY <2>3, <2>4 DEF Acceptable
<1>4. QED
  BY <1>1, <1>2, <1>3

LEMMA ImportClusterAt == ASSUME ImportAt, ImportCluster PROVE ImportAt'
<1>1. /\ phase = "clusters" /\ FilesRead /\ todo \subseteq DOMAIN clustersTable
      /\ ClustersAre(DOMAIN clustersTable \ todo)
      /\ PoolSound /\ \A t \in DOMAIN pool : T(t).distance = 0
  BY DEF ImportAt, ImportCluster
<1>2. UNCHANGED files /\ clustersTable' = clustersTable /\ FilesRead'
  BY <1>1, FilesKept DEF ImportCluster, files
<1>3. PICK i \in todo :
         LET row == clustersTable[i] IN
         IF row.id <= 0 \/ G!FindCluster(row.id) # G!Null THEN Reject
         ELSE /\ G!ImportCluster(row.id)
              /\ structure' = Append(structure, row.structure)
              /\ todo' = todo \ {i}
              /\ UNCHANGED phase
  BY DEF ImportCluster
<1>4. CASE clustersTable[i].id <= 0 \/ G!FindCluster(clustersTable[i].id) # G!Null
  <2>1. phase' = "rejected"
    BY <1>3, <1>4 DEF Reject
  <2>2. ~Acceptable
    BY <1>1, <1>4, ClusterRejected
  <2>3. QED
    BY <1>2, <2>1, <2>2, FilesKept DEF ImportAt
<1>5. CASE ~(clustersTable[i].id <= 0 \/ G!FindCluster(clustersTable[i].id) # G!Null)
  <2>1. /\ G!ImportCluster(clustersTable[i].id)
        /\ structure' = Append(structure, clustersTable[i].structure)
        /\ todo' = todo \ {i} /\ phase' = "clusters"
    BY <1>1, <1>3, <1>5
  <2>D. PICK D : D = DOMAIN clustersTable \ todo
    OBVIOUS
  <2>2. i \in DOMAIN clustersTable /\ i \notin D /\ D \subseteq DOMAIN clustersTable
    BY <1>1, <2>D
  <2>3. clustersTable[i].id > 0 /\ G!FindCluster(clustersTable[i].id) = G!Null
    <3>1. clustersTable[i] \in ClusterRow
      BY <1>1, LenProperties DEF FilesRead
    <3>2. clustersTable[i].id \in Int
      BY <3>1 DEF ClusterRow
    <3>3. QED
      BY <1>5, <3>2
  <2>4. ClustersAre(D)
    BY <1>1, <2>D
  <2>5. /\ ClustersAre(D \cup {i})' /\ PoolSound'
        /\ \A t \in DOMAIN pool' : T(t)'.distance = 0
    BY <1>1, <1>2, <2>1, <2>2, <2>3, <2>4, ClusterImported
  <2>6. D \cup {i} = DOMAIN clustersTable' \ todo' /\ todo' \subseteq DOMAIN clustersTable'
    BY <1>1, <1>2, <2>1, <2>D
  <2>7. ClustersAre(DOMAIN clustersTable \ todo)'
    BY <2>5, <2>6
  <2>8. QED
    BY <1>2, <2>1, <2>5, <2>6, <2>7 DEF ImportAt
<1>6. QED
  BY <1>4, <1>5

LEMMA StartLinkingAt == ASSUME ImportAt, StartLinking PROVE ImportAt'
<1>1. /\ phase = "clusters" /\ todo = {} /\ phase' = "links" /\ todo' = DOMAIN transitionsTable
      /\ UNCHANGED <<clusters, clusterMap, pool, transitions, structure>> /\ UNCHANGED files
      /\ FilesRead /\ ClustersAre(DOMAIN clustersTable)
      /\ PoolSound /\ \A t \in DOMAIN pool : T(t).distance = 0
  BY DEF ImportAt, StartLinking, graphVars
<1>2. FilesRead' /\ clustersTable' = clustersTable /\ transitionsTable' = transitionsTable
  BY <1>1, FilesKept DEF files
<1>3. ClustersAre(DOMAIN clustersTable)'
  <2>D. PICK D : D = DOMAIN clustersTable
    OBVIOUS
  <2>1. ClustersAre(D)'
    BY <1>1, <1>2, <2>D, ClustersKept
  <2>2. QED
    BY <1>2, <2>1, <2>D
<1>4. LinksAre({})'
  <2>1. PoolSound'
    BY <1>1 DEF PoolSound
  <2>2. DirectTransitions' = {} /\ LinksOf({})' = {}
    BY <1>1 DEF DirectTransitions, LinksOf, DirectRows, T
  <2>3. QED
    BY <2>1, <2>2 DEF LinksAre
<1>5. NearFirst'
  BY <1>1 DEF NearFirst, T
<1>6. (DOMAIN transitionsTable \ todo)' = {}
  BY <1>1, <1>2
<1>7. QED
  BY <1>1, <1>2, <1>3, <1>4, <1>5, <1>6 DEF ImportAt

\* A transitions row that is turned down makes no sense.
LEMMA LinkRejected ==
    ASSUME FilesRead, NEW i \in DOMAIN transitionsTable, ClustersAre(DOMAIN clustersTable),
           \/ G!Null \in {G!FindCluster(transitionsTable[i].c1), G!FindCluster(transitionsTable[i].c2)}
           \/ /\ transitionsTable[i].c1 = transitionsTable[i].c2 \/ transitionsTable[i].distance = 0
              /\ transitionsTable[i].tm # Id
    PROVE  ~Acceptable
<1>1. transitionsTable[i].c1 \in Nat /\ transitionsTable[i].c2 \in Nat
  BY RowsTyped
<1>2. MapSound
  BY DEF ClustersAre
<1>3. CASE G!FindCluster(transitionsTable[i].c1) = G!Null
  BY <1>1, <1>2, <1>3, FindExact, IdsAre DEF Acceptable
<1>4. CASE G!FindCluster(transitionsTable[i].c2) = G!Null
  BY <1>1, <1>2, <1>4, FindExact, IdsAre DEF Acceptable
<1>5. CASE /\ transitionsTable[i].c1 = transitionsTable[i].c2 \/ transitionsTable[i].distance = 0
           /\ transitionsTable[i].tm # Id
  BY <1>5 DEF Acceptable
<1>6. QED
  BY <1>3, <1>4, <1>5

LEMMA ImportLinkAt == ASSUME ImportAt, ImportLink PROVE ImportAt'
<1>1. /\ phase = "links" /\ FilesRead /\ todo \subseteq DOMAIN transitionsTable
      /\ ClustersAre(DOMAIN clustersTable) /\ LinksAre(DOMAIN transitionsTable \ todo)
      /\ NearFirst
  BY DEF ImportAt, ImportLink
<1>2. /\ UNCHANGED files /\ clustersTable' = clustersTable /\ transitionsTable' = transitionsTable
      /\ FilesRead'
  BY <1>1, FilesKept DEF ImportLink, files
<1>3. PICK i \in todo :
         LET row == transitionsTable[i]
             a == G!FindCluster(row.c1)
             b == G!FindCluster(row.c2)
             self == row.c1 = row.c2 \/ row.distance = 0
         IN
         /\ \A j \in todo : ~RowBefore(transitionsTable[j], row)
         /\ \/ /\ G!Null \in {a, b} \/ (self /\ row.tm # Id)
               /\ Reject
            \/ /\ G!Null \notin {a, b} /\ self /\ row.tm = Id
               /\ todo' = todo \ {i}
               /\ UNCHANGED <<graphVars, structure, atomCount, root, phase>>
            \/ /\ G!Null \notin {a, b} /\ ~self
               /\ G!CreateClusterTransition(a, b, row.tm, row.distance)
               /\ returned' = G!Created(a, b, row.tm)
               /\ todo' = todo \ {i}
               /\ UNCHANGED <<clusters, clusterMap, structure, atomCount, root, phase>>
  BY DEF ImportLink
<1>a. PICK a : a = G!FindCluster(transitionsTable[i].c1)
  OBVIOUS
<1>b. PICK b : b = G!FindCluster(transitionsTable[i].c2)
  OBVIOUS
<1>s. PICK self : self = (transitionsTable[i].c1 = transitionsTable[i].c2 \/ transitionsTable[i].distance = 0)
  OBVIOUS
<1>4. i \in DOMAIN transitionsTable
  BY <1>1
<1>5. CASE Reject /\ (G!Null \in {a, b} \/ (self /\ transitionsTable[i].tm # Id))
  <2>1. phase' = "rejected"
    BY <1>5 DEF Reject
  <2>2. ~Acceptable
    BY <1>1, <1>4, <1>5, <1>a, <1>b, <1>s, LinkRejected
  <2>3. QED
    BY <1>2, <2>1, <2>2, FilesKept DEF ImportAt
<1>6. CASE /\ todo' = todo \ {i} /\ UNCHANGED <<clusters, clusterMap, structure, phase>>
           /\ a # G!Null /\ b # G!Null
           /\ \/ self /\ transitionsTable[i].tm = Id /\ UNCHANGED <<pool, transitions>>
              \/ /\ ~self
                 /\ G!CreateClusterTransition(a, b, transitionsTable[i].tm, transitionsTable[i].distance)
                 /\ returned' = G!Created(a, b, transitionsTable[i].tm)
  <2>E. PICK E : E = DOMAIN transitionsTable \ todo
    OBVIOUS
  <2>1. E \subseteq DOMAIN transitionsTable /\ LinksAre(E) /\ MapSound
    BY <1>1, <2>E DEF ClustersAre
  <2>2. ASSUME transitionsTable[i].distance = 1
        PROVE  \A t \in DOMAIN pool : T(t).distance \in {0, 1}
    <3>1. \A t \in DOMAIN pool : ~(T(t).distance > 1) /\ T(t).distance \in Nat
      BY <1>1, <2>1, <2>2, SoundFacts DEF NearFirst, LinksAre
    <3>2. QED
      BY <3>1
  <2>3. /\ LinksAre(E \cup {i})'
        /\ \A t \in DOMAIN pool' :
              T(t)'.distance > 1 => \/ t \in DOMAIN pool /\ T(t).distance > 1
                                    \/ transitionsTable[i].distance > 1
    BY <1>1, <1>2, <1>4, <1>6, <1>a, <1>b, <1>s, <2>1, <2>2, LinkImported
  <2>4. E \cup {i} = DOMAIN transitionsTable' \ todo' /\ todo' \subseteq DOMAIN transitionsTable'
    BY <1>1, <1>2, <1>6, <2>E
  <2>5. LinksAre(DOMAIN transitionsTable \ todo)'
    BY <2>3, <2>4
  <2>D. PICK D : D = DOMAIN clustersTable
    OBVIOUS
  <2>6. ClustersAre(D)'
    BY <1>1, <1>2, <1>6, <2>D, ClustersKept
  <2>7. ASSUME NEW j \in todo, transitionsTable[i].distance > 1
        PROVE  transitionsTable[j].distance > 1
    <3>1. transitionsTable[i].distance \in Nat /\ transitionsTable[j].distance \in Nat
      BY <1>1, <1>4, RowsTyped
    <3>2. ~(transitionsTable[j].distance < transitionsTable[i].distance)
      BY <1>3 DEF RowBefore
    <3>3. QED
      BY <2>7, <3>1, <3>2
  <2>8. NearFirst'
    BY <1>1, <1>2, <1>6, <2>3, <2>7 DEF NearFirst
  <2>9. phase' = "links" /\ ClustersAre(DOMAIN clustersTable)'
    BY <1>1, <1>2, <1>6, <2>D, <2>6
  <2>10. QED
    BY <1>2, <2>4, <2>5, <2>8, <2>9 DEF ImportAt
<1>7. QED
  BY <1>3, <1>5, <1>6, <1>a, <1>b, <1>s DEF graphVars

LEMMA StartJoiningAt == ASSUME ImportAt, StartJoining PROVE ImportAt'
<1>1. /\ phase = "links" /\ todo = {} /\ phase' = "join"
      /\ UNCHANGED <<clusters, clusterMap, pool, transitions, structure>> /\ UNCHANGED files
      /\ FilesRead /\ ClustersAre(DOMAIN clustersTable) /\ LinksAre(DOMAIN transitionsTable)
  BY DEF ImportAt, StartJoining, graphVars, tableVars
<1>2. QED
  BY <1>1, GraphStays DEF ImportAt

----------------------------------------------------------------------------
(* What is exported *)

\* R puts the members of S in order.
Orders(R, S) ==
    /\ \A x \in S : <<x, x>> \notin R
    /\ \A x, y \in S : x # y => <<x, y>> \in R \/ <<y, x>> \in R
    /\ \A x, y, z \in S : <<x, y>> \in R /\ <<y, z>> \in R => <<x, z>> \in R

InOrder(f, R) == \A i, j \in DOMAIN f : i < j => <<f[i], f[j]>> \in R

LEMMA LastOfFinite ==
    ASSUME NEW R, NEW S, Orders(R, S), IsFiniteSet(S), S # {}
    PROVE  \E m \in S : \A x \in S : x # m => <<x, m>> \in R
<1> DEFINE Good(A) == A = {} \/ \E m \in A : \A x \in A : x # m => <<x, m>> \in R
           N == {n \in Nat : \A A \in SUBSET S : Cardinality(A) = n => Good(A)}
<1>0. \A A \in SUBSET S : IsFiniteSet(A) /\ Cardinality(A) \in Nat
  BY FS_Subset, FS_CardinalityType
<1>1. 0 \in N
  BY <1>0, FS_EmptySet
<1>2. ASSUME NEW n \in 1 .. Cardinality(S), n - 1 \in N
      PROVE  n \in N
  <2>1. SUFFICES ASSUME NEW A \in SUBSET S, Cardinality(A) = n, A # {}
                 PROVE  \E m \in A : \A x \in A : x # m => <<x, m>> \in R
    BY <1>0
  <2>2. PICK y \in A : TRUE
    BY <2>1
  <2>3. A \ {y} \in SUBSET S /\ Cardinality(A \ {y}) = n - 1
    BY <1>0, <2>1, FS_RemoveElement
  <2>4. Good(A \ {y})
    BY <1>2, <2>3
  <2>5. CASE A \ {y} = {}
    BY <2>2, <2>5
  <2>6. CASE \E m \in A \ {y} : \A x \in A \ {y} : x # m => <<x, m>> \in R
    <3>1. PICK m \in A \ {y} : \A x \in A \ {y} : x # m => <<x, m>> \in R
      BY <2>6
    <3>2. m \in S /\ y \in S /\ m # y /\ A \subseteq S
      OBVIOUS
    <3>3. CASE <<y, m>> \in R
      BY <3>1, <3>3
    <3>4. CASE <<m, y>> \in R
      BY <3>1, <3>2, <3>4 DEF Orders
    <3>5. QED
      BY <3>2, <3>3, <3>4 DEF Orders
  <2>7. QED
    BY <2>4, <2>5, <2>6
<1>3. Cardinality(S) \in Nat /\ Cardinality(S) \in 0 .. Cardinality(S)
  BY <1>0
<1>4. Cardinality(S) \in N
  <2> HIDE DEF N
  <2>1. QED
    BY <1>1, <1>2, <1>3, GraphInputs, GP!Induction
<1>5. QED
  BY <1>4

\* A finite set can be put in order.
LEMMA OrderExists ==
    ASSUME NEW R, NEW S, Orders(R, S), IsFiniteSet(S)
    PROVE  \E f \in [1 .. Cardinality(S) -> S] : InOrder(f, R)
<1> DEFINE Good(A) == \E f \in [1 .. Cardinality(A) -> A] : InOrder(f, R)
           N == {n \in Nat : \A A \in SUBSET S : Cardinality(A) = n => Good(A)}
<1>0. \A A \in SUBSET S : IsFiniteSet(A) /\ Cardinality(A) \in Nat
  BY FS_Subset, FS_CardinalityType
<1>1. 0 \in N
  <2>1. ASSUME NEW A \in SUBSET S, Cardinality(A) = 0 PROVE Good(A)
    <3>1. [i \in 1 .. 0 |-> i] \in [1 .. 0 -> A]
      OBVIOUS
    <3>2. InOrder([i \in 1 .. 0 |-> i], R)
      BY DEF InOrder
    <3>3. QED
      BY <2>1, <3>1, <3>2
  <2>2. QED
    BY <2>1
<1>2. ASSUME NEW n \in 1 .. Cardinality(S), n - 1 \in N
      PROVE  n \in N
  <2>1. SUFFICES ASSUME NEW A \in SUBSET S, Cardinality(A) = n
                 PROVE  Good(A)
    BY <1>0
  <2>2. PICK m \in A : \A x \in A : x # m => <<x, m>> \in R
    <3>1. A # {} /\ IsFiniteSet(A)
      BY <1>0, <2>1, FS_EmptySet
    <3>2. Orders(R, A)
      BY DEF Orders
    <3>3. QED
      BY <3>1, <3>2, LastOfFinite
  <2>3. A \ {m} \in SUBSET S /\ Cardinality(A \ {m}) = n - 1
    BY <1>0, <2>1, FS_RemoveElement
  <2>4. PICK s \in [1 .. n - 1 -> A \ {m}] : InOrder(s, R)
    BY <1>2, <2>3
  <2> DEFINE t == [i \in 1 .. n |-> IF i = n THEN m ELSE s[i]]
  <2>5. t \in [1 .. n -> A]
    OBVIOUS
  <2>6. ASSUME NEW i \in 1 .. n, NEW j \in 1 .. n, i < j PROVE <<t[i], t[j]>> \in R
    <3>1. i \in 1 .. n - 1 /\ t[i] = s[i] /\ s[i] \in A \ {m}
      BY <2>6
    <3>2. CASE j = n
      BY <2>2, <3>1, <3>2
    <3>3. CASE j # n
      <4>1. j \in 1 .. n - 1 /\ t[j] = s[j]
        BY <3>3
      <4>2. <<s[i], s[j]>> \in R
        BY <2>4, <2>6, <3>1, <4>1 DEF InOrder
      <4>3. QED
        BY <3>1, <4>1, <4>2
    <3>4. QED
      BY <3>2, <3>3
  <2>7. InOrder(t, R)
    <3>1. DOMAIN t = 1 .. n
      OBVIOUS
    <3> HIDE DEF t
    <3>2. QED
      BY <2>6, <3>1 DEF InOrder
  <2> HIDE DEF t
  <2>8. QED
    BY <2>1, <2>5, <2>7
<1>3. Cardinality(S) \in Nat /\ Cardinality(S) \in 0 .. Cardinality(S)
  BY <1>0
<1>4. Cardinality(S) \in N
  <2> HIDE DEF N
  <2>1. QED
    BY <1>1, <1>2, <1>3, GraphInputs, GP!Induction
<1>5. QED
  BY <1>4

\* What is in order has no repetitions, and so as many as there are is all.
LEMMA OrderIsAll ==
    ASSUME NEW R, NEW S, Orders(R, S), IsFiniteSet(S),
           NEW f \in [1 .. Cardinality(S) -> S], InOrder(f, R)
    PROVE  \A x \in S : \E i \in 1 .. Cardinality(S) : f[i] = x
<1>1. Cardinality(S) \in Nat
  BY FS_CardinalityType
<1>2. ASSUME NEW i \in 1 .. Cardinality(S), NEW j \in 1 .. Cardinality(S), f[i] = f[j]
      PROVE  i = j
  <2>1. f[i] \in S /\ <<f[i], f[j]>> \notin R /\ <<f[j], f[i]>> \notin R
    BY <1>2 DEF Orders
  <2>2. ~(i < j) /\ ~(j < i)
    BY <2>1 DEF InOrder
  <2>3. QED
    BY <1>1, <2>2
<1>3. f \in Injection(1 .. Cardinality(S), S)
  BY <1>2 DEF Injection, IsInjective
<1>4. Cardinality(1 .. Cardinality(S)) = Cardinality(S)
  BY <1>1, FS_Interval
<1>5. f \in Surjection(1 .. Cardinality(S), S)
  BY <1>3, <1>4, FS_Injection
<1>6. QED
  BY <1>5 DEF Surjection

\* The graph of an analysis.
AnalysisSound ==
    /\ GP!IInv
    /\ \A p \in DOMAIN clusters : clusters[p] = p - 1
    /\ structure \in [DOMAIN clusters -> Structure]

LEMMA ClusterRowsAre ==
    ASSUME AnalysisSound
    PROVE  /\ ClusterRows \in Seq(ClusterRow) /\ Len(ClusterRows) + 1 = Len(clusters)
           /\ DOMAIN ClusterRows = 1 .. Len(clusters) - 1
           /\ \A i \in DOMAIN ClusterRows :
                 ClusterRows[i].id = i /\ ClusterRows[i].structure = structure[i + 1]
<1>n. PICK n : n = Len(clusters)
  OBVIOUS
<1>1. n \in Nat \ {0} /\ DOMAIN clusters = 1 .. n
  BY <1>n, GraphFacts DEF AnalysisSound
<1> DEFINE row(k) == [id |-> clusters[k + 1], structure |-> structure[k + 1]]
<1>2. ASSUME NEW k \in 1 .. n - 1 PROVE clusters[k + 1] = k /\ row(k) \in ClusterRow
  <2>1. k + 1 \in 1 .. n /\ (k + 1) - 1 = k /\ k \in Int
    BY <1>1
  <2>2. clusters[k + 1] = k /\ structure[k + 1] \in Structure
    BY <1>1, <2>1 DEF AnalysisSound
  <2>3. QED
    BY <2>1, <2>2 DEF ClusterRow
<1>3. ClusterRows = [k \in 1 .. n - 1 |-> row(k)]
  BY <1>n DEF ClusterRows
<1>4. n - 1 \in Nat
  BY <1>1
<1>5. \A k \in 1 .. n - 1 : row(k) \in ClusterRow
  BY <1>2
<1>6. ClusterRows \in Seq(ClusterRow)
  <2> HIDE DEF row
  <2>1. [k \in 1 .. n - 1 |-> row(k)] \in Seq(ClusterRow)
    BY <1>4, <1>5, IsASeq
  <2>2. QED
    BY <1>3, <2>1
<1>7. DOMAIN ClusterRows = 1 .. n - 1 /\ Len(ClusterRows) = n - 1
  BY <1>3, <1>4, <1>6, LenProperties
<1>8. \A i \in 1 .. n - 1 : ClusterRows[i].id = i /\ ClusterRows[i].structure = structure[i + 1]
  BY <1>2, <1>3
<1>9. QED
  BY <1>1, <1>6, <1>7, <1>8, <1>n

\* The row of a transition.
RowOf(t) ==
    [c1 |-> clusters[T(t).c1], c2 |-> clusters[T(t).c2], tm |-> T(t).tm, distance |-> 1]

\* Transitions are put in order as the code compares them.
LEMMA LinksOrdered ==
    ASSUME GP!IInv, NEW S, S \subseteq DOMAIN pool
    PROVE  Orders({x \in S \X S : LinkBefore(x[1], x[2])}, S)
<1> DEFINE R == {x \in S \X S : LinkBefore(x[1], x[2])}
<1>1. \A t \in S : T(t).c1 \in Nat /\ T(t).c2 \in Nat /\ t \in Nat
  <2>1. \A t \in DOMAIN pool : T(t).c1 \in DOMAIN clusters /\ T(t).c2 \in DOMAIN clusters /\ t \in Nat
    BY GraphFacts
  <2>2. DOMAIN clusters \subseteq Nat
    BY GraphFacts
  <2>3. QED
    BY <2>1, <2>2
<1>2. \A t \in S, s \in S : <<t, s>> \in R <=> LinkBefore(t, s)
  OBVIOUS
<1>3. \A t \in S : ~LinkBefore(t, t)
  BY <1>1 DEF LinkBefore
<1>4. \A t \in S, s \in S : t # s => LinkBefore(t, s) \/ LinkBefore(s, t)
  BY <1>1 DEF LinkBefore
<1>5. \A t \in S, s \in S, u \in S :
         LinkBefore(t, s) /\ LinkBefore(s, u) => LinkBefore(t, u)
  BY <1>1 DEF LinkBefore
<1> HIDE DEF R
<1>6. Orders(R, S)
  BY <1>2, <1>3, <1>4, <1>5 DEF Orders
<1>7. QED
  BY <1>6 DEF R

\* The rows are those of the exported transitions, all of them and no others.
LEMMA TransitionRowsAre ==
    ASSUME AnalysisSound
    PROVE  /\ TransitionRows \in Seq(TransitionRow)
           /\ \A i \in DOMAIN TransitionRows : \E t \in DOMAIN pool :
                 Exported(t) /\ TransitionRows[i] = RowOf(t)
           /\ \A t \in DOMAIN pool : Exported(t) =>
                 \E i \in DOMAIN TransitionRows : TransitionRows[i] = RowOf(t)
<1>L. PICK links : links = {t \in DOMAIN pool : Exported(t)}
  OBVIOUS
<1>n. PICK n : n = Cardinality(links)
  OBVIOUS
<1>R. PICK R : R = {x \in links \X links : LinkBefore(x[1], x[2])}
  OBVIOUS
<1>1. links \subseteq DOMAIN pool /\ IsFiniteSet(links) /\ n \in Nat
  <2>1. DOMAIN pool = 1 .. Len(pool) /\ Len(pool) \in Nat
    BY GraphFacts DEF AnalysisSound
  <2>2. IsFiniteSet(DOMAIN pool)
    BY <2>1, FS_Interval
  <2>3. links \subseteq DOMAIN pool
    BY <1>L
  <2>4. QED
    BY <1>n, <2>2, <2>3, FS_Subset, FS_CardinalityType
<1>2. Orders(R, links)
  BY <1>1, <1>R, LinksOrdered DEF AnalysisSound
<1> DEFINE Good(f) == \A i, j \in DOMAIN f : i < j => LinkBefore(f[i], f[j])
<1>3. ASSUME NEW f \in [1 .. n -> links] PROVE Good(f) <=> InOrder(f, R)
  BY <1>R DEF InOrder
<1>4. \E f \in [1 .. n -> links] : Good(f)
  <2>1. PICK f \in [1 .. n -> links] : InOrder(f, R)
    BY <1>1, <1>2, <1>n, OrderExists
  <2> HIDE DEF Good
  <2>2. QED
    BY <1>3, <2>1
<1>o. PICK order : order = CHOOSE f \in [1 .. n -> links] : Good(f)
  OBVIOUS
<1>5. order \in [1 .. n -> links] /\ Good(order)
  <2> HIDE DEF Good
  <2>1. QED
    BY <1>4, <1>o
<1>6. TransitionRows = [k \in DOMAIN order |-> RowOf(order[k])]
  BY <1>L, <1>n, <1>o DEF TransitionRows, RowOf
<1>7. \A t \in links : \E i \in 1 .. n : order[i] = t
  <2>1. InOrder(order, R)
    BY <1>3, <1>5
  <2>2. QED
    BY <1>1, <1>2, <1>5, <1>n, <2>1, OrderIsAll
<1> HIDE DEF Good
<1>8. TransitionRows = [k \in 1 .. n |-> RowOf(order[k])] /\ DOMAIN TransitionRows = 1 .. n
  BY <1>5, <1>6
<1>9. \A k \in 1 .. n : RowOf(order[k]) \in TransitionRow
  <2>1. ASSUME NEW t \in DOMAIN pool PROVE RowOf(t) \in TransitionRow
    <3>1. /\ T(t).c1 \in DOMAIN clusters /\ T(t).c2 \in DOMAIN clusters /\ T(t).tm \in Tm
          /\ \A p \in DOMAIN clusters : clusters[p] \in Nat
      <4>1. clusters \in Seq(Nat)
        BY GraphFacts DEF AnalysisSound
      <4>2. \A p \in DOMAIN clusters : clusters[p] \in Nat
        BY <4>1
      <4>3. QED
        BY <4>2, GraphFacts DEF AnalysisSound
    <3>2. 1 \in Nat
      OBVIOUS
    <3>3. QED
      BY <3>1, <3>2 DEF RowOf, TransitionRow
  <2>2. QED
    BY <1>1, <1>5, <2>1
<1>10. TransitionRows \in Seq(TransitionRow)
  BY <1>1, <1>8, <1>9, IsASeq
<1>11. \A i \in 1 .. n : order[i] \in DOMAIN pool /\ Exported(order[i])
  BY <1>5, <1>L
<1>12. QED
  BY <1>7, <1>8, <1>10, <1>11, <1>L

\* What the rows say is what the graph has.
LEMMA ExportedAre ==
    ASSUME AnalysisSound, NEW rows, rows \in Seq(TransitionRow),
           \A i \in DOMAIN rows : \E t \in DOMAIN pool : Exported(t) /\ rows[i] = RowOf(t),
           \A t \in DOMAIN pool : Exported(t) => \E i \in DOMAIN rows : rows[i] = RowOf(t)
    PROVE  /\ \A i \in DOMAIN rows : /\ rows[i].distance = 1 /\ rows[i].c1 # rows[i].c2
                                     /\ rows[i].c1 \in 0 .. Len(clusters) - 1
                                     /\ rows[i].c2 \in 0 .. Len(clusters) - 1
           /\ DirectTransitions
                = {<<rows[i].c1, rows[i].c2, rows[i].tm>> : i \in DOMAIN rows}
                  \cup {<<rows[i].c2, rows[i].c1, Inv(rows[i].tm)>> : i \in DOMAIN rows}
<1>0. /\ GP!IInv /\ Len(clusters) \in Nat /\ DOMAIN clusters = 1 .. Len(clusters)
      /\ \A p \in DOMAIN clusters : clusters[p] = p - 1 /\ p \in Nat
  BY GraphFacts DEF AnalysisSound
<1>1. ASSUME NEW t \in DOMAIN pool
      PROVE  /\ T(t).c1 \in DOMAIN clusters /\ T(t).c2 \in DOMAIN clusters /\ T(t).tm \in Tm
             /\ clusters[T(t).c1] \in 0 .. Len(clusters) - 1
             /\ clusters[T(t).c2] \in 0 .. Len(clusters) - 1
             /\ T(t).distance = 1 => clusters[T(t).c1] # clusters[T(t).c2]
  <2>1. T(t).c1 \in DOMAIN clusters /\ T(t).c2 \in DOMAIN clusters /\ T(t).tm \in Tm
    BY <1>0, GraphFacts
  <2>2. T(t).distance = 1 => T(t).c1 # T(t).c2
    BY <1>0 DEF GP!IInv, GP!PoolHolds, GP!Reversed, T
  <2>3. QED
    BY <1>0, <2>1, <2>2
<1>2. ASSUME NEW i \in DOMAIN rows
      PROVE  /\ rows[i].distance = 1 /\ rows[i].c1 # rows[i].c2
             /\ rows[i].c1 \in 0 .. Len(clusters) - 1
             /\ rows[i].c2 \in 0 .. Len(clusters) - 1
             /\ <<rows[i].c1, rows[i].c2, rows[i].tm>> \in DirectTransitions
             /\ <<rows[i].c2, rows[i].c1, Inv(rows[i].tm)>> \in DirectTransitions
  <2>1. PICK t \in DOMAIN pool : Exported(t) /\ rows[i] = RowOf(t)
    OBVIOUS
  <2>2. /\ rows[i].c1 = clusters[T(t).c1] /\ rows[i].c2 = clusters[T(t).c2]
        /\ rows[i].tm = T(t).tm /\ rows[i].distance = 1 /\ T(t).distance = 1
    BY <2>1 DEF RowOf, Exported
  <2>3. <<rows[i].c1, rows[i].c2, rows[i].tm>> \in DirectTransitions
    BY <2>2 DEF DirectTransitions
  <2>r. PICK r : r = T(t).reverse
    OBVIOUS
  <2>4. /\ r \in DOMAIN pool /\ T(r).c1 = T(t).c2 /\ T(r).c2 = T(t).c1
        /\ T(r).tm = Inv(T(t).tm) /\ T(r).distance = 1
    BY <1>0, <2>2, <2>r, BackFacts
  <2>5. <<rows[i].c2, rows[i].c1, Inv(rows[i].tm)>> \in DirectTransitions
    <3>1. <<clusters[T(r).c1], clusters[T(r).c2], T(r).tm>> \in DirectTransitions
      BY <2>4 DEF DirectTransitions
    <3>2. QED
      BY <2>2, <2>4, <3>1
  <2>6. QED
    BY <1>1, <2>2, <2>3, <2>5
<1>3. ASSUME NEW l \in DirectTransitions
      PROVE  \E i \in DOMAIN rows : \/ l = <<rows[i].c1, rows[i].c2, rows[i].tm>>
                                    \/ l = <<rows[i].c2, rows[i].c1, Inv(rows[i].tm)>>
  <2>1. PICK t \in DOMAIN pool :
           T(t).distance = 1 /\ l = <<clusters[T(t).c1], clusters[T(t).c2], T(t).tm>>
    BY DEF DirectTransitions
  <2>2. CASE clusters[T(t).c1] < clusters[T(t).c2]
    <3>1. PICK i \in DOMAIN rows : rows[i] = RowOf(t)
      BY <2>1, <2>2 DEF Exported
    <3>2. l = <<rows[i].c1, rows[i].c2, rows[i].tm>>
      BY <2>1, <3>1 DEF RowOf
    <3>3. QED
      BY <3>2
  <2>3. CASE clusters[T(t).c2] < clusters[T(t).c1]
    <3>r. PICK r : r = T(t).reverse
      OBVIOUS
    <3>1. /\ r \in DOMAIN pool /\ T(r).c1 = T(t).c2 /\ T(r).c2 = T(t).c1
          /\ T(r).tm = Inv(T(t).tm) /\ T(r).distance = 1
      BY <1>0, <2>1, <3>r, BackFacts
    <3>2. PICK i \in DOMAIN rows : rows[i] = RowOf(r)
      BY <2>3, <3>1 DEF Exported
    <3>3. Inv(Inv(T(t).tm)) = T(t).tm
      BY <1>1, InverseTwice
    <3>4. l = <<rows[i].c2, rows[i].c1, Inv(rows[i].tm)>>
      BY <2>1, <3>1, <3>2, <3>3 DEF RowOf
    <3>5. QED
      BY <3>4
  <2>4. QED
    BY <1>1, <2>1, <2>2, <2>3
<1>4. QED
  BY <1>2, <1>3

----------------------------------------------------------------------------
(* Grains *)

\* Two clusters, by their ids, of one topology that meet a cluster of another
\* one with a misorientation that is a symmetry.
Together(N, X, a, b) ==
    /\ a # b
    /\ \E s \in DOMAIN Symmetries :
          /\ <<a, s>> \in N /\ <<b, s>> \in N
          /\ \E n \in N, x, y \in Tm :
                /\ n[2] # s /\ <<n[1], a, x>> \in X /\ <<n[1], b, y>> \in X
                /\ Mul(y, Inv(x)) \in Symmetries[s]

\* Clusters N and links X hold the grains r together: whatever set of ids the
\* clusters that meet do not leave, the grains do not leave.
GrainsSpan(N, X, r) ==
    LET ids == {n[1] : n \in N} IN
    \A S \in SUBSET ids :
        (\A a, b \in ids : Together(N, X, a, b) => (a \in S <=> b \in S))
        => \A p, q \in DOMAIN r :
              r[p] = r[q] /\ (\E s \in DOMAIN Symmetries : <<p - 1, s>> \in N)
              => (p - 1 \in S <=> q - 1 \in S)

Ids == [p \in DOMAIN clusters |-> clusters[root[p]]]

\* The roots do not tell clusters apart that a closed set does not.
LEMMA ClosedSetHoldsGrains ==
    ASSUME NEW C, NEW M, NEW r, ComponentsUnder(C, M, r),
           \A x \in M : x[1] \in C /\ x[2] \in C,
           NEW S, S \subseteq C, \A x \in M : x[1] \in S <=> x[2] \in S,
           NEW p \in C, NEW q \in C, r[p] = r[q]
    PROVE  p \in S <=> q \in S
<1>1. /\ r \in [C -> C]
      /\ \A A \in SUBSET C :
            (\A x \in M : x[1] \in A <=> x[2] \in A) => \A c \in A : r[c] \in A
  BY DEF ComponentsUnder
<1>2. \A c \in S : r[c] \in S
  BY <1>1
<1>3. \A c \in C \ S : r[c] \in C \ S
  <2>1. C \ S \in SUBSET C /\ \A x \in M : x[1] \in C \ S <=> x[2] \in C \ S
    OBVIOUS
  <2>2. QED
    BY <1>1, <2>1
<1>4. QED
  BY <1>2, <1>3

\* The ids and topologies of clusters that are numbered one by one.
NamesOf(C, cs, st) == {<<cs[c], st[c]>> : c \in C \ {1}}

LEMMA NamedAre ==
    ASSUME NEW C, C \subseteq Nat, NEW cs, \A c \in C : cs[c] = c - 1, NEW st,
           NEW N, N = NamesOf(C, cs, st),
           NEW p \in C \ {1}, NEW s
    PROVE  p - 1 \in {n[1] : n \in N} /\ (<<p - 1, s>> \in N <=> st[p] = s)
<1>1. <<p - 1, st[p]>> \in N
  BY DEF NamesOf
<1>2. ASSUME <<p - 1, s>> \in N PROVE st[p] = s
  <2>1. PICK c \in C \ {1} : <<p - 1, s>> = <<cs[c], st[c]>>
    BY <1>2 DEF NamesOf
  <2>2. c \in Nat /\ p \in Nat /\ c - 1 = p - 1
    BY <2>1
  <2>3. c = p
    BY <2>2
  <2>4. QED
    BY <2>1, <2>3
<1>3. <<p - 1, st[p]>>[1] = p - 1
  OBVIOUS
<1>4. QED
  BY <1>1, <1>2, <1>3

\* However grains are dissolved, what meets holds the others together.
LEMMA GrainsHeld ==
    ASSUME AnalysisSound, phase = "formed", GrainsMeetAtDefects, Uniform, OnlyZeroIsOther,
           DissolveSmallClusters \/ KeepSmallClusters
    PROVE  AnalysisSound' /\ GrainsSpan(NamedClusters, DirectTransitions, Ids)'
<1>C. PICK C : C = DOMAIN clusters
  OBVIOUS
<1>M. PICK M : M = {x \in C \X C : \E d \in C : MeetAt(x[1], x[2], d)}
  OBVIOUS
<1>1. /\ UNCHANGED <<clusters, clusterMap, pool, transitions, clusterTransitions, disconnected, root>>
      /\ \/ structure' = structure
         \/ structure' = [c \in C |-> IF atomCount[root[c]] < MinClusterSize THEN Other
                                      ELSE structure[c]]
  BY <1>C DEF DissolveSmallClusters, KeepSmallClusters, graphVars, ClusterSize
<1>2. /\ C \subseteq Nat /\ \A c \in C : clusters[c] = c - 1
      /\ structure \in [C -> Structure]
      /\ \A t \in DOMAIN pool : T(t).c1 \in C \ {1} /\ T(t).c2 \in C \ {1}
  BY <1>C, GraphFacts DEF AnalysisSound
<1>3. AnalysisSound'
  <2>1. GP!IInv'
    BY <1>1, GraphInputs, GP!SameStep DEF AnalysisSound
  <2>2. structure' \in [C -> Structure]
    BY <1>1, <1>2 DEF Structure
  <2>3. QED
    BY <1>1, <1>2, <1>C, <2>1, <2>2 DEF AnalysisSound
<1>4. ASSUME NEW c \in C, NEW e \in C, root[c] = root[e], structure'[c] # Other
      PROVE  structure'[e] = structure[e]
  BY <1>1, <1>4
<1>5. \A c \in C : structure'[c] = structure[c] \/ structure'[c] = Other
  BY <1>1
<1>r. PICK r : r = [c \in C |-> root[c]]
  OBVIOUS
<1>6. ComponentsUnder(C, M, r) /\ \A x \in M : root[x[1]] = root[x[2]]
  <2>1. /\ \A c \in C : root[root[c]] = root[c]
        /\ \A x \in M : root[x[1]] = root[x[2]]
        /\ \A S \in SUBSET C :
              (\A x \in M : x[1] \in S <=> x[2] \in S) => \A c \in S : root[c] \in S
    BY <1>C, <1>M DEF GrainsMeetAtDefects
  <2>2. r \in [C -> C] /\ \A c \in C : r[c] = root[c] /\ root[c] \in C
    BY <1>C, <1>r DEF Uniform
  <2>3. /\ \A c \in C : r[r[c]] = r[c]
        /\ \A x \in M : r[x[1]] = r[x[2]]
        /\ \A S \in SUBSET C :
              (\A x \in M : x[1] \in S <=> x[2] \in S) => \A c \in S : r[c] \in S
    BY <1>M, <2>1, <2>2
  <2>4. QED
    BY <2>1, <2>2, <2>3 DEF ComponentsUnder
<1>7. DOMAIN Ids' = C /\ \A p \in C : Ids'[p] = root[p] - 1 /\ root[p] \in C
  BY <1>1, <1>2, <1>C DEF Ids, Uniform
<1>N. PICK N : N = NamedClusters'
  OBVIOUS
<1>X. PICK X : X = DirectTransitions'
  OBVIOUS
<1>I. PICK I : I = {n[1] : n \in N}
  OBVIOUS
<1>8. \A p \in C \ {1} : /\ p - 1 \in I
                         /\ \A s : <<p - 1, s>> \in N <=> structure'[p] = s
  <2>c. PICK cs : cs = clusters
    OBVIOUS
  <2>s. PICK st : st = structure'
    OBVIOUS
  <2>1. C \subseteq Nat /\ \A c \in C : cs[c] = c - 1
    BY <1>2, <2>c
  <2>2. N = NamesOf(C, cs, st)
    BY <1>1, <1>C, <1>N, <2>c, <2>s DEF NamedClusters, NamesOf
  <2>3. \A p \in C \ {1} : /\ p - 1 \in {n[1] : n \in N}
                            /\ \A s : <<p - 1, s>> \in N <=> st[p] = s
    BY <2>1, <2>2, NamedAre
  <2>4. QED
    BY <1>I, <2>s, <2>3
<1>9. ASSUME NEW a, NEW b, NEW x, Direct(a, b, x) PROVE <<a - 1, b - 1, x>> \in X
  <2>1. PICK t \in DOMAIN pool : T(t).c1 = a /\ T(t).c2 = b /\ T(t).tm = x /\ T(t).distance = 1
    BY <1>9 DEF Direct
  <2>2. clusters[T(t).c1] = a - 1 /\ clusters[T(t).c2] = b - 1
    BY <1>2, <2>1
  <2>3. X = DirectTransitions
    BY <1>1, <1>X DEF DirectTransitions, T
  <2>4. QED
    BY <2>1, <2>2, <2>3 DEF DirectTransitions
<1>10. SUFFICES ASSUME NEW S \in SUBSET I,
                       \A a, b \in I : Together(N, X, a, b) => (a \in S <=> b \in S),
                       NEW p \in C, NEW q \in C, root[p] = root[q],
                       NEW s \in DOMAIN Symmetries, <<p - 1, s>> \in N
                PROVE  p - 1 \in S <=> q - 1 \in S
  <2>1. ASSUME NEW p \in C, NEW q \in C, Ids'[p] = Ids'[q] PROVE root[p] = root[q]
    <3>1. root[p] \in Nat /\ root[q] \in Nat /\ root[p] - 1 = root[q] - 1
      BY <1>2, <1>7, <2>1
    <3>2. QED
      BY <3>1
  <2>2. GrainsSpan(N, X, Ids')
    BY <1>7, <1>10, <1>I, <2>1 DEF GrainsSpan
  <2>3. QED
    BY <1>3, <1>N, <1>X, <2>2
<1>11. p # 1 /\ structure'[p] = s /\ s # Other
  <2>1. s # Other
    BY SuperAssumption DEF SuperAssumption
  <2>2. p # 1
    <3>1. 0 \notin I
      BY <1>1, <1>2, <1>3, <1>C, <1>N, <1>I DEF NamedClusters
    <3>2. <<p - 1, s>>[1] \in I
      BY <1>10, <1>I
    <3>3. QED
      BY <3>1, <3>2
  <2>3. QED
    BY <1>8, <1>10, <2>1, <2>2
<1> DEFINE W == {c \in C : root[c] # root[p] \/ c - 1 \in S}
<1>12. ASSUME NEW x \in M PROVE x[1] \in W <=> x[2] \in W
  <2>a. PICK a : a = x[1]
    OBVIOUS
  <2>b. PICK b : b = x[2]
    OBVIOUS
  <2>1. /\ a \in C /\ b \in C /\ root[a] = root[b]
    BY <1>6, <1>M, <2>a, <2>b
  <2>2. PICK d \in C : MeetAt(a, b, d)
    BY <1>M, <2>a, <2>b
  <2>3. CASE root[a] # root[p]
    BY <2>1, <2>3, <2>a, <2>b
  <2>4. CASE root[a] = root[p]
    <3>1. structure'[a] = InputCrystal /\ structure'[b] = InputCrystal
      BY <1>4, <1>11, <2>1, <2>2, <2>4 DEF MeetAt
    <3>2. InputCrystal \in DOMAIN Symmetries /\ InputCrystal # Other
      BY SuperAssumption DEF SuperAssumption
    <3>3. a # 1 /\ b # 1
      BY <2>1, <2>2, <3>2, <1>C DEF MeetAt, OnlyZeroIsOther
    <3>4. PICK u \in Tm, v \in Tm :
             Direct(d, a, u) /\ Direct(d, b, v) /\ Mul(v, Inv(u)) \in Symmetries[InputCrystal]
      BY <2>2 DEF MeetAt
    <3>5. d # 1
      BY <1>2, <3>4 DEF Direct
    <3>6. <<d - 1, structure'[d]>> \in N /\ structure'[d] # InputCrystal
      BY <1>5, <1>8, <2>2, <3>2, <3>5 DEF MeetAt
    <3>7. <<a - 1, InputCrystal>> \in N /\ <<b - 1, InputCrystal>> \in N
          /\ a - 1 \in I /\ b - 1 \in I
      BY <1>8, <2>1, <3>1, <3>3
    <3>8. <<d - 1, a - 1, u>> \in X /\ <<d - 1, b - 1, v>> \in X
      BY <1>9, <3>4
    <3>9. a - 1 # b - 1
      <4>1. a \in Nat /\ b \in Nat /\ a # b
        BY <1>2, <2>1, <2>2 DEF MeetAt
      <4>2. QED
        BY <4>1
    <3>n. PICK n : n = <<d - 1, structure'[d]>>
      OBVIOUS
    <3>10. n \in N /\ n[1] = d - 1 /\ n[2] # InputCrystal
      BY <3>6, <3>n
    <3>11. Together(N, X, a - 1, b - 1)
      BY <3>2, <3>4, <3>7, <3>8, <3>9, <3>10 DEF Together
    <3>12. a - 1 \in S <=> b - 1 \in S
      BY <1>10, <3>7, <3>11
    <3>13. QED
      BY <2>1, <3>12, <2>a, <2>b
  <2>5. QED
    BY <2>3, <2>4
<1>13. p \in W <=> q \in W
  <2>1. /\ W \subseteq C /\ \A x \in M : x[1] \in C /\ x[2] \in C
        /\ r[p] = r[q]
    BY <1>10, <1>C, <1>M, <1>r
  <2> HIDE DEF W
  <2>2. QED
    BY <1>6, <1>10, <1>12, <2>1, ClosedSetHoldsGrains
<1>14. QED
  BY <1>10, <1>13

----------------------------------------------------------------------------
(* The analysis and its export *)

\* The tables hold the graph that was exported.
ExportSound ==
    /\ FilesRead /\ Acceptable
    /\ Named(DOMAIN clustersTable) = exported.clusters
    /\ LinksOf(DOMAIN transitionsTable) = exported.transitions
    /\ \A i \in DOMAIN clustersTable : clustersTable[i].id = i
    /\ GrainsSpan(exported.clusters, exported.transitions, exported.root)
    /\ DOMAIN exported.root = 1 .. Len(clustersTable) + 1

AnalysisPhases == {"form", "formed", "built", "half"}

\* How far the analysis is, and what it has left.
ExportAt ==
    /\ FilesTyped
    /\ phase \in AnalysisPhases => AnalysisSound
    /\ phase \in {"built", "half"} => GrainsSpan(NamedClusters, DirectTransitions, Ids)
    /\ phase = "half" => clustersTable = ClusterRows
    /\ exported # NotExported => ExportSound /\ phase \notin AnalysisPhases

LEMMA StartExportAt == ASSUME Start PROVE ExportAt
<1>1. Init /\ FilesTyped /\ exported = NotExported /\ phase = "form"
  BY TablesAssumption DEF Start, Init, TablesAssumption, FilesTyped
<1>2. GP!IInv
  BY <1>1, FormingInit DEF Forming
<1>3. PICK in \in Inputs :
         LET n == Len(in.structure) IN
         /\ clusters = [p \in 1 .. n + 1 |-> p - 1]
         /\ structure = <<Other>> \o in.structure
  BY <1>1 DEF Init
<1>n. PICK n : n = Len(in.structure)
  OBVIOUS
<1>4. in.structure \in Seq(DOMAIN Symmetries) /\ n \in Nat
  <2>1. in.structure \in Seq(DOMAIN Symmetries)
    BY SuperAssumption DEF SuperAssumption
  <2>2. QED
    BY <1>n, <2>1, LenProperties
<1>5. DOMAIN clusters = 1 .. n + 1 /\ \A p \in DOMAIN clusters : clusters[p] = p - 1
  BY <1>3, <1>n
<1>6. structure \in [DOMAIN clusters -> Structure]
  <2>1. <<Other>> \in Seq(Structure) /\ Len(<<Other>>) = 1
    BY DEF Structure
  <2>2. in.structure \in Seq(Structure)
    BY <1>4, SeqMonotonic DEF Structure
  <2>3. structure \in Seq(Structure) /\ Len(structure) = 1 + n
    BY <1>3, <1>n, <2>1, <2>2, ConcatProperties
  <2>4. QED
    BY <1>4, <1>5, <2>3, LenProperties
<1>7. QED
  BY <1>1, <1>2, <1>5, <1>6 DEF ExportAt, AnalysisSound, AnalysisPhases

\* A table of which some rows are missing is of the same kind.
LEMMA SpoiledTyped ==
    ASSUME NEW S, NEW rows \in Seq(S), NEW old, old = NoFile \/ old \in Seq(S),
           NEW new \in Spoiled(old, rows)
    PROVE  new = NoFile \/ new \in Seq(S)
<1>1. CASE new \in {old, NoFile}
  BY <1>1
<1>2. CASE \E k \in 0 .. Len(rows) - 1 : new = SubSeq(rows, 1, k)
  <2>1. PICK k \in 0 .. Len(rows) - 1 : new = SubSeq(rows, 1, k)
    BY <1>2
  <2>2. Len(rows) \in Nat /\ \A i \in 1 .. Len(rows) : rows[i] \in S
    BY LenProperties, ElementOfSeq
  <2>3. SubSeq(rows, 1, k) \in Seq(S)
    BY <2>2, SubSeqProperties
  <2>4. QED
    BY <2>1, <2>3
<1>3. QED
  BY <1>1, <1>2 DEF Spoiled

LEMMA AnalysisKept ==
    ASSUME AnalysisSound, GP!IInv', UNCHANGED <<clusters, structure>>
    PROVE  AnalysisSound'
BY DEF AnalysisSound

LEMMA ExportKept ==
    ASSUME ExportSound, UNCHANGED <<files, exported>> PROVE ExportSound'
<1>1. /\ FilesRead' /\ Acceptable'
      /\ \A D : Named(D)' = Named(D)
      /\ \A E : LinksOf(E)' = LinksOf(E)
      /\ clustersTable' = clustersTable /\ transitionsTable' = transitionsTable
  BY FilesKept DEF ExportSound, files
<1>D. PICK D : D = DOMAIN clustersTable
  OBVIOUS
<1>E. PICK E : E = DOMAIN transitionsTable
  OBVIOUS
<1>2. Named(DOMAIN clustersTable)' = exported'.clusters
  <2>1. Named(D)' = exported.clusters
    BY <1>1, <1>D DEF ExportSound
  <2>2. QED
    BY <1>1, <1>D, <2>1
<1>3. LinksOf(DOMAIN transitionsTable)' = exported'.transitions
  <2>1. LinksOf(E)' = exported.transitions
    BY <1>1, <1>E DEF ExportSound
  <2>2. QED
    BY <1>1, <1>E, <2>1
<1>4. QED
  BY <1>1, <1>2, <1>3 DEF ExportSound

\* An analysis that was exported to the end has left what it has.
LEMMA ExportDone ==
    ASSUME AnalysisSound, GrainsSpan(NamedClusters, DirectTransitions, Ids), FilesTyped,
           clustersTable = ClusterRows, WriteTransitions
    PROVE  ExportSound'
<1>1. /\ transitionsTable' = TransitionRows /\ clustersTable' = ClusterRows
      /\ exported' = [clusters |-> NamedClusters, transitions |-> DirectTransitions, root |-> Ids]
  BY DEF WriteTransitions, Ids
<1>c. PICK cs : cs = ClusterRows
  OBVIOUS
<1>t. PICK rows : rows = TransitionRows
  OBVIOUS
<1>n. PICK n : n = Len(clusters)
  OBVIOUS
<1>2. /\ cs \in Seq(ClusterRow) /\ Len(cs) + 1 = n /\ DOMAIN cs = 1 .. n - 1 /\ n \in Nat \ {0}
      /\ \A i \in DOMAIN cs : cs[i].id = i /\ cs[i].structure = structure[i + 1]
      /\ DOMAIN clusters = 1 .. n /\ \A p \in 1 .. n : clusters[p] = p - 1
  <2>1. n \in Nat \ {0} /\ DOMAIN clusters = 1 .. n
    BY <1>n, GraphFacts DEF AnalysisSound
  <2>2. QED
    BY <1>c, <1>n, <2>1, ClusterRowsAre DEF AnalysisSound
<1>3. /\ rows \in Seq(TransitionRow)
      /\ \A i \in DOMAIN rows : \E t \in DOMAIN pool : Exported(t) /\ rows[i] = RowOf(t)
      /\ \A t \in DOMAIN pool : Exported(t) => \E i \in DOMAIN rows : rows[i] = RowOf(t)
  BY <1>t, TransitionRowsAre
<1>4. /\ \A i \in DOMAIN rows : /\ rows[i].distance = 1 /\ rows[i].c1 # rows[i].c2
                                /\ rows[i].c1 \in 0 .. n - 1 /\ rows[i].c2 \in 0 .. n - 1
      /\ DirectTransitions
           = {<<rows[i].c1, rows[i].c2, rows[i].tm>> : i \in DOMAIN rows}
             \cup {<<rows[i].c2, rows[i].c1, Inv(rows[i].tm)>> : i \in DOMAIN rows}
  BY <1>3, <1>n, ExportedAre
<1>5. clustersTable' = cs /\ transitionsTable' = rows
  BY <1>1, <1>c, <1>t
<1>6. FilesRead'
  BY <1>2, <1>3, <1>5 DEF FilesRead
<1>7. {0} \cup {cs[i].id : i \in DOMAIN cs} = 0 .. n - 1
  <2>1. {cs[i].id : i \in DOMAIN cs} = 1 .. n - 1
    BY <1>2
  <2>2. QED
    BY <1>2, <2>1
<1>8. Acceptable'
  <2>1. NoFile \notin {cs, rows}
    BY <1>2, <1>3, TablesAssumption DEF TablesAssumption
  <2>2. \A i, j \in DOMAIN cs : cs[i].id > 0 /\ (cs[i].id = cs[j].id => i = j)
    BY <1>2
  <2>3. QED
    BY <1>4, <1>5, <1>7, <2>1, <2>2 DEF Acceptable
<1>9. Named(DOMAIN clustersTable)' = NamedClusters
  <2>1. Named(DOMAIN clustersTable)' = {<<cs[i].id, cs[i].structure>> : i \in DOMAIN cs}
    BY <1>5 DEF Named
  <2>2. {<<cs[i].id, cs[i].structure>> : i \in DOMAIN cs}
          = {<<i, structure[i + 1]>> : i \in 1 .. n - 1}
    <3>1. \A i \in DOMAIN cs : cs[i].id = i /\ cs[i].structure = structure[i + 1]
      BY <1>2
    <3>2. DOMAIN cs = 1 .. n - 1
      BY <1>2
    <3>3. QED
      BY <3>1, <3>2
  <2>3. NamedClusters = {<<p - 1, structure[p]>> : p \in 2 .. n}
    <3>1. DOMAIN clusters \ {1} = 2 .. n
      BY <1>2
    <3>2. \A p \in 2 .. n : clusters[p] = p - 1
      BY <1>2
    <3>3. QED
      BY <3>1, <3>2 DEF NamedClusters
  <2>4. {<<i, structure[i + 1]>> : i \in 1 .. n - 1} = {<<p - 1, structure[p]>> : p \in 2 .. n}
    <3>1. ASSUME NEW i \in 1 .. n - 1
          PROVE  <<i, structure[i + 1]>> \in {<<p - 1, structure[p]>> : p \in 2 .. n}
      <4>1. i + 1 \in 2 .. n /\ (i + 1) - 1 = i
        BY <1>2
      <4>2. QED
        BY <4>1
    <3>2. ASSUME NEW p \in 2 .. n
          PROVE  <<p - 1, structure[p]>> \in {<<i, structure[i + 1]>> : i \in 1 .. n - 1}
      <4>1. p - 1 \in 1 .. n - 1 /\ (p - 1) + 1 = p
        BY <1>2
      <4>2. QED
        BY <4>1
    <3>3. QED
      BY <3>1, <3>2
  <2>5. QED
    BY <2>1, <2>2, <2>3, <2>4
<1>10. LinksOf(DOMAIN transitionsTable)' = DirectTransitions
  <2>1. DirectRows(DOMAIN transitionsTable)' = DOMAIN rows
    BY <1>4, <1>5 DEF DirectRows
  <2>2. LinksOf(DOMAIN transitionsTable)'
          = {<<rows[i].c1, rows[i].c2, rows[i].tm>> : i \in DOMAIN rows}
            \cup {<<rows[i].c2, rows[i].c1, Inv(rows[i].tm)>> : i \in DOMAIN rows}
    BY <1>5, <2>1 DEF LinksOf, LinkOf, BackOf
  <2>3. QED
    BY <1>4, <2>2
<1>11. DOMAIN exported'.root = 1 .. Len(clustersTable') + 1
  BY <1>1, <1>2, <1>5 DEF Ids
<1>12. GrainsSpan(exported'.clusters, exported'.transitions, exported'.root)
  BY <1>1
<1>13. QED
  BY <1>1, <1>2, <1>5, <1>6, <1>8, <1>9, <1>10, <1>11, <1>12 DEF ExportSound

\* The analysis itself.
LEMMA AnalyseAt == ASSUME IInv, ExportAt, Analyse PROVE ExportAt'
<1>1. /\ UNCHANGED <<files, exported>> /\ FilesTyped'
      /\ phase \in AnalysisPhases => AnalysisSound /\ exported' = NotExported
  BY DEF Analyse, tableVars, ExportAt, FilesTyped, files
<1>2. CASE JoinPair
  <2>1. phase = "form" /\ phase' = "form" /\ UNCHANGED <<clusters, structure>>
    BY <1>2 DEF JoinPair, AtDefect, Join, graphVars
  <2>2. GP!IInv'
    BY <1>2, <2>1, JoinPairForms DEF IInv, Forming
  <2>3. AnalysisSound'
    BY <1>1, <2>1, <2>2, AnalysisKept DEF AnalysisPhases
  <2>4. QED
    BY <1>1, <2>1, <2>3 DEF ExportAt, AnalysisPhases
<1>3. CASE NextCenter \/ FormGrains
  <2>1. /\ phase = "form" /\ phase' \in {"form", "formed"}
        /\ UNCHANGED <<clusters, structure, pool, transitions, clusterTransitions, disconnected>>
    BY <1>3 DEF NextCenter, FormGrains, graphVars
  <2>2. AnalysisSound
    BY <1>1, <2>1 DEF AnalysisPhases
  <2>3. GP!IInv'
    BY <2>1, <2>2, GraphInputs, GP!SameStep DEF AnalysisSound
  <2>4. AnalysisSound'
    BY <2>1, <2>2, <2>3, AnalysisKept
  <2>5. QED
    BY <1>1, <2>1, <2>4 DEF ExportAt, AnalysisPhases
<1>4. CASE DissolveSmallClusters \/ KeepSmallClusters
  <2>1. phase = "formed" /\ phase' = "built"
    BY <1>4 DEF DissolveSmallClusters, KeepSmallClusters
  <2>2. AnalysisSound' /\ GrainsSpan(NamedClusters, DirectTransitions, Ids)'
    BY <1>1, <1>4, <2>1, GrainsHeld DEF AnalysisPhases, IInv
  <2>3. QED
    BY <1>1, <2>1, <2>2 DEF ExportAt, AnalysisPhases
<1>5. QED
  BY <1>2, <1>3, <1>4 DEF Analyse, Next

\* The export.
LEMMA WriteAt ==
    ASSUME ExportAt, \/ WriteClusters \/ WriteTransitions
                     \/ ExportClustersFails \/ ExportTransitionsFails
    PROVE  ExportAt'
<1>1. /\ phase \in {"built", "half"} /\ AnalysisSound /\ FilesTyped
      /\ GrainsSpan(NamedClusters, DirectTransitions, Ids) /\ exported = NotExported
      /\ UNCHANGED <<clusters, clusterMap, pool, transitions, clusterTransitions, disconnected,
                     structure, root>>
  BY DEF WriteClusters, WriteTransitions, ExportClustersFails, ExportTransitionsFails, ExportAt,
         AnalysisPhases, graphVars
<1>2. ClusterRows \in Seq(ClusterRow) /\ TransitionRows \in Seq(TransitionRow)
  BY <1>1, ClusterRowsAre, TransitionRowsAre
<1>3. CASE WriteClusters
  <2>1. /\ phase' = "half" /\ clustersTable' = ClusterRows
        /\ UNCHANGED <<transitionsTable, exported>>
    BY <1>3 DEF WriteClusters
  <2>2. AnalysisSound'
    <3>1. GP!IInv'
      BY <1>1, GraphInputs, GP!SameStep DEF AnalysisSound
    <3>2. QED
      BY <1>1, <3>1, AnalysisKept
  <2>3. ClusterRows' = ClusterRows
    BY <1>1 DEF ClusterRows
  <2>4. NamedClusters' = NamedClusters /\ DirectTransitions' = DirectTransitions /\ Ids' = Ids
    BY <1>1 DEF NamedClusters, DirectTransitions, Ids, T
  <2>5. GrainsSpan(NamedClusters, DirectTransitions, Ids)'
    BY <1>1, <2>4
  <2>6. FilesTyped'
    BY <1>1, <1>2, <2>1 DEF FilesTyped
  <2>7. QED
    BY <1>1, <2>1, <2>2, <2>3, <2>5, <2>6 DEF ExportAt
<1>4. CASE WriteTransitions
  <2>1. /\ phase = "half" /\ phase' = "exit" /\ clustersTable = ClusterRows
        /\ transitionsTable' = TransitionRows /\ UNCHANGED clustersTable
    BY <1>4 DEF WriteTransitions, ExportAt
  <2>2. ExportSound'
    BY <1>1, <1>4, <2>1, ExportDone
  <2>3. FilesTyped'
    BY <1>1, <1>2, <2>1 DEF FilesTyped
  <2>4. QED
    BY <2>1, <2>2, <2>3 DEF ExportAt, AnalysisPhases
<1>5. CASE ExportClustersFails
  <2>1. /\ phase' = "exit" /\ clustersTable' \in Spoiled(clustersTable, ClusterRows)
        /\ UNCHANGED <<transitionsTable, exported>>
    BY <1>5 DEF ExportClustersFails
  <2>2. FilesTyped'
    BY <1>1, <1>2, <2>1, SpoiledTyped DEF FilesTyped
  <2>3. QED
    BY <1>1, <2>1, <2>2 DEF ExportAt, AnalysisPhases
<1>6. CASE ExportTransitionsFails
  <2>1. /\ phase' = "exit" /\ transitionsTable' \in Spoiled(transitionsTable, TransitionRows)
        /\ UNCHANGED <<clustersTable, exported>>
    BY <1>6 DEF ExportTransitionsFails
  <2>2. FilesTyped'
    BY <1>1, <1>2, <2>1, SpoiledTyped DEF FilesTyped
  <2>3. QED
    BY <1>1, <2>1, <2>2 DEF ExportAt, AnalysisPhases
<1>7. QED
  BY <1>3, <1>4, <1>5, <1>6

ImportStep ==
    \/ StartImport \/ ImportCluster \/ StartLinking \/ ImportLink
    \/ StartJoining \/ JoinImportedPair \/ NextImportedCenter \/ FormImportedGrains

\* The import changes neither the files nor what they hold.
LEMMA ImportKeepsExport == ASSUME ExportAt, ImportStep PROVE ExportAt'
<1>1. UNCHANGED <<files, exported>> /\ phase' \notin AnalysisPhases
  BY DEF ImportStep, StartImport, ImportCluster, StartLinking, ImportLink, Reject, StartJoining,
         JoinImportedPair, NextImportedCenter, FormImportedGrains, tableVars, AnalysisPhases
<1>2. FilesTyped'
  BY <1>1 DEF ExportAt, FilesTyped, files
<1>3. exported' # NotExported => ExportSound'
  BY <1>1, ExportKept DEF ExportAt
<1>4. QED
  BY <1>1, <1>2, <1>3 DEF ExportAt, AnalysisPhases

----------------------------------------------------------------------------
(* Joining clusters that were imported *)

\* Transitions t and s lead from a cluster to two of one topology that it
\* holds together.
ToBeJoined(t, s) ==
    /\ T(s).c1 = T(t).c1 /\ ToNamed(T(t).c1, t) /\ ToNamed(T(t).c1, s)
    /\ T(t).c2 # T(s).c2 /\ structure[T(t).c2] = structure[T(s).c2]
    /\ structure[T(t).c2] # structure[T(t).c1]
    /\ Misorientation(t, s) \in Symmetries[structure[T(t).c2]]

\* A transition of the new hierarchy joins clusters a and b.
Bridged(a, b) ==
    \E k \in DOMAIN superTransitions :
        LET u == superTransitions[k]
        IN  \/ T(u).c1 = a /\ T(u).c2 = b
            \/ T(u).c1 = b /\ T(u).c2 = a

\* What the loops have come to is joined if it is to be.
Joining ==
    /\ superTransitions \in Seq(DOMAIN pool)
    /\ center \in Nat /\ center > 1
    /\ \A t, s \in DOMAIN pool :
          ToBeJoined(t, s) /\ T(t).c1 > 1 /\ T(t).c1 < center => Bridged(T(t).c2, T(s).c2)
    /\ center \in DOMAIN clusters =>
          \A x \in Places(transitions[center]) :
              ToBeJoined(At(center, x[1]), At(center, x[2])) /\ ~Before(pair, x)
              => Bridged(T(At(center, x[1])).c2, T(At(center, x[2])).c2)

JoinAt ==
    /\ phase \in {"clusters", "links"} => center = 2 /\ pair = <<0, 0>>
    /\ phase \notin {"join", "imported", "rejected"} => superTransitions = <<>>
    /\ phase = "join" => Joining

LEMMA BridgedBothWays == \A a, b : Bridged(a, b) <=> Bridged(b, a)
BY DEF Bridged

\* It does not matter which of the two is taken first.
LEMMA JoinedBothWays ==
    ASSUME PoolSound, structure \in [DOMAIN clusters -> Structure],
           NEW t \in DOMAIN pool, NEW s \in DOMAIN pool, ToBeJoined(t, s)
    PROVE  ToBeJoined(s, t)
<1>1. /\ T(t).tm \in Tm /\ T(s).tm \in Tm /\ T(t).c2 \in DOMAIN clusters
      /\ T(T(t).reverse).tm = Inv(T(t).tm) /\ T(T(s).reverse).tm = Inv(T(s).tm)
  BY SoundFacts
<1>2. structure[T(t).c2] \in DOMAIN Symmetries
  BY <1>1 DEF ToBeJoined, ToNamed, Structure
<1>3. /\ Misorientation(t, s) = Mul(T(s).tm, Inv(T(t).tm))
      /\ Misorientation(s, t) = Mul(T(t).tm, Inv(T(s).tm))
  BY <1>1 DEF Misorientation
<1>4. Misorientation(s, t) = Inv(Misorientation(t, s))
  <2>x. PICK x : x = T(t).tm
    OBVIOUS
  <2>y. PICK y : y = T(s).tm
    OBVIOUS
  <2>1. x \in Tm /\ y \in Tm /\ Inv(x) \in Tm /\ Inv(Inv(x)) = x
    BY <1>1, <2>x, <2>y, GroupAxioms, InverseTwice
  <2>2. Mul(Inv(Inv(x)), Inv(y)) = Inv(Mul(y, Inv(x)))
    BY <2>1, GraphInputs, GP!InverseOfProduct
  <2>3. QED
    BY <1>3, <2>1, <2>2, <2>x, <2>y
<1>5. Misorientation(s, t) \in Symmetries[structure[T(t).c2]]
  BY <1>2, <1>4, SuperAssumption DEF SuperAssumption, ToBeJoined
<1>6. QED
  BY <1>5 DEF ToBeJoined

\* The pairs of a cluster that the loops come to are those to be joined, but
\* for the misorientation.
LEMMA PairsToJoin ==
    ASSUME PoolSound, NEW c \in DOMAIN clusters, NEW x \in Places(transitions[c])
    PROVE  LET t == At(c, x[1])
               s == At(c, x[2])
           IN  /\ t \in DOMAIN pool /\ s \in DOMAIN pool /\ T(t).c1 = c /\ T(s).c1 = c
               /\ ToBeJoined(t, s) <=>
                     /\ x \in CenterPairs(c)
                     /\ Misorientation(t, s) \in Symmetries[structure[T(t).c2]]
<1>t. PICK t : t = At(c, x[1])
  OBVIOUS
<1>s. PICK s : s = At(c, x[2])
  OBVIOUS
<1>1. x[1] \in DOMAIN transitions[c] /\ x[2] \in DOMAIN transitions[c]
  BY DEF Places
<1>2. t \in DOMAIN pool /\ s \in DOMAIN pool /\ T(t).c1 = c /\ T(s).c1 = c
  BY <1>1, <1>t, <1>s, SoundFacts
<1>3. x \in CenterPairs(c) <=>
         /\ ToNamed(c, t) /\ ToNamed(c, s) /\ T(t).c2 # T(s).c2
         /\ structure[T(t).c2] = structure[T(s).c2] /\ structure[T(t).c2] # structure[c]
  BY <1>t, <1>s DEF CenterPairs
<1>4. QED
  BY <1>2, <1>3, <1>t, <1>s DEF ToBeJoined

LEMMA StartJoiningJoins == ASSUME ImportAt, JoinAt, StartJoining PROVE JoinAt'
<1>1. /\ phase = "links" /\ phase' = "join"
      /\ UNCHANGED <<clusters, pool, transitions, structure, center, pair, superTransitions>>
      /\ center = 2 /\ pair = <<0, 0>> /\ superTransitions = <<>> /\ PoolSound
  BY DEF StartJoining, graphVars, tableVars, JoinAt, ImportAt, LinksAre
<1>2. ASSUME 2 \in DOMAIN clusters, NEW x \in Places(transitions[2]) PROVE Before(<<0, 0>>, x)
  <2>1. DOMAIN transitions[2] \subseteq Nat \ {0}
    BY <1>1, <1>2, SoundFacts
  <2>2. QED
    BY <1>2, <2>1, PlacesOrdered
<1>3. \A t \in DOMAIN pool : T(t).c1 \in Nat
  <2>1. DOMAIN clusters \subseteq Nat
    BY <1>1, LenProperties DEF ImportAt, ClustersAre, MapSound
  <2>2. QED
    BY <1>1, <2>1, SoundFacts
<1>4. \A t \in DOMAIN pool : ~(T(t).c1 > 1 /\ T(t).c1 < 2)
  BY <1>3
<1>5. Joining'
  <2>1. superTransitions' \in Seq(DOMAIN pool')
    BY <1>1
  <2>2. \A t \in DOMAIN pool' : ~(T(t)'.c1 > 1 /\ T(t)'.c1 < center')
    BY <1>1, <1>4 DEF T
  <2>3. center' \in DOMAIN clusters' => \A x \in Places(transitions'[center']) : Before(pair', x)
    BY <1>1, <1>2
  <2>4. center' \in Nat /\ center' > 1
    BY <1>1
  <2>5. QED
    BY <2>1, <2>2, <2>3, <2>4 DEF Joining, Before
<1>6. QED
  BY <1>1, <1>5 DEF JoinAt

LEMMA NextImportedCenterJoins ==
    ASSUME ImportAt, JoinAt, NextImportedCenter PROVE JoinAt'
<1>1. /\ phase = "join" /\ phase' = "join" /\ center \in DOMAIN clusters
      /\ center' = center + 1 /\ pair' = <<0, 0>> /\ Finished(CenterPairs(center))
      /\ UNCHANGED <<clusters, pool, transitions, structure, superTransitions>>
      /\ Joining /\ PoolSound /\ structure \in [DOMAIN clusters -> Structure]
      /\ DOMAIN clusters \subseteq Nat
  BY LenProperties
  DEF NextImportedCenter, graphVars, tableVars, JoinAt, ImportAt, LinksAre, ClustersAre, MapSound
<1>2. ASSUME NEW t \in DOMAIN pool, NEW s \in DOMAIN pool, ToBeJoined(t, s), T(t).c1 = center,
             NEW k \in DOMAIN transitions[center], At(center, k) = t,
             NEW l \in DOMAIN transitions[center], At(center, l) = s, k < l
      PROVE  Bridged(T(t).c2, T(s).c2)
  <2>1. <<k, l>> \in Places(transitions[center]) /\ <<k, l>>[1] = k /\ <<k, l>>[2] = l
    BY <1>2 DEF Places
  <2>2. <<k, l>> \in CenterPairs(center)
    BY <1>1, <1>2, <2>1, PairsToJoin
  <2>3. ~Before(pair, <<k, l>>)
    BY <1>1, <2>2 DEF Finished
  <2>4. QED
    BY <1>1, <1>2, <2>1, <2>3 DEF Joining
<1>3. ASSUME NEW t \in DOMAIN pool, NEW s \in DOMAIN pool, ToBeJoined(t, s), T(t).c1 = center
      PROVE  Bridged(T(t).c2, T(s).c2)
  <2>1. PICK k \in DOMAIN transitions[center] : At(center, k) = t
    BY <1>1, <1>3, SoundFacts
  <2>2. T(s).c1 = center /\ T(t).c2 # T(s).c2
    BY <1>3 DEF ToBeJoined
  <2>3. PICK l \in DOMAIN transitions[center] : At(center, l) = s
    BY <1>1, <2>2, SoundFacts
  <2>4. k \in Nat /\ l \in Nat /\ k # l
    BY <1>1, <2>1, <2>2, <2>3, SoundFacts
  <2>5. CASE k < l
    BY <1>2, <1>3, <2>1, <2>3, <2>5
  <2>6. CASE l < k
    <3>1. ToBeJoined(s, t)
      BY <1>1, <1>3, JoinedBothWays
    <3>2. Bridged(T(s).c2, T(t).c2)
      BY <1>2, <2>1, <2>2, <2>3, <2>6, <3>1
    <3>3. QED
      BY <3>2, BridgedBothWays
  <2>7. QED
    BY <2>4, <2>5, <2>6
<1>4. ASSUME NEW t \in DOMAIN pool, NEW s \in DOMAIN pool, ToBeJoined(t, s),
             T(t).c1 > 1, T(t).c1 < center + 1
      PROVE  Bridged(T(t).c2, T(s).c2)
  <2>1. T(t).c1 \in Nat /\ center \in Nat
    BY <1>1, SoundFacts
  <2>2. T(t).c1 = center \/ T(t).c1 < center
    BY <1>4, <2>1
  <2>3. QED
    BY <1>1, <1>3, <1>4, <2>2 DEF Joining
<1>5. ASSUME center + 1 \in DOMAIN clusters, NEW x \in Places(transitions[center + 1])
      PROVE  Before(<<0, 0>>, x)
  <2>1. DOMAIN transitions[center + 1] \subseteq Nat \ {0}
    BY <1>1, <1>5, SoundFacts
  <2>2. QED
    BY <1>5, <2>1, PlacesOrdered
<1>6. Joining'
  <2>1. superTransitions' \in Seq(DOMAIN pool') /\ center' \in Nat /\ center' > 1
    BY <1>1 DEF Joining
  <2>2. /\ \A t, s : ToBeJoined(t, s)' <=> ToBeJoined(t, s)
        /\ \A a, b : Bridged(a, b)' <=> Bridged(a, b)
        /\ \A t : T(t)' = T(t)
    BY <1>1 DEF ToBeJoined, Bridged, T, ToNamed, Misorientation
  <2>3. \A t, s \in DOMAIN pool' :
           ToBeJoined(t, s)' /\ T(t)'.c1 > 1 /\ T(t)'.c1 < center' => Bridged(T(t).c2, T(s).c2)'
    BY <1>1, <1>4, <2>2
  <2>4. center' \in DOMAIN clusters' => \A x \in Places(transitions'[center']) : Before(pair', x)
    BY <1>1, <1>5
  <2>5. QED
    BY <2>1, <2>3, <2>4 DEF Joining, Before
<1>7. QED
  BY <1>1, <1>6 DEF JoinAt

\* What the step for a pair does, and what it leaves.
PairStep(a, b, tm) ==
    \/ /\ UNCHANGED <<pool, transitions>>
       /\ returned' \in DOMAIN pool
       /\ T(returned').c1 = a /\ T(returned').c2 = b /\ T(returned').tm = tm
    \/ PairOf(a, b, tm, 2) /\ ~Joined(a, b, tm) /\ returned' = Len(pool) + 1

\* The pair of places y is the next to be looked at.
LookedAt(y, t, s) ==
    /\ y \in Places(transitions[center]) /\ NextOf(CenterPairs(center), y)
    /\ t = At(center, y[1]) /\ s = At(center, y[2])
    /\ Join(t, s, Symmetries[structure[T(t).c2]])
    /\ superTransitions' =
          IF Misorientation(t, s) \in Symmetries[structure[T(t).c2]]
             /\ ~Contains(superTransitions, returned')
          THEN Append(superTransitions, returned') ELSE superTransitions
    /\ pair' = y
    /\ phase = "join" /\ center \in DOMAIN clusters
    /\ UNCHANGED <<structure, phase, center, files, todo, exported>>

LEMMA PairLookedAt == ASSUME JoinImportedPair PROVE \E y, t, s : LookedAt(y, t, s)
BY DEF JoinImportedPair, LookedAt

LEMMA LookedAtFacts ==
    ASSUME PoolSound, structure \in [DOMAIN clusters -> Structure],
           NEW y, NEW t, NEW s, LookedAt(y, t, s)
    PROVE  /\ t \in DOMAIN pool /\ s \in DOMAIN pool /\ y \in CenterPairs(center)
           /\ T(t).c1 = center /\ T(s).c1 = center /\ T(t).c2 # T(s).c2
           /\ T(t).c2 \in DOMAIN clusters \ {center} /\ T(s).c2 \in DOMAIN clusters \ {center}
           /\ structure[T(t).c2] \in DOMAIN Symmetries /\ Misorientation(t, s) \in Tm
           /\ UNCHANGED clusters /\ UNCHANGED clusterMap
<1>1. /\ y \in CenterPairs(center) /\ y \in Places(transitions[center])
      /\ t = At(center, y[1]) /\ s = At(center, y[2]) /\ center \in DOMAIN clusters
  BY DEF LookedAt, NextOf
<1>2. t \in DOMAIN pool /\ s \in DOMAIN pool /\ T(t).c1 = center /\ T(s).c1 = center
  BY <1>1, PairsToJoin
<1>3. /\ ToNamed(center, t) /\ ToNamed(center, s) /\ T(t).c2 # T(s).c2
  BY <1>1 DEF CenterPairs
<1>4. /\ T(t).c2 \in DOMAIN clusters /\ T(s).c2 \in DOMAIN clusters
      /\ T(t).tm \in Tm /\ T(s).tm \in Tm /\ T(T(t).reverse).tm = Inv(T(t).tm)
  BY <1>2, SoundFacts
<1>5. structure[T(t).c2] \in DOMAIN Symmetries
  BY <1>3, <1>4 DEF ToNamed, Structure
<1>6. Misorientation(t, s) \in Tm
  BY <1>4, GroupAxioms DEF Misorientation
<1>7. UNCHANGED clusters /\ UNCHANGED clusterMap
  BY DEF LookedAt, Join, graphVars
<1>8. QED
  BY <1>1, <1>2, <1>3, <1>4, <1>5, <1>6, <1>7 DEF ToNamed

\* The graph gets nothing but transitions of a longer distance.
LEMMA PairDoes ==
    ASSUME PoolSound, structure \in [DOMAIN clusters -> Structure],
           NEW y, NEW t, NEW s, LookedAt(y, t, s)
    PROVE  /\ PoolSound'
           /\ Misorientation(t, s) \in Symmetries[structure[T(t).c2]]
                 => PairStep(T(t).c2, T(s).c2, Misorientation(t, s))
           /\ Misorientation(t, s) \notin Symmetries[structure[T(t).c2]]
                 => UNCHANGED <<pool, transitions, superTransitions>>
<1>a. PICK a : a = T(t).c2
  OBVIOUS
<1>b. PICK b : b = T(s).c2
  OBVIOUS
<1>m. PICK tm : tm = Misorientation(t, s)
  OBVIOUS
<1>1. /\ a \in DOMAIN clusters /\ b \in DOMAIN clusters /\ a # b /\ tm \in Tm
      /\ UNCHANGED clusters
  BY <1>a, <1>b, <1>m, LookedAtFacts
<1>2. CASE tm \in Symmetries[structure[T(t).c2]]
  <2>1. /\ G!CreateClusterTransition(a, b, tm, 2) /\ returned' = G!Created(a, b, tm)
        /\ 2 \in Nat \ {0}
    BY <1>2, <1>a, <1>b, <1>m DEF LookedAt, Join
  <2>2. PoolSound' /\ PairStep(a, b, tm)
    BY <1>1, <2>1, CreateDoes DEF PairStep
  <2>3. QED
    BY <1>2, <2>2, <1>a, <1>b, <1>m
<1>3. CASE tm \notin Symmetries[structure[T(t).c2]]
  <2>1. UNCHANGED <<clusters, pool, transitions, superTransitions>>
    BY <1>3, <1>m DEF LookedAt, Join, graphVars
  <2>2. PoolSound'
    BY <2>1 DEF PoolSound
  <2>3. QED
    BY <1>3, <2>1, <2>2, <1>m
<1>4. QED
  BY <1>2, <1>3

\* Everything stays as it is but for the new transition, which no pair to be
\* joined has.
LEMMA PairLeaves ==
    ASSUME PoolSound, NEW c \in DOMAIN clusters, NEW a, NEW b, NEW tm, a # c, b # c,
           PairStep(a, b, tm) \/ UNCHANGED <<pool, transitions>>, structure' = structure
    PROVE  /\ \A u \in DOMAIN pool : u \in DOMAIN pool' /\ T(u)' = T(u)
           /\ \A t, s \in DOMAIN pool' :
                 ToBeJoined(t, s)' => t \in DOMAIN pool /\ s \in DOMAIN pool /\ ToBeJoined(t, s)
           /\ transitions'[c] = transitions[c]
<1>1. CASE UNCHANGED <<pool, transitions>>
  BY <1>1 DEF ToBeJoined, T, ToNamed, Misorientation
<1>2. CASE PairOf(a, b, tm, 2)
  <2>1. /\ \A u \in DOMAIN pool : u \in DOMAIN pool' /\ pool'[u] = pool[u]
        /\ \A u \in DOMAIN pool' \ DOMAIN pool : pool'[u].distance = 2
        /\ transitions'[c] = transitions[c]
    BY <1>2 DEF PairOf
  <2>2. ASSUME NEW t \in DOMAIN pool', NEW s \in DOMAIN pool', ToBeJoined(t, s)'
        PROVE  t \in DOMAIN pool /\ s \in DOMAIN pool /\ ToBeJoined(t, s)
    <3>1. pool'[t].distance = 1 /\ pool'[s].distance = 1
      BY <2>2 DEF ToBeJoined, ToNamed, T
    <3>2. t \in DOMAIN pool /\ s \in DOMAIN pool
      BY <2>1, <3>1
    <3>3. pool[t].reverse \in DOMAIN pool
      BY <3>2, SoundFacts DEF T
    <3>4. /\ pool'[t] = pool[t] /\ pool'[s] = pool[s]
          /\ pool'[pool[t].reverse] = pool[pool[t].reverse]
      BY <2>1, <3>2, <3>3
    <3>5. ToBeJoined(t, s)
      BY <2>2, <3>4 DEF ToBeJoined, ToNamed, Misorientation, T
    <3>6. QED
      BY <3>2, <3>5
  <2>3. QED
    BY <2>1, <2>2 DEF T
<1>3. QED
  BY <1>1, <1>2 DEF PairStep

\* The new hierarchy has the transition of the pair, and what it had.
LEMMA PairListed ==
    ASSUME superTransitions \in Seq(DOMAIN pool),
           \A u \in DOMAIN pool : u \in DOMAIN pool' /\ T(u)' = T(u),
           returned' \in DOMAIN pool',
           superTransitions' = IF ~Contains(superTransitions, returned')
                               THEN Append(superTransitions, returned') ELSE superTransitions
    PROVE  /\ superTransitions' \in Seq(DOMAIN pool')
           /\ \A a, b : Bridged(a, b) => Bridged(a, b)'
           /\ Bridged(T(returned).c1, T(returned).c2)'
<1>l. PICK l : l = superTransitions
  OBVIOUS
<1>m. PICK m : m = superTransitions'
  OBVIOUS
<1>r. PICK r : r = returned'
  OBVIOUS
<1>P. PICK P : P = DOMAIN pool'
  OBVIOUS
<1>1. /\ l \in Seq(P) /\ r \in P /\ m = IF ~Contains(l, r) THEN Append(l, r) ELSE l
      /\ DOMAIN l = 1 .. Len(l) /\ Len(l) \in Nat
  <2>1. l \in Seq(DOMAIN pool) /\ DOMAIN pool \subseteq P
    BY <1>l, <1>P
  <2>2. l \in Seq(P)
    BY <2>1, SeqMonotonic
  <2>3. QED
    BY <2>2, <1>l, <1>m, <1>r, <1>P, LenProperties
<1>2. /\ m \in Seq(P) /\ \A k \in DOMAIN l : k \in DOMAIN m /\ m[k] = l[k]
      /\ \E k \in DOMAIN m : m[k] = r
  <2>1. CASE Contains(l, r)
    BY <1>1, <2>1 DEF Contains
  <2>2. CASE ~Contains(l, r)
    <3>1. m = Append(l, r) /\ m \in Seq(P) /\ Len(m) = Len(l) + 1
      BY <1>1, <2>2, AppendProperties
    <3>2. DOMAIN m = 1 .. Len(l) + 1
      BY <3>1, LenProperties
    <3>3. m[Len(l) + 1] = r /\ \A k \in 1 .. Len(l) : m[k] = l[k]
      BY <1>1, <3>1, AppendProperties
    <3>4. QED
      BY <1>1, <3>1, <3>2, <3>3
  <2>3. QED
    BY <2>1, <2>2
<1>3. ASSUME NEW a, NEW b, Bridged(a, b) PROVE Bridged(a, b)'
  <2>1. PICK k \in DOMAIN l : LET u == l[k] IN \/ T(u).c1 = a /\ T(u).c2 = b
                                               \/ T(u).c1 = b /\ T(u).c2 = a
    BY <1>3, <1>l DEF Bridged
  <2>2. l[k] \in DOMAIN pool
    BY <1>l, <2>1, LenProperties, ElementOfSeq
  <2>3. k \in DOMAIN m /\ m[k] = l[k] /\ pool'[l[k]] = pool[l[k]]
    BY <1>2, <2>2 DEF T
  <2>4. QED
    BY <1>m, <2>1, <2>3 DEF Bridged, T
<1>4. Bridged(T(returned).c1, T(returned).c2)'
  <2>1. PICK k \in DOMAIN m : m[k] = r
    BY <1>2
  <2>2. QED
    BY <2>1, <1>m, <1>r DEF Bridged, T
<1>5. QED
  BY <1>2, <1>3, <1>4, <1>m, <1>P

LEMMA JoinImportedPairJoins ==
    ASSUME ImportAt, JoinAt, JoinImportedPair PROVE JoinAt'
<1>1. /\ phase = "join" /\ center \in DOMAIN clusters /\ Joining /\ PoolSound
      /\ structure \in [DOMAIN clusters -> Structure]
  BY DEF JoinImportedPair, JoinAt, ImportAt, LinksAre, ClustersAre, MapSound
<1>2. PICK y, t, s : LookedAt(y, t, s)
  BY PairLookedAt
<1>a. PICK a : a = T(t).c2
  OBVIOUS
<1>b. PICK b : b = T(s).c2
  OBVIOUS
<1>m. PICK tm : tm = Misorientation(t, s)
  OBVIOUS
<1>S. PICK S : S = Symmetries[structure[T(t).c2]]
  OBVIOUS
<1>3. /\ t \in DOMAIN pool /\ s \in DOMAIN pool /\ y \in CenterPairs(center)
      /\ T(t).c1 = center /\ a \in DOMAIN clusters \ {center} /\ b \in DOMAIN clusters \ {center}
      /\ clusters' = clusters
      /\ phase' = "join" /\ center' = center /\ pair' = y /\ structure' = structure
      /\ t = At(center, y[1]) /\ s = At(center, y[2]) /\ NextOf(CenterPairs(center), y)
  <2>1. /\ t \in DOMAIN pool /\ s \in DOMAIN pool /\ y \in CenterPairs(center)
        /\ T(t).c1 = center /\ a \in DOMAIN clusters \ {center} /\ b \in DOMAIN clusters \ {center}
        /\ clusters' = clusters
    BY <1>1, <1>2, <1>a, <1>b, LookedAtFacts
  <2>2. /\ phase' = "join" /\ center' = center /\ pair' = y /\ structure' = structure
        /\ t = At(center, y[1]) /\ s = At(center, y[2]) /\ NextOf(CenterPairs(center), y)
    BY <1>1, <1>2 DEF LookedAt
  <2>3. QED
    BY <2>1, <2>2
<1>4. /\ PoolSound'
      /\ tm \in S => PairStep(a, b, tm)
      /\ tm \notin S => UNCHANGED <<pool, transitions, superTransitions>>
  BY <1>1, <1>2, <1>a, <1>b, <1>m, <1>S, PairDoes
<1>5. /\ \A u \in DOMAIN pool : u \in DOMAIN pool' /\ T(u)' = T(u)
      /\ \A u, v \in DOMAIN pool' :
            ToBeJoined(u, v)' => u \in DOMAIN pool /\ v \in DOMAIN pool /\ ToBeJoined(u, v)
      /\ transitions'[center] = transitions[center]
  BY <1>1, <1>3, <1>4, PairLeaves
<1>6. /\ superTransitions' \in Seq(DOMAIN pool')
      /\ \A e, f : Bridged(e, f) => Bridged(e, f)'
      /\ tm \in S => Bridged(a, b)'
  <2>0. superTransitions \in Seq(DOMAIN pool)
    BY <1>1 DEF Joining
  <2>1. CASE tm \notin S
    <3>1. superTransitions' = superTransitions /\ DOMAIN pool' = DOMAIN pool /\ pool' = pool
      BY <1>4, <2>1
    <3>2. \A e, f : Bridged(e, f) => Bridged(e, f)'
      BY <3>1 DEF Bridged, T
    <3>3. QED
      BY <2>0, <2>1, <3>1, <3>2
  <2>2. CASE tm \in S
    <3>1. superTransitions' = IF ~Contains(superTransitions, returned')
                              THEN Append(superTransitions, returned') ELSE superTransitions
      BY <1>2, <2>2, <1>m, <1>S DEF LookedAt
    <3>2. /\ returned' \in DOMAIN pool' /\ pool'[returned'].c1 = a /\ pool'[returned'].c2 = b
      <4>1. PairStep(a, b, tm)
        BY <1>4, <2>2
      <4>2. CASE UNCHANGED pool /\ returned' \in DOMAIN pool /\ T(returned').c1 = a /\ T(returned').c2 = b
        BY <4>2 DEF T
      <4>3. CASE PairOf(a, b, tm, 2) /\ returned' = Len(pool) + 1
        BY <4>3 DEF PairOf
      <4>4. QED
        BY <4>1, <4>2, <4>3 DEF PairStep
    <3>3. /\ superTransitions' \in Seq(DOMAIN pool')
          /\ \A e, f : Bridged(e, f) => Bridged(e, f)'
          /\ Bridged(T(returned).c1, T(returned).c2)'
      BY <1>5, <2>0, <3>1, <3>2, PairListed
    <3>4. Bridged(a, b)'
      BY <3>2, <3>3 DEF Bridged, T
    <3>5. QED
      BY <3>3, <3>4
  <2>3. QED
    BY <2>1, <2>2
<1>7. ASSUME NEW u \in DOMAIN pool', NEW v \in DOMAIN pool', ToBeJoined(u, v)',
             T(u)'.c1 > 1, T(u)'.c1 < center
      PROVE  Bridged(T(u).c2, T(v).c2)'
  <2>1. u \in DOMAIN pool /\ v \in DOMAIN pool /\ ToBeJoined(u, v) /\ T(u)' = T(u) /\ T(v)' = T(v)
    BY <1>5, <1>7
  <2>2. Bridged(T(u).c2, T(v).c2)
    BY <1>1, <1>7, <2>1 DEF Joining
  <2>e. PICK e : e = T(u).c2
    OBVIOUS
  <2>f. PICK f : f = T(v).c2
    OBVIOUS
  <2>3. Bridged(e, f)'
    BY <1>6, <2>2, <2>e, <2>f
  <2>4. QED
    BY <2>1, <2>3, <2>e, <2>f
<1>8. ASSUME NEW x \in Places(transitions[center]), ~Before(y, x),
             NEW u, u = At(center, x[1]), NEW v, v = At(center, x[2]), ToBeJoined(u, v)'
      PROVE  Bridged(T(u).c2, T(v).c2)'
  <2>1. u \in DOMAIN pool /\ v \in DOMAIN pool
    BY <1>1, <1>8, PairsToJoin
  <2>2. ToBeJoined(u, v) /\ T(u)' = T(u) /\ T(v)' = T(v)
    BY <1>5, <1>8, <2>1
  <2>3. x \in CenterPairs(center) /\ Misorientation(u, v) \in Symmetries[structure[T(u).c2]]
    BY <1>1, <1>8, <2>2, PairsToJoin
  <2>e. PICK e : e = T(u).c2
    OBVIOUS
  <2>f. PICK f : f = T(v).c2
    OBVIOUS
  <2>4. Bridged(e, f)'
    <3>1. CASE x = y
      BY <1>3, <1>6, <1>8, <2>3, <3>1, <2>e, <2>f, <1>a, <1>b, <1>m, <1>S
    <3>2. CASE x # y
      <4>1. y \in Places(transitions[center]) /\ DOMAIN transitions[center] \subseteq Nat \ {0}
        BY <1>1, <1>3, SoundFacts DEF CenterPairs
      <4>2. Before(x, y)
        BY <1>8, <3>2, <4>1, PlacesOrdered
      <4>3. ~Before(pair, x)
        BY <1>3, <2>3, <4>2 DEF NextOf
      <4>4. Bridged(e, f)
        BY <1>1, <1>8, <2>2, <4>3, <2>e, <2>f DEF Joining
      <4>5. QED
        BY <1>6, <4>4
    <3>3. QED
      BY <3>1, <3>2
  <2>5. QED
    BY <2>2, <2>4, <2>e, <2>f
<1>9. Joining'
  <2>1. /\ center' = center /\ pair' = y /\ transitions'[center'] = transitions[center]
        /\ center' \in Nat /\ center' > 1
    BY <1>1, <1>3, <1>5 DEF Joining
  <2>2. ASSUME NEW x \in Places(transitions'[center'])
        PROVE  (ToBeJoined(At(center, x[1]), At(center, x[2])) /\ ~Before(pair, x)
               => Bridged(T(At(center, x[1])).c2, T(At(center, x[2])).c2))'
    <3>u. PICK u : u = At(center, x[1])
      OBVIOUS
    <3>v. PICK v : v = At(center, x[2])
      OBVIOUS
    <3>1. u = At(center, x[1])' /\ v = At(center, x[2])' /\ x \in Places(transitions[center])
      BY <2>1, <2>2, <3>u, <3>v DEF At
    <3>2. ToBeJoined(u, v)' /\ ~Before(y, x) => Bridged(T(u).c2, T(v).c2)'
      BY <1>8, <3>1, <3>u, <3>v
    <3>3. QED
      BY <2>1, <3>1, <3>2
  <2>3. QED
    BY <1>6, <1>7, <2>1, <2>2 DEF Joining
<1>10. QED
  BY <1>3, <1>9 DEF JoinAt

\* Joining leaves what was imported.
LEMMA JoiningAt ==
    ASSUME ImportAt, JoinImportedPair \/ NextImportedCenter \/ FormImportedGrains
    PROVE  ImportAt'
<1>1. /\ phase = "join" /\ phase' \in {"join", "imported"}
      /\ UNCHANGED structure /\ UNCHANGED files
      /\ FilesRead /\ ClustersAre(DOMAIN clustersTable) /\ LinksAre(DOMAIN transitionsTable)
  BY DEF ImportAt, JoinImportedPair, NextImportedCenter, FormImportedGrains, tableVars, files
<1>2. /\ UNCHANGED <<clusters, clusterMap, structure>>
      /\ \/ UNCHANGED <<pool, transitions>>
         \/ PoolSound' /\ \E a, b, tm : PairOf(a, b, tm, 2)
  <2>1. CASE JoinImportedPair
    <3>1. PoolSound /\ structure \in [DOMAIN clusters -> Structure]
      BY <1>1 DEF LinksAre, ClustersAre, MapSound
    <3>2. PICK y, t, s : LookedAt(y, t, s)
      BY <2>1, PairLookedAt
    <3>3. UNCHANGED <<clusters, clusterMap>>
      BY <3>1, <3>2, LookedAtFacts
    <3>4. /\ PoolSound'
          /\ \/ UNCHANGED <<pool, transitions>>
             \/ PairStep(T(t).c2, T(s).c2, Misorientation(t, s))
      BY <3>1, <3>2, PairDoes
    <3>5. QED
      BY <1>1, <3>3, <3>4 DEF PairStep
  <2>2. CASE NextImportedCenter \/ FormImportedGrains
    BY <2>2 DEF NextImportedCenter, FormImportedGrains, graphVars
  <2>3. QED
    BY <1>1, <2>1, <2>2
<1>3. /\ FilesRead'
      /\ ClustersAre(DOMAIN clustersTable)' /\ LinksAre(DOMAIN transitionsTable)'
  BY <1>1, <1>2, GraphStays
<1>4. QED
  BY <1>1, <1>3 DEF ImportAt

----------------------------------------------------------------------------
(* Grains that were exported *)

Numbered == \A p \in DOMAIN clusters : clusters[p] = p - 1

\* Clusters that are to be joined get one root.
LEMMA BridgedRoots ==
    ASSUME PoolSound, superTransitions \in Seq(DOMAIN pool),
           NEW r, r = GrainRoot(DOMAIN clusters, EdgesOf(superTransitions))
    PROVE  \A a, b : Bridged(a, b) => r[a] = r[b]
<1>C. PICK C : C = DOMAIN clusters
  OBVIOUS
<1>n. PICK n : n = Len(superTransitions)
  OBVIOUS
<1>e. PICK edges : edges = EdgesOf(superTransitions)
  OBVIOUS
<1>1. n \in Nat /\ DOMAIN superTransitions = 1 .. n
  BY <1>n, LenProperties
<1>2. /\ DOMAIN edges = 1 .. n
      /\ \A k \in 1 .. n : /\ superTransitions[k] \in DOMAIN pool
                           /\ edges[k] = <<T(superTransitions[k]).c1, T(superTransitions[k]).c2>>
  BY <1>1, <1>e, <1>n, ElementOfSeq DEF EdgesOf
<1>3. \A k \in 1 .. n : edges[k] \in C \X C
  <2>1. \A u \in DOMAIN pool : T(u).c1 \in C /\ T(u).c2 \in C
    BY <1>C, SoundFacts
  <2>2. SUFFICES ASSUME NEW k \in 1 .. n PROVE edges[k] \in C \X C
    OBVIOUS
  <2>3. /\ T(superTransitions[k]).c1 \in C /\ T(superTransitions[k]).c2 \in C
        /\ edges[k] = <<T(superTransitions[k]).c1, T(superTransitions[k]).c2>>
    BY <1>2, <2>1
  <2>x. PICK x : x = T(superTransitions[k]).c1
    OBVIOUS
  <2>y. PICK y : y = T(superTransitions[k]).c2
    OBVIOUS
  <2>4. x \in C /\ y \in C /\ edges[k] = <<x, y>>
    BY <2>3, <2>x, <2>y
  <2>5. QED
    BY <2>4
<1>4. FP!Components(C, edges, n, r)
  BY <1>1, <1>2, <1>3, <1>C, <1>e, GrainRootComponents
<1>5. \A k \in 1 .. n : r[edges[k][1]] = r[edges[k][2]]
  BY <1>4 DEF FP!Components
<1>6. ASSUME NEW k \in 1 .. n
      PROVE  r[T(superTransitions[k]).c1] = r[T(superTransitions[k]).c2]
  BY <1>2, <1>5
<1>7. QED
  BY <1>1, <1>6 DEF Bridged

\* Clusters that the graph holds together get one root.
LEMMA TogetherJoined ==
    ASSUME PoolSound, structure \in [DOMAIN clusters -> Structure], Numbered, Joining,
           DOMAIN clusters = 1 .. Len(clusters), Len(clusters) \in Nat,
           center \notin DOMAIN clusters,
           NEW N, N = NamedClusters, NEW X, X = DirectTransitions,
           NEW a, NEW b, Together(N, X, a, b)
    PROVE  Bridged(a + 1, b + 1)
<1>C. PICK C : C = DOMAIN clusters
  OBVIOUS
<1>0. C \subseteq Nat /\ \A c \in C : clusters[c] = c - 1
  BY <1>C DEF Numbered
<1>1. PICK k \in DOMAIN Symmetries :
         /\ a # b /\ <<a, k>> \in N /\ <<b, k>> \in N
         /\ \E n \in N, x, y \in Tm :
               /\ n[2] # k /\ <<n[1], a, x>> \in X /\ <<n[1], b, y>> \in X
               /\ Mul(y, Inv(x)) \in Symmetries[k]
  BY DEF Together
<1>2. PICK n \in N, x \in Tm, y \in Tm :
         /\ n[2] # k /\ <<n[1], a, x>> \in X /\ <<n[1], b, y>> \in X
         /\ Mul(y, Inv(x)) \in Symmetries[k]
  BY <1>1
<1>3. PICK p \in C \ {1} : <<a, k>> = <<clusters[p], structure[p]>>
  BY <1>1, <1>C DEF NamedClusters
<1>4. PICK q \in C \ {1} : <<b, k>> = <<clusters[q], structure[q]>>
  BY <1>1, <1>C DEF NamedClusters
<1>5. PICK c \in C \ {1} : n = <<clusters[c], structure[c]>>
  BY <1>2, <1>C DEF NamedClusters
<1>6. PICK t \in DOMAIN pool :
         /\ T(t).distance = 1
         /\ <<n[1], a, x>> = <<clusters[T(t).c1], clusters[T(t).c2], T(t).tm>>
  BY <1>2 DEF DirectTransitions
<1>7. PICK s \in DOMAIN pool :
         /\ T(s).distance = 1
         /\ <<n[1], b, y>> = <<clusters[T(s).c1], clusters[T(s).c2], T(s).tm>>
  BY <1>2 DEF DirectTransitions
<1>8. /\ T(t).c1 \in C /\ T(t).c2 \in C /\ T(s).c1 \in C /\ T(s).c2 \in C
      /\ T(T(t).reverse).tm = Inv(T(t).tm)
  BY <1>C, SoundFacts
<1>9. /\ a = p - 1 /\ k = structure[p] /\ b = q - 1 /\ k = structure[q]
      /\ n[1] = c - 1 /\ n[2] = structure[c]
  BY <1>0, <1>3, <1>4, <1>5
<1>10. /\ T(t).c1 - 1 = c - 1 /\ T(t).c2 - 1 = p - 1 /\ T(t).tm = x
       /\ T(s).c1 - 1 = c - 1 /\ T(s).c2 - 1 = q - 1 /\ T(s).tm = y
  BY <1>0, <1>6, <1>7, <1>8, <1>9
<1>11. /\ p \in Nat /\ q \in Nat /\ c \in Nat
       /\ T(t).c1 \in Nat /\ T(t).c2 \in Nat /\ T(s).c1 \in Nat /\ T(s).c2 \in Nat
  BY <1>0, <1>8
<1>12. T(t).c1 = c /\ T(t).c2 = p /\ T(s).c1 = c /\ T(s).c2 = q
  <2>1. \A i, j \in Nat : i - 1 = j - 1 => i = j
    OBVIOUS
  <2>2. T(t).c1 = c /\ T(t).c2 = p
    BY <2>1, <1>10, <1>11, Zenon
  <2>3. T(s).c1 = c /\ T(s).c2 = q
    BY <2>1, <1>10, <1>11, Zenon
  <2>4. QED
    BY <2>2, <2>3
<1>13. p # q /\ a + 1 = p /\ b + 1 = q
  BY <1>1, <1>9, <1>11
<1>14. p # c /\ q # c /\ structure[c] # k /\ k # Other
  BY <1>1, <1>2, <1>9, SuperAssumption DEF SuperAssumption
<1>15. Misorientation(t, s) = Mul(y, Inv(x))
  BY <1>8, <1>10 DEF Misorientation
<1>16. ToBeJoined(t, s)
  BY <1>2, <1>6, <1>7, <1>9, <1>12, <1>13, <1>14, <1>15 DEF ToBeJoined, ToNamed
<1>17. c > 1 /\ c < center
  BY <1>C, <1>5, <1>11 DEF Joining
<1>18. QED
  BY <1>12, <1>13, <1>16, <1>17 DEF Joining

\* What held grains together when they were exported does so again.
LEMMA GrainsJoined ==
    ASSUME PoolSound, structure \in [DOMAIN clusters -> Structure], structure[1] = Other,
           Numbered, Joining, DOMAIN clusters = 1 .. Len(clusters), Len(clusters) \in Nat,
           center \notin DOMAIN clusters,
           NEW e, DOMAIN e = DOMAIN clusters, GrainsSpan(NamedClusters, DirectTransitions, e),
           NEW r, r = GrainRoot(DOMAIN clusters, EdgesOf(superTransitions)),
           NEW p \in DOMAIN clusters, NEW q \in DOMAIN clusters, e[p] = e[q], structure[p] # Other
    PROVE  r[p] = r[q]
<1>C. PICK C : C = DOMAIN clusters
  OBVIOUS
<1>N. PICK N : N = NamedClusters
  OBVIOUS
<1>X. PICK X : X = DirectTransitions
  OBVIOUS
<1>I. PICK I : I = {n[1] : n \in N}
  OBVIOUS
<1>1. C \subseteq Nat /\ \A c \in C : clusters[c] = c - 1
  BY <1>C DEF Numbered
<1>2. p # 1 /\ structure[p] \in DOMAIN Symmetries
  BY DEF Structure
<1>3. \A c \in C \ {1} : c - 1 \in I /\ <<c - 1, structure[c]>> \in N
  <2>1. \A c \in C \ {1} : <<c - 1, structure[c]>> \in N
    BY <1>1, <1>C, <1>N DEF NamedClusters
  <2>2. \A c \in C \ {1} : <<c - 1, structure[c]>>[1] = c - 1
    OBVIOUS
  <2>3. QED
    BY <2>1, <2>2, <1>I
<1>4. \A a \in I : a + 1 \in C \ {1} /\ (a + 1) - 1 = a
  <2>1. SUFFICES ASSUME NEW a \in I PROVE a + 1 \in C \ {1} /\ (a + 1) - 1 = a
    OBVIOUS
  <2>2. PICK n \in N : a = n[1]
    BY <1>I
  <2>3. PICK c \in C \ {1} : n = <<clusters[c], structure[c]>>
    BY <1>C, <1>N DEF NamedClusters
  <2>4. a = c - 1 /\ c \in Nat
    BY <1>1, <2>2, <2>3
  <2>5. QED
    BY <2>4
<1> DEFINE S == {a \in I : r[a + 1] = r[p]}
<1>5. \A a, b \in I : Together(N, X, a, b) => (a \in S <=> b \in S)
  <2>1. ASSUME NEW a \in I, NEW b \in I, Together(N, X, a, b) PROVE r[a + 1] = r[b + 1]
    <3>1. Bridged(a + 1, b + 1)
      BY <1>N, <1>X, <2>1, TogetherJoined
    <3>2. superTransitions \in Seq(DOMAIN pool)
      BY DEF Joining
    <3>3. QED
      BY <3>1, <3>2, BridgedRoots
  <2>2. QED
    BY <2>1
<1>6. S \in SUBSET I
  OBVIOUS
<1>7. p - 1 \in S
  <2>1. p \in C \ {1} /\ p \in Nat
    BY <1>1, <1>2, <1>C
  <2>2. p - 1 \in I
    BY <1>3, <2>1
  <2>3. (p - 1) + 1 = p
    BY <2>1
  <2>4. QED
    BY <2>2, <2>3
<1>8. GrainsSpan(N, X, e)
  BY <1>N, <1>X
<1> HIDE DEF S
<1>9. q - 1 \in S
  <2>1. \A u, v \in DOMAIN e :
           e[u] = e[v] /\ (\E s \in DOMAIN Symmetries : <<u - 1, s>> \in N)
           => (u - 1 \in S <=> v - 1 \in S)
    BY <1>5, <1>6, <1>8, <1>I DEF GrainsSpan
  <2>2. \E s \in DOMAIN Symmetries : <<p - 1, s>> \in N
    BY <1>2, <1>3, <1>C
  <2>3. QED
    BY <1>7, <2>1, <2>2
<1>10. (q - 1) + 1 = q
  BY <1>1, <1>C
<1>11. QED
  BY <1>9, <1>10 DEF S

----------------------------------------------------------------------------
(* The tables, from the analysis to the import *)

ImportPhases == {"clusters", "links", "join", "imported"}

\* Ids are given in the order of creation, and exported and imported in it.
NumberedAt ==
    exported # NotExported =>
        /\ phase \in ImportPhases => Numbered
        /\ phase = "clusters" => todo = Len(clusters) .. Len(clustersTable)

LEMMA StartImportNumbers ==
    ASSUME ExportAt, StartImport PROVE NumberedAt'
<1>1. /\ clusters' = <<0>> /\ clustersTable' = clustersTable /\ exported' = exported
      /\ phase' = "clusters" => todo' = DOMAIN clustersTable
  BY DEF StartImport, files
<1>2. Numbered'
  BY <1>1 DEF Numbered
<1>3. exported # NotExported => DOMAIN clustersTable = 1 .. Len(clustersTable)
  BY LenProperties DEF ExportAt, ExportSound, FilesRead
<1>4. QED
  BY <1>1, <1>2, <1>3 DEF NumberedAt

LEMMA ImportClusterNumbers ==
    ASSUME ExportAt, ImportAt, NumberedAt, ImportCluster PROVE NumberedAt'
<1>1. SUFFICES ASSUME exported' # NotExported, phase' \in ImportPhases
               PROVE  Numbered' /\ todo' = Len(clusters') .. Len(clustersTable')
  BY DEF NumberedAt, ImportPhases
<1>2. /\ phase = "clusters" /\ exported # NotExported /\ clustersTable' = clustersTable
      /\ todo = Len(clusters) .. Len(clustersTable) /\ Numbered
      /\ \A i \in DOMAIN clustersTable : clustersTable[i].id = i
      /\ clusters \in Seq(Nat) /\ Len(clusters) \in Nat /\ DOMAIN clusters = 1 .. Len(clusters)
      /\ Len(clustersTable) \in Nat /\ todo \subseteq DOMAIN clustersTable
  BY <1>1, LenProperties
  DEF ImportCluster, files, NumberedAt, ImportPhases, ExportAt, ExportSound, FilesRead, ImportAt,
      ClustersAre, MapSound
<1>3. PICK i \in todo :
         LET row == clustersTable[i] IN
         /\ \A j \in todo : row.id <= clustersTable[j].id
         /\ IF row.id <= 0 \/ G!FindCluster(row.id) # G!Null THEN Reject
            ELSE /\ G!ImportCluster(row.id)
                 /\ todo' = todo \ {i}
  BY <1>2 DEF ImportCluster
<1>4. ~Reject
  BY <1>1 DEF Reject, ImportPhases
<1>5. /\ G!ImportCluster(clustersTable[i].id) /\ todo' = todo \ {i}
      /\ \A j \in todo : i <= j /\ clustersTable[i].id = i
  BY <1>2, <1>3, <1>4
<1>n. PICK n : n = Len(clusters)
  OBVIOUS
<1>6. i = n
  <2>1. i \in n .. Len(clustersTable) /\ n \in todo /\ i <= n
    BY <1>2, <1>3, <1>5, <1>n
  <2>2. QED
    BY <1>2, <2>1, <1>n
<1>7. clusters' = Append(clusters, n)
  BY <1>3, <1>5, <1>6, <1>n DEF G!ImportCluster, G!CreateCluster
<1>8. /\ Len(clusters') = n + 1 /\ DOMAIN clusters' = 1 .. n + 1
      /\ clusters'[n + 1] = n /\ \A p \in 1 .. n : clusters'[p] = clusters[p]
  <2>1. /\ clusters' \in Seq(Nat) /\ Len(clusters') = n + 1
        /\ clusters'[n + 1] = n /\ \A p \in 1 .. n : clusters'[p] = clusters[p]
    BY <1>2, <1>7, <1>n, AppendProperties
  <2>2. QED
    BY <2>1, LenProperties
<1>9. Numbered'
  <2>1. ASSUME NEW p \in 1 .. n + 1 PROVE clusters'[p] = p - 1
    <3>1. CASE p = n + 1
      BY <1>2, <1>8, <1>n, <3>1
    <3>2. CASE p \in 1 .. n
      BY <1>2, <1>8, <1>n, <3>2 DEF Numbered
    <3>3. QED
      BY <1>2, <1>n, <3>1, <3>2
  <2>2. QED
    BY <1>8, <2>1 DEF Numbered
<1>10. todo' = Len(clusters') .. Len(clustersTable')
  BY <1>2, <1>5, <1>6, <1>8, <1>n
<1>11. QED
  BY <1>9, <1>10

LEMMA OthersNumber ==
    ASSUME NumberedAt,
           \/ StartLinking \/ ImportLink \/ StartJoining
           \/ (ImportAt /\ JoinImportedPair) \/ NextImportedCenter \/ FormImportedGrains
    PROVE  NumberedAt'
<1>1. /\ phase \in ImportPhases /\ phase' # "clusters" /\ exported' = exported
      /\ phase' \in ImportPhases => clusters' = clusters
  <2>1. CASE StartLinking \/ StartJoining \/ NextImportedCenter \/ FormImportedGrains
    BY <2>1 DEF StartLinking, StartJoining, NextImportedCenter, FormImportedGrains, graphVars,
       tableVars, ImportPhases
  <2>2. CASE ImportLink
    BY <2>2 DEF ImportLink, graphVars, Reject, ImportPhases
  <2>3. CASE JoinImportedPair
    BY <2>3 DEF JoinImportedPair, Join, graphVars, ImportPhases
  <2>4. QED
    BY <2>1, <2>2, <2>3
<1>2. QED
  BY <1>1 DEF NumberedAt, Numbered

LEMMA RowsCounted ==
    ASSUME FilesRead PROVE Cardinality(DOMAIN clustersTable) = Len(clustersTable)
<1>n. PICK n : n = Len(clustersTable)
  OBVIOUS
<1>1. DOMAIN clustersTable = 1 .. n /\ n \in Nat
  BY <1>n, LenProperties DEF FilesRead
<1>2. Cardinality(1 .. n) = n
  BY <1>1, FS_Interval
<1>3. QED
  BY <1>1, <1>2, <1>n

\* What joins the grains of an import.
LEMMA GrainsKeptFormed ==
    ASSUME ExportAt, ImportAt, JoinAt, NumberedAt, FormImportedGrains PROVE GrainsKept'
<1>1. SUFFICES ASSUME exported' # NotExported,
                      NEW p \in DOMAIN clusters', NEW q \in DOMAIN clusters',
                      exported'.root[p] = exported'.root[q], structure'[p] # Other
               PROVE  root'[p] = root'[q]
  BY DEF GrainsKept
<1>2. /\ phase = "join" /\ center \notin DOMAIN clusters
      /\ root' = GrainRoot(DOMAIN clusters, EdgesOf(superTransitions))
      /\ UNCHANGED <<clusters, structure, exported>>
  BY DEF FormImportedGrains, graphVars, tableVars
<1>3. /\ ExportSound /\ Numbered /\ Joining /\ exported # NotExported
      /\ ClustersAre(DOMAIN clustersTable) /\ LinksAre(DOMAIN transitionsTable) /\ PoolSound
      /\ FilesRead
  BY <1>1, <1>2 DEF ExportAt, NumberedAt, JoinAt, ImportAt, ImportPhases, LinksAre
<1>4. /\ structure \in [DOMAIN clusters -> Structure] /\ structure[1] = Other
      /\ DOMAIN clusters = 1 .. Len(clusters) /\ Len(clusters) \in Nat
  BY <1>3, LenProperties DEF ClustersAre, MapSound
<1>5. NamedClusters = exported.clusters /\ DirectTransitions = exported.transitions
  BY <1>3 DEF ExportSound, ClustersAre, LinksAre
<1>6. Cardinality(DOMAIN clustersTable) = Len(clustersTable)
  BY <1>3, RowsCounted
<1>7. DOMAIN exported.root = DOMAIN clusters
  BY <1>3, <1>4, <1>6 DEF ExportSound, ClustersAre
<1>e. PICK e : e = exported.root
  OBVIOUS
<1>8. GrainsSpan(NamedClusters, DirectTransitions, e) /\ DOMAIN e = DOMAIN clusters
  BY <1>3, <1>5, <1>7, <1>e DEF ExportSound
<1>r. PICK r : r = GrainRoot(DOMAIN clusters, EdgesOf(superTransitions))
  OBVIOUS
<1>9. r[p] = r[q]
  BY <1>1, <1>2, <1>3, <1>4, <1>8, <1>e, <1>r, GrainsJoined
<1>10. QED
  BY <1>2, <1>9, <1>r

\* Before the loops and after them, what they use does not change.
LEMMA OthersJoin ==
    ASSUME JoinAt,
           \/ Analyse
           \/ WriteClusters \/ WriteTransitions \/ ExportClustersFails \/ ExportTransitionsFails
           \/ StartImport \/ ImportCluster \/ StartLinking \/ ImportLink \/ FormImportedGrains
    PROVE  JoinAt'
<1>1. CASE \/ Analyse
           \/ WriteClusters \/ WriteTransitions \/ ExportClustersFails \/ ExportTransitionsFails
  <2>1. /\ phase \in {"form", "formed", "built", "half"}
        /\ phase' \in {"form", "formed", "built", "half", "exit"}
        /\ superTransitions' = superTransitions
    BY <1>1 DEF Analyse, tableVars, Next, JoinPair, AtDefect, NextCenter, FormGrains,
       DissolveSmallClusters, KeepSmallClusters, WriteClusters, WriteTransitions,
       ExportClustersFails, ExportTransitionsFails
  <2>2. QED
    BY <2>1 DEF JoinAt
<1>2. CASE StartImport
  BY <1>2 DEF StartImport, JoinAt
<1>3. CASE ImportCluster \/ StartLinking \/ ImportLink
  <2>1. /\ phase \in {"clusters", "links"} /\ phase' \in {"clusters", "links", "rejected"}
        /\ UNCHANGED <<center, pair, superTransitions>>
    BY <1>3 DEF ImportCluster, StartLinking, ImportLink, Reject
  <2>2. QED
    BY <2>1 DEF JoinAt
<1>4. CASE FormImportedGrains
  BY <1>4 DEF FormImportedGrains, JoinAt
<1>5. QED
  BY <1>1, <1>2, <1>3, <1>4

TablesInv ==
    /\ IInv /\ ExportAt /\ ImportAt /\ JoinAt /\ NumberedAt /\ GrainsKept

LEMMA TablesInit == Start => TablesInv
<1> SUFFICES ASSUME Start PROVE TablesInv
  OBVIOUS
<1>1. IInv /\ ExportAt
  BY InvariantInit, StartExportAt
<1>2. phase = "form" /\ superTransitions = <<>> /\ exported = NotExported
  BY DEF Start, Init
<1>3. ImportAt /\ JoinAt /\ NumberedAt /\ GrainsKept
  BY <1>2 DEF ImportAt, JoinAt, NumberedAt, GrainsKept
<1>4. QED
  BY <1>1, <1>3 DEF TablesInv

LEMMA GrainsElsewhere ==
    ASSUME Step, ~FormImportedGrains PROVE phase' # "imported"
BY DEF Step, Analyse, Next, JoinPair, AtDefect, NextCenter, FormGrains, DissolveSmallClusters,
       KeepSmallClusters, WriteClusters, WriteTransitions, ExportClustersFails,
       ExportTransitionsFails, StartImport, ImportCluster, StartLinking, ImportLink, Reject,
       StartJoining, JoinImportedPair, NextImportedCenter

LEMMA TablesStep == ASSUME TablesInv, Step PROVE TablesInv'
<1>0. IInv /\ ExportAt /\ ImportAt /\ JoinAt /\ NumberedAt /\ GrainsKept
  BY DEF TablesInv
<1>1. IInv'
  BY <1>0, InvariantStep
<1>2. CASE FormImportedGrains
  <2>1. ExportAt' /\ ImportAt' /\ JoinAt' /\ NumberedAt' /\ GrainsKept'
    BY <1>0, <1>2, ImportKeepsExport, JoiningAt, OthersJoin, OthersNumber, GrainsKeptFormed
    DEF ImportStep
  <2>2. QED
    BY <1>1, <2>1 DEF TablesInv
<1>3. ASSUME ~FormImportedGrains, ExportAt', ImportAt', JoinAt', NumberedAt' PROVE TablesInv'
  BY <1>1, <1>3, GrainsElsewhere DEF TablesInv, GrainsKept
<1>4. CASE \/ Analyse
           \/ WriteClusters \/ WriteTransitions \/ ExportClustersFails \/ ExportTransitionsFails
  <2>1. phase' \in {"form", "formed", "built", "half", "exit"}
    BY <1>4 DEF Analyse, Next, JoinPair, AtDefect, NextCenter, FormGrains, DissolveSmallClusters,
       KeepSmallClusters, WriteClusters, WriteTransitions, ExportClustersFails,
       ExportTransitionsFails
  <2>2. ImportAt' /\ NumberedAt' /\ JoinAt'
    <3>1. ImportAt' /\ NumberedAt'
      BY <2>1 DEF ImportAt, NumberedAt, ImportPhases
    <3>2. QED
      BY <1>0, <1>4, <3>1, OthersJoin
  <2>3. ExportAt'
    BY <1>0, <1>4, AnalyseAt, WriteAt
  <2>4. ~FormImportedGrains
    BY <2>1 DEF FormImportedGrains
  <2>5. QED
    BY <1>3, <2>2, <2>3, <2>4
<1>5. CASE StartImport \/ ImportCluster \/ StartLinking \/ ImportLink
  <2>1. ExportAt'
    BY <1>0, <1>5, ImportKeepsExport DEF ImportStep
  <2>2. ImportAt'
    BY <1>0, <1>5, StartImportAt, ImportClusterAt, StartLinkingAt, ImportLinkAt DEF ExportAt
  <2>3. JoinAt'
    BY <1>0, <1>5, OthersJoin
  <2>4. NumberedAt'
    BY <1>0, <1>5, StartImportNumbers, ImportClusterNumbers, OthersNumber
  <2>5. QED
    BY <1>2, <1>3, <2>1, <2>2, <2>3, <2>4
<1>6. CASE StartJoining \/ JoinImportedPair \/ NextImportedCenter
  <2>1. ExportAt'
    BY <1>0, <1>6, ImportKeepsExport DEF ImportStep
  <2>2. ImportAt'
    BY <1>0, <1>6, StartJoiningAt, JoiningAt
  <2>3. JoinAt'
    BY <1>0, <1>6, StartJoiningJoins, JoinImportedPairJoins, NextImportedCenterJoins
  <2>4. NumberedAt'
    BY <1>0, <1>6, OthersNumber
  <2>5. QED
    BY <1>2, <1>3, <2>1, <2>2, <2>3, <2>4
<1>7. QED
  BY <1>2, <1>4, <1>5, <1>6 DEF Step

LEMMA TablesStutter == ASSUME TablesInv, UNCHANGED vars PROVE TablesInv'
<1>0. IInv /\ ExportAt /\ ImportAt /\ JoinAt /\ NumberedAt /\ GrainsKept
  BY DEF TablesInv
<1>1. /\ UNCHANGED <<clusters, clusterMap, pool, transitions, clusterTransitions, disconnected,
                     structure, root, phase, center, pair, todo, superTransitions, exported>>
      /\ UNCHANGED <<clustersTable, transitionsTable>> /\ UNCHANGED files
  BY DEF vars, superVars, graphVars, tableVars, files
<1>2. IInv'
  BY <1>0, InvariantStep
<1>3. ExportAt'
  <2>1. exported' # NotExported => ExportSound' /\ phase' \notin AnalysisPhases
    BY <1>0, <1>1, ExportKept DEF ExportAt
  <2>2. phase' \in AnalysisPhases => AnalysisSound'
    <3>1. ASSUME AnalysisSound PROVE AnalysisSound'
      <4>1. GP!IInv'
        BY <1>1, <3>1, GraphInputs, GP!SameStep DEF AnalysisSound
      <4>2. QED
        BY <1>1, <3>1, <4>1, AnalysisKept
    <3>2. QED
      BY <1>0, <1>1, <3>1 DEF ExportAt
  <2>3. /\ NamedClusters' = NamedClusters /\ DirectTransitions' = DirectTransitions /\ Ids' = Ids
        /\ ClusterRows' = ClusterRows
    BY <1>1 DEF NamedClusters, DirectTransitions, Ids, T, ClusterRows
  <2>4. FilesTyped'
    BY <1>0, <1>1 DEF ExportAt, FilesTyped
  <2>5. QED
    BY <1>0, <1>1, <2>1, <2>2, <2>3, <2>4 DEF ExportAt
<1>D. PICK D : D = DOMAIN clustersTable
  OBVIOUS
<1>4. ASSUME NEW E, E \subseteq D, ClustersAre(E) PROVE ClustersAre(E)'
  BY <1>1, <1>4, ClustersKept
<1>5. ASSUME NEW E, LinksAre(E) PROVE LinksAre(E)'
  <2>1. PoolSound' /\ 2 # 1
    BY <1>1, <1>5 DEF PoolSound, LinksAre
  <2>2. QED
    BY <1>1, <1>5, <2>1, LinksKept
<1>6. ImportAt'
  <2>1. CASE phase = "clusters"
    <3>E. PICK E : E = DOMAIN clustersTable \ todo
      OBVIOUS
    <3>1. ClustersAre(E)'
      BY <1>0, <1>4, <1>D, <2>1, <3>E DEF ImportAt
    <3>2. ClustersAre(DOMAIN clustersTable \ todo)'
      BY <1>1, <3>1, <3>E
    <3>3. PoolSound' /\ \A t \in DOMAIN pool' : T(t)'.distance = 0
      BY <1>0, <1>1, <2>1 DEF ImportAt, PoolSound, T
    <3>4. FilesRead' /\ todo' \subseteq DOMAIN clustersTable'
      BY <1>0, <1>1, <2>1 DEF ImportAt, FilesRead
    <3>5. QED
      BY <1>1, <2>1, <3>2, <3>3, <3>4 DEF ImportAt
  <2>2. CASE phase = "links"
    <3>E. PICK E : E = DOMAIN transitionsTable \ todo
      OBVIOUS
    <3>1. LinksAre(E)' /\ ClustersAre(D)'
      BY <1>0, <1>4, <1>5, <1>D, <2>2, <3>E DEF ImportAt
    <3>2. LinksAre(DOMAIN transitionsTable \ todo)' /\ ClustersAre(DOMAIN clustersTable)'
      BY <1>1, <1>D, <3>1, <3>E
    <3>3. NearFirst' /\ FilesRead' /\ todo' \subseteq DOMAIN transitionsTable'
      BY <1>0, <1>1, <2>2 DEF ImportAt, FilesRead, NearFirst, T
    <3>4. QED
      BY <1>1, <2>2, <3>2, <3>3 DEF ImportAt
  <2>3. CASE phase \in {"join", "imported"}
    BY <1>0, <1>1, <2>3, GraphStays DEF ImportAt
  <2>4. CASE phase = "rejected"
    BY <1>0, <1>1, <2>4, FilesKept DEF ImportAt
  <2>5. QED
    BY <1>1, <2>1, <2>2, <2>3, <2>4 DEF ImportAt
<1>7. JoinAt'
  <2>1. ASSUME Joining PROVE Joining'
    <3>1. /\ \A t, s : ToBeJoined(t, s)' <=> ToBeJoined(t, s)
          /\ \A a, b : Bridged(a, b)' <=> Bridged(a, b)
          /\ \A t : T(t)' = T(t)
          /\ \A c, k : At(c, k)' = At(c, k)
      BY <1>1 DEF ToBeJoined, Bridged, T, ToNamed, Misorientation, At
    <3>2. QED
      BY <1>1, <2>1, <3>1 DEF Joining
  <2>2. QED
    BY <1>0, <1>1, <2>1 DEF JoinAt
<1>8. NumberedAt'
  BY <1>0, <1>1 DEF NumberedAt, Numbered
<1>9. GrainsKept'
  BY <1>0, <1>1 DEF GrainsKept
<1>10. QED
  BY <1>2, <1>3, <1>6, <1>7, <1>8, <1>9 DEF TablesInv

LEMMA TablesInvariant == TablesSpec => []TablesInv
<1>1. TablesInv /\ [Step]_vars => TablesInv'
  BY TablesStep, TablesStutter
<1>2. QED
  BY <1>1, TablesInit, PTL DEF TablesSpec

\* importClusterGraph takes tables if and only if they make sense, whatever
\* they hold and wherever the export that wrote them failed, and the graph it
\* makes of them has the clusters and the adjacencies that the rows say.
THEOREM ImportExactCorrect == TablesSpec => []ImportExact
<1>1. TablesInv => ImportExact
  <2>0. SUFFICES ASSUME TablesInv PROVE ImportExact
    OBVIOUS
  <2>1. ImportAt /\ FilesTyped
    BY <2>0 DEF TablesInv, ExportAt
  <2>2. CASE phase = "rejected"
    BY <2>1, <2>2 DEF ImportAt, ImportExact
  <2>3. CASE phase \in {"join", "imported"}
    <3>1. /\ FilesRead /\ ClustersAre(DOMAIN clustersTable) /\ LinksAre(DOMAIN transitionsTable)
      BY <2>1, <2>3 DEF ImportAt
    <3>2. Acceptable
      <4>1. NoFile \notin {clustersTable, transitionsTable}
        BY <2>1, <3>1, LoadedTyped
      <4>2. QED
        BY <3>1, <4>1 DEF Acceptable, ClustersAre, LinksAre
    <3>3. Len(clusters) = Len(clustersTable) + 1
      BY <3>1, RowsCounted DEF ClustersAre
    <3>4. NamedClusters = {<<clustersTable[i].id, clustersTable[i].structure>> :
                              i \in DOMAIN clustersTable}
      BY <3>1 DEF ClustersAre, Named
    <3>E. PICK E : E = DOMAIN transitionsTable
      OBVIOUS
    <3>R. PICK R : R = {transitionsTable[i] : i \in E}
      OBVIOUS
    <3>F. PICK F : F = {r \in R : r.distance = 1 /\ r.c1 # r.c2}
      OBVIOUS
    <3>5. DirectTransitions = {<<r.c1, r.c2, r.tm>> : r \in F}
                              \cup {<<r.c2, r.c1, Inv(r.tm)>> : r \in F}
      <4>1. DirectTransitions = {LinkOf(i) : i \in DirectRows(E)} \cup {BackOf(i) : i \in DirectRows(E)}
        BY <3>1, <3>E DEF LinksAre, LinksOf
      <4>2. F = {transitionsTable[i] : i \in DirectRows(E)}
        BY <3>R, <3>F DEF DirectRows
      <4>3. {LinkOf(i) : i \in DirectRows(E)} = {<<r.c1, r.c2, r.tm>> : r \in F}
        BY <4>2 DEF LinkOf
      <4>4. {BackOf(i) : i \in DirectRows(E)} = {<<r.c2, r.c1, Inv(r.tm)>> : r \in F}
        BY <4>2 DEF BackOf
      <4>5. QED
        BY <4>1, <4>3, <4>4
    <3>6. QED
      BY <2>3, <3>2, <3>3, <3>4, <3>5, <3>E, <3>R, <3>F DEF ImportExact
  <2>4. QED
    BY <2>2, <2>3 DEF ImportExact
<1>2. QED
  BY <1>1, TablesInvariant, PTL

\* What exportClusterGraph wrote to the end is never rejected, and the other
\* process gets the clusters and the adjacencies that were exported.
THEOREM RoundTripCorrect == TablesSpec => []RoundTrip
<1>1. TablesInv => RoundTrip
  <2>0. SUFFICES ASSUME TablesInv PROVE RoundTrip
    OBVIOUS
  <2>1. ExportAt /\ ImportAt
    BY <2>0 DEF TablesInv
  <2>2. QED
    BY <2>1 DEF ExportAt, ExportSound, ImportAt, ClustersAre, LinksAre, RoundTrip
<1>2. QED
  BY <1>1, TablesInvariant, PTL

\* Clusters that formSuperClusters made one grain are one grain again when
\* rebuildImportedClusterParentHierarchy has joined what was imported, unless
\* they were dissolved: although what joined them may have been dissolved
\* itself, and although the two join by different rules.
THEOREM GrainsKeptCorrect == TablesSpec => []GrainsKept
<1>1. TablesInv => GrainsKept
  BY DEF TablesInv
<1>2. QED
  BY <1>1, TablesInvariant, PTL
=============================================================================
