---------------------------- MODULE ClusterGraph ----------------------------
(***************************************************************************)
(* The cluster graph (src/structures/cluster_graph.cpp), used from one     *)
(* thread: clusters found by id, per-cluster lists of transitions kept     *)
(* sorted by distance, transitions created in mutually reverse pairs, and  *)
(* the cache of cluster pairs known to be disconnected.                    *)
(*                                                                         *)
(* A Cluster pointer is its position in clusters, a ClusterTransition      *)
(* pointer its position in pool.  Cluster 0 sits at position 1.            *)
(***************************************************************************)
EXTENDS TransitionGroup, Integers, Sequences, FiniteSets, SequencesExt

CONSTANTS AutoIds,        \* TRUE: ClusterBuilder::startNew numbers clusters itself
          ImportIds,      \* the ids a clusters table can hold
          InputTm,        \* the misorientations found between adjacent clusters
          MaxClusters,    \* bound: clusters ever created, cluster 0 included
          MaxPool,        \* bound: transitions ever created
          MaxDistance     \* bound: distance of a concatenation

ASSUME InputAssumption ==
    /\ AutoIds \in BOOLEAN
    /\ ImportIds \subseteq Nat \ {0}
    /\ InputTm \subseteq Tm
    /\ MaxClusters \in Nat \ {0} /\ MaxPool \in Nat /\ MaxDistance \in Nat

VARIABLES clusters,            \* _clusters: the id of each cluster, in creation order
          clusterMap,          \* _clusterMap: id to pointer
          pool,                \* every ClusterTransition ever constructed
          transitions,         \* Cluster::transitions, the list of each cluster
          clusterTransitions,  \* _clusterTransitions: one of each reverse pair
          disconnected,        \* _disconnectedClusters
          returned             \* the pointer the last call returned

vars == <<clusters, clusterMap, pool, transitions, clusterTransitions,
          disconnected, returned>>

Null == 0
MaximumClusterDistance == 2
Pointers == 2 .. Len(clusters)        \* the clusters other than cluster 0
T(t) == pool[t]

----------------------------------------------------------------------------
(* Clusters *)

\* Variant: the cluster at position id is not asked for its id.
FindClusterByPosition(id) ==
    IF id < Len(clusters) THEN id + 1
    ELSE IF id \in DOMAIN clusterMap THEN clusterMap[id]
    ELSE Null

\* The fast path accepts position id if the cluster stored there has that id.
FindCluster(id) ==
    IF id < Len(clusters) /\ clusters[id + 1] = id THEN id + 1
    ELSE IF id \in DOMAIN clusterMap THEN clusterMap[id]
    ELSE Null

CreateCluster(id) ==
    /\ clusters' = Append(clusters, id)
    /\ clusterMap' = IF id \in DOMAIN clusterMap THEN clusterMap
                     ELSE [i \in DOMAIN clusterMap \cup {id} |->
                              IF i = id THEN Len(clusters) + 1 ELSE clusterMap[i]]

----------------------------------------------------------------------------
(* Transitions *)

IsSelf(t) == T(t).reverse = t

\* Cluster::insertTransition: after the last element that is not farther.
Inserted(ts, t, list) ==
    LET nearer == {i \in DOMAIN list : ts[list[i]].distance <= ts[t].distance}
    IN  InsertAt(list, Cardinality(nearer) + 1, t)

\* Cluster::findTransition: the first transition of c that leads to d.
FirstTo(c, d) ==
    LET i == SelectInSeq(transitions[c], LAMBDA t : T(t).c2 = d)
    IN  IF i = 0 THEN Null ELSE transitions[c][i]

SelfOf(c) ==
    IF transitions[c] # <<>> /\ IsSelf(Head(transitions[c]))
    THEN Head(transitions[c]) ELSE Null

\* The transition that createClusterTransition finds and returns, if any.
ExistingTransition(a, b, tm) ==
    IF a = b /\ tm = Id THEN SelfOf(a)
    ELSE LET i == SelectInSeq(transitions[a],
                              LAMBDA t : T(t).c2 = b /\ T(t).tm = tm)
         IN  IF i = 0 THEN Null ELSE transitions[a][i]

CreateSelfTransition(c) ==
    IF SelfOf(c) # Null
    THEN UNCHANGED <<pool, transitions, clusterTransitions, disconnected>>
    ELSE LET t == Len(pool) + 1 IN
         /\ pool' = Append(pool, [c1 |-> c, c2 |-> c, tm |-> Id,
                                  reverse |-> t, distance |-> 0])
         /\ transitions' = [transitions EXCEPT ![c] = <<t>> \o @]
         /\ UNCHANGED <<clusterTransitions, disconnected>>

InverseForgotten(tm) == tm              \* variant: the reverse has the same matrix
CacheKept(distance) == IF distance = 1 THEN disconnected ELSE {}   \* variant

\* The matrix of the reverse transition.
ReverseTm(tm) == Inv(tm)

\* A transition between adjacent clusters opens paths: the cache is emptied.
CacheAfter(distance) == IF distance = 1 THEN {} ELSE disconnected

AddTransitionPair(a, b, tm, distance) ==
    LET ab == Len(pool) + 1
        ba == Len(pool) + 2
    IN  /\ pool' = pool \o <<[c1 |-> a, c2 |-> b, tm |-> tm,
                              reverse |-> ba, distance |-> distance],
                             [c1 |-> b, c2 |-> a, tm |-> ReverseTm(tm),
                              reverse |-> ab, distance |-> distance]>>
        /\ transitions' =
              LET first == [transitions EXCEPT ![a] = Inserted(pool', ab, @)]
              IN  [first EXCEPT ![b] = Inserted(pool', ba, @)]
        /\ clusterTransitions' = Append(clusterTransitions, ab)
        /\ disconnected' = CacheAfter(distance)

CreateClusterTransition(a, b, tm, distance) ==
    IF a = b /\ tm = Id THEN CreateSelfTransition(a)
    ELSE IF ExistingTransition(a, b, tm) # Null
    THEN UNCHANGED <<pool, transitions, clusterTransitions, disconnected>>
    ELSE AddTransitionPair(a, b, tm, distance)

\* The pointer createClusterTransition(a, b, tm, ...) returns.
Created(a, b, tm) ==
    IF ExistingTransition(a, b, tm) # Null
    THEN ExistingTransition(a, b, tm) ELSE Len(pool) + 1

----------------------------------------------------------------------------
(* Operations, as their callers use them *)

Init ==
    /\ clusters = <<0>>
    /\ clusterMap = [i \in {0} |-> 1]
    /\ pool = <<>>
    /\ transitions = <<<<>>>>
    /\ clusterTransitions = <<>>
    /\ disconnected = {}
    /\ returned = Null

\* ClusterBuilder::startNew: the next free position becomes the id.
StartNew ==
    /\ AutoIds
    /\ Len(clusters) < MaxClusters
    /\ CreateCluster(Len(clusters))
    /\ transitions' = Append(transitions, <<>>)
    /\ returned' = Len(clusters) + 1
    /\ UNCHANGED <<pool, clusterTransitions, disconnected>>

\* One row of a clusters table, rows sorted by id: the cluster and its self
\* transition.
ImportCluster(id) ==
    /\ Len(clusters) < MaxClusters
    /\ \A i \in DOMAIN clusters : clusters[i] <= id
    /\ FindCluster(id) = Null
    /\ CreateCluster(id)
    /\ LET c == Len(clusters) + 1
           t == Len(pool) + 1
       IN  /\ pool' = Append(pool, [c1 |-> c, c2 |-> c, tm |-> Id,
                                    reverse |-> t, distance |-> 0])
           /\ transitions' = Append(transitions, <<t>>)
           /\ returned' = t
    /\ Len(pool') <= MaxPool
    /\ UNCHANGED <<clusterTransitions, disconnected>>

\* connectClusters links a to an adjacent b it has no transition to yet.
Connect(a, b, tm) ==
    /\ a # b
    /\ FirstTo(a, b) = Null
    /\ CreateClusterTransition(a, b, tm, 1)
    /\ returned' = Created(a, b, tm)
    /\ Len(pool') <= MaxPool
    /\ UNCHANGED <<clusters, clusterMap>>

\* One row of a transitions table: several rows may join the same clusters.
ImportTransition(a, b, tm) ==
    /\ ImportIds # {}
    /\ a # b
    /\ CreateClusterTransition(a, b, tm, 1)
    /\ returned' = Created(a, b, tm)
    /\ Len(pool') <= MaxPool
    /\ UNCHANGED <<clusters, clusterMap>>

\* Two neighbours t.c2 and s.c2 of a defect cluster whose misorientation is a
\* symmetry are joined across it by a transition of distance 2.
JoinAcross(t, s) ==
    /\ T(t).c1 = T(s).c1 /\ T(t).c2 # T(s).c2
    /\ T(t).distance = 1 /\ T(s).distance = 1
    /\ LET tm == Mul(T(s).tm, T(T(t).reverse).tm)
       IN  /\ CreateClusterTransition(T(t).c2, T(s).c2, tm, 2)
           /\ returned' = Created(T(t).c2, T(s).c2, tm)
    /\ Len(pool') <= MaxPool
    /\ UNCHANGED <<clusters, clusterMap>>

ProductSwapped(t, s) == Mul(T(t).tm, T(s).tm)     \* variant: in path order

\* The matrix of going along t and then along s.
ProductAlong(t, s) == Mul(T(s).tm, T(t).tm)

Concatenate(t, s) ==
    /\ T(t).c2 = T(s).c1
    /\ T(t).distance + T(s).distance <= MaxDistance
    /\ \/ /\ IsSelf(s)
          /\ returned' = t
          /\ UNCHANGED <<pool, transitions, clusterTransitions, disconnected>>
       \/ /\ ~IsSelf(s) /\ IsSelf(t)
          /\ returned' = s
          /\ UNCHANGED <<pool, transitions, clusterTransitions, disconnected>>
       \/ /\ ~IsSelf(s) /\ ~IsSelf(t) /\ T(t).reverse = s
          /\ CreateSelfTransition(T(t).c1)
          /\ returned' = Created(T(t).c1, T(t).c1, Id)
       \/ /\ ~IsSelf(s) /\ ~IsSelf(t) /\ T(t).reverse # s
          /\ LET tm == ProductAlong(t, s)
             IN  /\ CreateClusterTransition(T(t).c1, T(s).c2, tm,
                                            T(t).distance + T(s).distance)
                 /\ returned' = Created(T(t).c1, T(s).c2, tm)
    /\ Len(pool') <= MaxPool
    /\ UNCHANGED <<clusters, clusterMap>>

\* No transition, or nothing but the self transition.
Isolated(c) == transitions[c] = <<>> \/ (SelfOf(c) # Null /\ Len(transitions[c]) = 1)

\* Two-hop candidates from lo to hi: positions in lo's list whose far end has
\* a transition to hi, of which the search takes the first one.
HopDistance(lo, hi, i) ==
    LET t == transitions[lo][i] IN T(t).distance + T(FirstTo(T(t).c2, hi)).distance

TwoHops(lo, hi) ==
    {i \in DOMAIN transitions[lo] :
        LET t == transitions[lo][i]
        IN  /\ T(t).c2 # lo
            /\ FirstTo(T(t).c2, hi) # Null
            /\ HopDistance(lo, hi, i) <= MaximumClusterDistance}

AsFound(t, reversedSearch) == t     \* variant: the pair stays in search order

\* The transition as the caller asked for it.
AsAsked(t, reversedSearch) == IF reversedSearch THEN pool'[t].reverse ELSE t

DetermineByPath(lo, hi, reversedSearch) ==
    LET i == CHOOSE i \in TwoHops(lo, hi) : \A j \in TwoHops(lo, hi) :
                    \/ HopDistance(lo, hi, i) < HopDistance(lo, hi, j)
                    \/ HopDistance(lo, hi, i) = HopDistance(lo, hi, j) /\ i <= j
        t  == transitions[lo][i]
        tm == ProductAlong(t, FirstTo(T(t).c2, hi))
    IN  /\ CreateClusterTransition(lo, hi, tm, HopDistance(lo, hi, i))
        /\ returned' = AsAsked(Created(lo, hi, tm), reversedSearch)

Determine(a, b) ==
    LET reversedSearch == clusters[a] > clusters[b]
        lo == IF reversedSearch THEN b ELSE a
        hi == IF reversedSearch THEN a ELSE b
        searched == a # b /\ FirstTo(a, b) = Null /\ ~Isolated(a) /\ ~Isolated(b)
    IN  /\ \/ /\ a = b
              /\ CreateSelfTransition(a)
              /\ returned' = Created(a, a, Id)
           \/ /\ a # b /\ FirstTo(a, b) # Null
              /\ returned' = FirstTo(a, b)
              /\ UNCHANGED <<pool, transitions, clusterTransitions, disconnected>>
           \/ /\ a # b /\ FirstTo(a, b) = Null
              /\ Isolated(a) \/ Isolated(b) \/ <<lo, hi>> \in disconnected
              /\ returned' = Null
              /\ UNCHANGED <<pool, transitions, clusterTransitions, disconnected>>
           \/ /\ searched /\ <<lo, hi>> \notin disconnected
              /\ TwoHops(lo, hi) # {}
              /\ DetermineByPath(lo, hi, reversedSearch)
           \/ /\ searched /\ <<lo, hi>> \notin disconnected
              /\ TwoHops(lo, hi) = {}
              /\ returned' = Null
              /\ disconnected' = disconnected \cup {<<lo, hi>>}
              /\ UNCHANGED <<pool, transitions, clusterTransitions>>
        /\ Len(pool') <= MaxPool
        /\ UNCHANGED <<clusters, clusterMap>>

Next ==
    \/ StartNew
    \/ \E id \in ImportIds : ImportCluster(id)
    \/ \E a, b \in Pointers, tm \in InputTm :
          Connect(a, b, tm) \/ ImportTransition(a, b, tm)
    \/ \E t, s \in DOMAIN pool : JoinAcross(t, s) \/ Concatenate(t, s)
    \/ \E a, b \in Pointers : Determine(a, b)

Spec == Init /\ [][Next]_vars

----------------------------------------------------------------------------
(* Correctness *)

TypeOK ==
    /\ clusters \in Seq(Nat) /\ Len(clusters) \in 1 .. MaxClusters
    /\ DOMAIN clusterMap = {clusters[p] : p \in DOMAIN clusters}
    /\ \A id \in DOMAIN clusterMap : clusterMap[id] \in DOMAIN clusters
    /\ pool \in Seq([c1 : Pointers, c2 : Pointers, tm : Tm,
                     reverse : DOMAIN pool, distance : Nat])
    /\ transitions \in Seq(Seq(DOMAIN pool)) /\ Len(transitions) = Len(clusters)
    /\ clusterTransitions \in Seq(DOMAIN pool)
    /\ disconnected \subseteq Pointers \X Pointers
    /\ returned \in Nat

\* Every lookup by id reaches the cluster that carries the id, through the
\* position fast path and through the map, whatever the numbering.
FindClusterExact ==
    \A p \in DOMAIN clusters : FindCluster(clusters[p]) = p

\* A transition and its reverse are each other's reverse, swap the clusters,
\* carry inverse matrices and the same distance; of each such pair exactly one
\* member is published in _clusterTransitions, and of self transitions none.
ReversePairs ==
    \A t \in DOMAIN pool :
        LET r == T(t).reverse IN
        /\ T(r).reverse = t
        /\ T(r).c1 = T(t).c2 /\ T(r).c2 = T(t).c1
        /\ Mul(T(r).tm, T(t).tm) = Id
        /\ T(r).distance = T(t).distance
        /\ (r = t) <=> (T(t).distance = 0)
        /\ Cardinality({i \in DOMAIN clusterTransitions :
                           clusterTransitions[i] \in {t, r}}) = IF r = t THEN 0 ELSE 1

\* Every transition is in the list of its first cluster, once, and the list is
\* sorted by distance, with the only self transition, if any, at its head.  The
\* search stops at the first hit and the self test looks at the head only.
ListsSorted ==
    \A c \in Pointers :
        LET list == transitions[c] IN
        /\ {t \in DOMAIN pool : T(t).c1 = c} = {list[i] : i \in DOMAIN list}
        /\ \A i, j \in DOMAIN list : i < j =>
              /\ list[i] # list[j]
              /\ T(list[i]).distance <= T(list[j]).distance
              /\ ~IsSelf(list[j])

\* Clusters a and b are joined by one or two transitions of distance 1.
WithinTwo(a, b) ==
    \E t \in DOMAIN pool : /\ T(t).c1 = a /\ T(t).distance = 1
                           /\ \/ T(t).c2 = b
                              \/ \E s \in DOMAIN pool : /\ T(s).distance = 1
                                                        /\ T(s).c1 = T(t).c2
                                                        /\ T(s).c2 = b

\* A cached pair stays disconnected as long as it is in the cache, so a later
\* question about it is answered correctly: whatever opens a way of two hops
\* clears it, and only longer transitions can be derived between the two.
DisconnectedSound ==
    \A p \in disconnected :
        /\ clusters[p[1]] < clusters[p[2]]
        /\ ~WithinTwo(p[1], p[2])
        /\ \A t \in DOMAIN pool :
              T(t).c1 = p[1] /\ T(t).c2 = p[2] => T(t).distance > MaximumClusterDistance

\* The walks of n transitions of distance 1, with the product of their matrices.
Walks[n \in 0 .. MaxDistance] ==
    IF n = 0 THEN {<<c, c, Id>> : c \in Pointers}
    ELSE UNION {{<<T(t).c1, w[2], Mul(w[3], T(t).tm)>> :
                    w \in {w \in Walks[n - 1] : w[1] = T(t).c2}} :
                        t \in {t \in DOMAIN pool : T(t).distance = 1}}

\* However it was derived, a transition of distance n is a walk over n
\* transitions between adjacent clusters and carries the walk's misorientation.
TransitionsAreWalks ==
    \A t \in DOMAIN pool : <<T(t).c1, T(t).c2, T(t).tm>> \in Walks[T(t).distance]

\* determineClusterTransition answers with a transition from a to b no longer
\* than any that existed or than two hops, and with none only if there is none.
DetermineAnswers ==
    [][\A a, b \in Pointers : (Determine(a, b) /\ a # b) =>
          IF returned' = Null THEN FirstTo(a, b) = Null /\ ~WithinTwo(a, b)
          ELSE LET r == pool'[returned'] IN
               /\ r.c1 = a /\ r.c2 = b
               /\ \A t \in DOMAIN pool :
                     T(t).c1 = a /\ T(t).c2 = b => r.distance <= T(t).distance
               /\ FirstTo(a, b) = Null => r.distance = 2]_vars

\* assert(inserted) in createCluster: the new id was not taken.
InsertSucceeds ==
    \A p, q \in DOMAIN clusters : clusters[p] = clusters[q] => p = q
=============================================================================
