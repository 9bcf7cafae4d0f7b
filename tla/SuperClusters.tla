--------------------------- MODULE SuperClusters ---------------------------
(***************************************************************************)
(* Crystals that meet the same defect clusters become grains               *)
(* (ClusterBuilder::formSuperClusters, processDefectCluster and            *)
(* dissolveSmallClusters in src/analysis/cluster_graph_builder.cpp), on    *)
(* the cluster graph that connectClusters leaves.  The graph and its       *)
(* operations are those of ClusterGraph; a Cluster pointer is a position   *)
(* in clusters, cluster 0 at position 1.                                   *)
(*                                                                         *)
(* The rebuild of the hierarchy is one step, with the roots of GrainRoots. *)
(* Transitions it derives have a distance of at least 2 and come after     *)
(* everything that is looked at here, so they are left out.                *)
(***************************************************************************)
EXTENDS TransitionGroup, Integers, Sequences, FiniteSets, SequencesExt, GrainRoots

CONSTANTS InputCrystal,      \* inputCrystalType
          Other,             \* LATTICE_OTHER, a cluster without a topology
          Symmetries,        \* the symmetries of each structure
          MinClusterSize,
          Inputs             \* what connectClusters can leave

Structure == DOMAIN Symmetries \cup {Other}

ASSUME SuperAssumption ==
    /\ Other \notin DOMAIN Symmetries /\ InputCrystal \in DOMAIN Symmetries
    /\ \A s \in DOMAIN Symmetries :
          /\ Symmetries[s] \subseteq Tm
          /\ \A a \in Symmetries[s] : Inv(a) \in Symmetries[s]
    /\ \A in \in Inputs :
          /\ in.structure \in Seq(DOMAIN Symmetries)
          /\ in.atomCount \in [DOMAIN in.structure -> Nat]
          /\ in.links \in Seq([c1 : DOMAIN in.structure, c2 : DOMAIN in.structure, tm : Tm])
          /\ \A k \in DOMAIN in.links : in.links[k].c1 # in.links[k].c2

VARIABLES clusters, clusterMap, pool, transitions, clusterTransitions,
          disconnected, returned,     \* the cluster graph
          structure,                  \* Cluster::structure
          atomCount,                  \* Cluster::atomCount
          root,                       \* the end of Cluster::parentTransition
          phase, center, pair,        \* the loops of formSuperClusters
          oldTransitionCount

graphVars == <<clusters, clusterMap, pool, transitions, clusterTransitions,
               disconnected, returned>>
superVars == <<graphVars, structure, atomCount, root, phase, center, pair,
               oldTransitionCount>>

G == INSTANCE ClusterGraph
    WITH AutoIds <- TRUE, ImportIds <- {}, InputTm <- Tm, MaxClusters <- 99, MaxPool <- 999,
         MaxDistance <- 2

T(t) == pool[t]

\* A graph to which connectClusters adds a link: a transition and its reverse.
WithLink(g, l) ==
    LET a == l.c1 + 1
        b == l.c2 + 1
        t == Len(g.pool) + 1
        pool2 == g.pool \o
            <<[c1 |-> a, c2 |-> b, tm |-> l.tm, reverse |-> t + 1, distance |-> 1],
              [c1 |-> b, c2 |-> a, tm |-> Inv(l.tm), reverse |-> t, distance |-> 1]>>
        first == [g.lists EXCEPT ![a] = G!Inserted(pool2, t, @)]
    IN  [pool |-> pool2,
         lists |-> [first EXCEPT ![b] = G!Inserted(pool2, t + 1, @)],
         published |-> Append(g.published, t)]

\* The graph of clusters 0 to n after the links.
ConnectedGraph(n, links) ==
    LET g[k \in 0 .. Len(links)] ==
            IF k = 0 THEN [pool |-> <<>>, lists |-> [p \in 1 .. n + 1 |-> <<>>], published |-> <<>>]
            ELSE WithLink(g[k - 1], links[k])
    IN  g[Len(links)]

Init ==
    \E in \in Inputs :
        LET n == Len(in.structure)
            g == ConnectedGraph(n, in.links) IN
        /\ clusters = [p \in 1 .. n + 1 |-> p - 1]
        /\ clusterMap = [id \in 0 .. n |-> id + 1]
        /\ pool = g.pool /\ transitions = g.lists /\ clusterTransitions = g.published
        /\ disconnected = {} /\ returned = G!Null
        /\ structure = <<Other>> \o in.structure
        /\ atomCount = <<0>> \o in.atomCount
        /\ root = [p \in 1 .. n + 1 |-> p]
        /\ phase = "form" /\ center = 2 /\ pair = <<0, 0>>
        /\ oldTransitionCount = Len(in.links)

----------------------------------------------------------------------------
(* formSuperClusters *)

\* The transition of cluster c at a place of its list.
At(c, k) == transitions[c][k]

\* Two places of a list, and the order in which the two loops come to them.
Places(list) == {x \in (DOMAIN list) \X (DOMAIN list) : x[1] < x[2]}
Before(x, y) == x[1] < y[1] \/ (x[1] = y[1] /\ x[2] < y[2])

\* The first of the pairs that the loops have not come to yet.
NextOf(pairs, x) ==
    /\ x \in pairs /\ Before(pair, x)
    /\ \A y \in pairs : Before(pair, y) => ~Before(y, x)

Finished(pairs) == \A x \in pairs : ~Before(pair, x)

\* A transition of a defect cluster to a crystal next to it.
ToCrystal(t) == structure[T(t).c2] = InputCrystal /\ T(t).distance = 1

DefectPairs(c) ==
    {x \in Places(transitions[c]) :
        /\ ToCrystal(At(c, x[1])) /\ ToCrystal(At(c, x[2]))
        /\ T(At(c, x[1])).c2 # T(At(c, x[2])).c2}

MisorientationAlong(t, s) == Mul(T(s).tm, T(t).tm)     \* variant: not reversed

\* From the end of t to the end of s, two transitions of one cluster.
Misorientation(t, s) == Mul(T(s).tm, T(T(t).reverse).tm)

\* The transition between the ends, if their misorientation is a symmetry.
Join(t, s, symmetries) ==
    LET a == T(t).c2
        b == T(s).c2
        tm == Misorientation(t, s)
    IN  IF tm \in symmetries
        THEN /\ G!CreateClusterTransition(a, b, tm, 2)
             /\ returned' = G!Created(a, b, tm)
             /\ UNCHANGED <<clusters, clusterMap>>
        ELSE UNCHANGED graphVars

AtDefect == phase = "form" /\ center \in DOMAIN clusters /\ structure[center] # InputCrystal

JoinPair ==
    /\ AtDefect
    /\ \E x \in Places(transitions[center]) :
          /\ NextOf(DefectPairs(center), x)
          /\ Join(At(center, x[1]), At(center, x[2]), Symmetries[InputCrystal])
          /\ pair' = x
    /\ UNCHANGED <<structure, atomCount, root, phase, center, oldTransitionCount>>

NextCenter ==
    /\ phase = "form" /\ center \in DOMAIN clusters
    /\ AtDefect => Finished(DefectPairs(center))
    /\ center' = center + 1 /\ pair' = <<0, 0>>
    /\ UNCHANGED <<graphVars, structure, atomCount, root, phase, oldTransitionCount>>

EdgesOf(ts) == [k \in DOMAIN ts |-> <<T(ts[k]).c1, T(ts[k]).c2>>]

\* The transitions created since the call.
SuperTransitions ==
    SubSeq(clusterTransitions, oldTransitionCount + 1, Len(clusterTransitions))

FormGrains ==
    /\ phase = "form" /\ center \notin DOMAIN clusters
    /\ root' = GrainRoot(DOMAIN clusters, EdgesOf(SuperTransitions))
    /\ phase' = "formed"
    /\ UNCHANGED <<graphVars, structure, atomCount, center, pair, oldTransitionCount>>

----------------------------------------------------------------------------
(* dissolveSmallClusters *)

OwnSize(c) == atomCount[c]        \* variant: its own atoms

\* The atoms of the root stand for the grain.
ClusterSize(c) == atomCount[root[c]]

DissolveSmallClusters ==
    /\ phase = "formed"
    /\ structure' = [c \in DOMAIN clusters |->
                        IF ClusterSize(c) < MinClusterSize THEN Other ELSE structure[c]]
    /\ phase' = "built"
    /\ UNCHANGED <<graphVars, atomCount, root, center, pair, oldTransitionCount>>

KeepSmallClusters ==
    /\ phase = "formed"
    /\ phase' = "built"
    /\ UNCHANGED <<graphVars, structure, atomCount, root, center, pair, oldTransitionCount>>

Next == JoinPair \/ NextCenter \/ FormGrains \/ DissolveSmallClusters \/ KeepSmallClusters

Spec == Init /\ [][Next]_superVars

----------------------------------------------------------------------------
(* Correctness *)

\* There is a transition of distance 1 from a to b with this matrix.
Direct(a, b, tm) ==
    \E t \in DOMAIN pool : /\ T(t).c1 = a /\ T(t).c2 = b
                           /\ T(t).tm = tm /\ T(t).distance = 1

\* Crystals a and b meet cluster d, which is none, with a misorientation that
\* is a symmetry and that no transition between them has already.
MeetAt(a, b, d) ==
    /\ a # b /\ structure[a] = InputCrystal /\ structure[b] = InputCrystal
    /\ structure[d] # InputCrystal
    /\ \E x, y \in Tm : /\ Direct(d, a, x) /\ Direct(d, b, y)
                        /\ Mul(y, Inv(x)) \in Symmetries[InputCrystal]
                        /\ ~Direct(a, b, Mul(y, Inv(x)))

\* Before any are dissolved, the grains are the components of the crystals
\* that meet at a defect, whatever the order of clusters and transitions.
GrainsMeetAtDefects ==
    phase = "formed" =>
        LET C == DOMAIN clusters
            meet == {x \in C \X C : \E d \in C : MeetAt(x[1], x[2], d)}
        IN  /\ \A c \in C : root[root[c]] = root[c]
            /\ \A x \in meet : root[x[1]] = root[x[2]]
            /\ \A S \in SUBSET C :
                  (\A x \in meet : x[1] \in S <=> x[2] \in S) => \A c \in S : root[c] \in S

\* A grain is dissolved as a whole or not at all, although each cluster is
\* judged for itself; and not if its root is large enough.
DissolvedTogether ==
    phase = "built" =>
        \A c \in DOMAIN clusters \ {1} :
            /\ structure[c] = structure[root[c]]
            /\ structure[c] = Other => atomCount[root[c]] < MinClusterSize
=============================================================================
