------------------------- MODULE ClusterConnection -------------------------
(***************************************************************************)
(* Clusters are linked and the neighbour lists completed                   *)
(* (ClusterBuilder::connectClusters in                                     *)
(* src/analysis/cluster_graph_builder.cpp, which ends with                 *)
(* StructureAnalysis::appendNeighbors in src/analysis/                     *)
(* structure_analysis.cpp).  Every bond between atoms of two clusters is   *)
(* looked at: the first one with a misorientation links the clusters, it   *)
(* and the later ones are counted.  An atom without a cluster that occurs  *)
(* in the list of one with a cluster gets that one into its own list,      *)
(* unless it is full.                                                      *)
(*                                                                         *)
(* Symmetries and lattice vectors are reduced to group elements as in      *)
(* ClusterGrowth.                                                          *)
(***************************************************************************)
EXTENDS TransitionGroup, Integers, Sequences, FiniteSets

CONSTANTS NumAtoms,
          NumClusters,
          MaxNeighbors,      \* MAX_NEIGHBORS
          NoOverlap,
          Inputs             \* the analysis contexts the call can find

Atom == 1 .. NumAtoms
Cluster == 1 .. NumClusters
NoCluster == 0

Input == [cluster : [Atom -> Cluster \cup {NoCluster}],
          symmetry : [Atom -> Tm],             \* atoms of a cluster have one
          neighbors : [Atom -> Seq(Atom)],
          overlap : [Atom -> Seq(Tm \cup {NoOverlap})]]

Link == [c1 : Cluster, c2 : Cluster, tm : Tm, area : Nat]

ASSUME ConnectionAssumption ==
    /\ NumAtoms \in Nat \ {0} /\ NumClusters \in Nat /\ MaxNeighbors \in Nat
    /\ NoOverlap \notin Tm
    /\ Inputs \subseteq Input
    /\ \A in \in Inputs : \A a \in Atom : Len(in.overlap[a]) = Len(in.neighbors[a])

VARIABLES input,        \* what connectClusters finds
          neighbors,    \* the neighbour lists
          links,        \* the transitions created, in order, without their reverses
          extras,       \* the atoms to append to each list
          filtered,     \* appendNeighbors: those that are appended
          pc, atom, slot

vars == <<input, neighbors, links, extras, filtered, pc, atom, slot>>

Nothing == [a \in Atom |-> <<>>]

Init ==
    /\ input \in Inputs
    /\ neighbors = input.neighbors
    /\ links = <<>>
    /\ extras = Nothing /\ filtered = Nothing
    /\ pc = "scan" /\ atom = 1 /\ slot = 1

Occurs(x, seq) == \E k \in DOMAIN seq : seq[k] = x

----------------------------------------------------------------------------
(* connectClusters *)

Neighbor(a, n) == input.neighbors[a][n]

\* calculateMisorientation: lattice vectors permuted by a symmetry are those
\* turned by its transformation, so what the two neighbour lists determine is
\* turned by the symmetries of both atoms.  NoOverlap stands for every reason
\* to give up, a matrix that is not orthogonal included.
Misorientation(a, n) ==
    IF input.overlap[a][n] = NoOverlap THEN NoOverlap
    ELSE Mul(Mul(input.symmetry[Neighbor(a, n)], input.overlap[a][n]),
             Inv(input.symmetry[a]))

\* Variant: one direction only.
LinksForward(c, d) == {l \in DOMAIN links : links[l].c1 = c /\ links[l].c2 = d}

\* Links between two clusters, in either direction.
LinksBetween(c, d) == {l \in DOMAIN links : {links[l].c1, links[l].c2} = {c, d}}

\* Slot n of atom a leads from a cluster to another.
Crosses(a, n) ==
    /\ input.cluster[a] # NoCluster
    /\ input.cluster[Neighbor(a, n)] \notin {NoCluster, input.cluster[a]}

NextSlot == slot + 1

ScanOn == slot' = NextSlot /\ UNCHANGED <<input, neighbors, filtered, pc, atom>>

AtBond ==
    /\ pc = "scan" /\ atom \in Atom
    /\ input.cluster[atom] # NoCluster
    /\ slot <= Len(neighbors[atom])

NextAtom ==
    /\ pc = "scan" /\ atom \in Atom
    /\ input.cluster[atom] = NoCluster \/ slot > Len(neighbors[atom])
    /\ atom' = atom + 1 /\ slot' = 1
    /\ UNCHANGED <<input, neighbors, links, extras, filtered, pc>>

\* The neighbour is the atom itself or another atom of its cluster.
SkipInside ==
    /\ AtBond
    /\ input.cluster[Neighbor(atom, slot)] = input.cluster[atom]
    /\ UNCHANGED <<links, extras>> /\ ScanOn

RememberExtra ==
    /\ AtBond
    /\ input.cluster[Neighbor(atom, slot)] = NoCluster
    /\ extras' = [extras EXCEPT ![Neighbor(atom, slot)] = Append(@, atom)]
    /\ UNCHANGED links /\ ScanOn

\* The clusters at the two ends of the current bond.
Here == input.cluster[atom]
There == input.cluster[Neighbor(atom, slot)]

CountBond ==
    /\ AtBond /\ Crosses(atom, slot)
    /\ \E l \in LinksBetween(Here, There) :
          links' = [links EXCEPT ![l].area = @ + 1]
    /\ UNCHANGED extras /\ ScanOn

InitialAreaZero == 0               \* variant: the first bond is not counted
InitialArea == 1

LinkClusters ==
    /\ AtBond /\ Crosses(atom, slot)
    /\ LinksBetween(Here, There) = {}
    /\ Misorientation(atom, slot) # NoOverlap
    /\ links' = Append(links, [c1 |-> Here, c2 |-> There,
                               tm |-> Misorientation(atom, slot), area |-> InitialArea])
    /\ UNCHANGED extras /\ ScanOn

LeaveUnlinked ==
    /\ AtBond /\ Crosses(atom, slot)
    /\ LinksBetween(Here, There) = {}
    /\ Misorientation(atom, slot) = NoOverlap
    /\ UNCHANGED <<links, extras>> /\ ScanOn

----------------------------------------------------------------------------
(* appendNeighbors *)

StartAppending ==
    /\ pc = "scan" /\ atom \notin Atom
    /\ pc' = "append" /\ atom' = 1 /\ slot' = 1
    /\ UNCHANGED <<input, neighbors, links, extras, filtered>>

Appending == pc = "append" /\ atom \in Atom /\ Len(neighbors[atom]) <= MaxNeighbors

\* The exception leaves the links and the old lists.
BaseOverflow ==
    /\ pc = "append" /\ atom \in Atom
    /\ Len(neighbors[atom]) > MaxNeighbors
    /\ pc' = "failed"
    /\ UNCHANGED <<input, neighbors, links, extras, filtered, atom, slot>>

AlreadyListed(x, a) == Occurs(x, neighbors[a])      \* variant: old list only

AlreadyPresent(x, a) == Occurs(x, neighbors[a]) \/ Occurs(x, filtered[a])

DropExtra ==
    /\ Appending /\ slot <= Len(extras[atom])
    /\ AlreadyPresent(extras[atom][slot], atom)
    /\ slot' = NextSlot
    /\ UNCHANGED <<input, neighbors, links, extras, filtered, pc, atom>>

KeepExtra ==
    /\ Appending /\ slot <= Len(extras[atom])
    /\ ~AlreadyPresent(extras[atom][slot], atom)
    /\ filtered' = [filtered EXCEPT ![atom] = Append(@, extras[atom][slot])]
    /\ slot' = NextSlot
    /\ UNCHANGED <<input, neighbors, links, extras, pc, atom>>

AvailableSlotsLess(a) == MaxNeighbors - Len(neighbors[a]) - 1   \* variant

AvailableSlots(a) == MaxNeighbors - Len(neighbors[a])

Trimmed(a) ==
    IF Len(filtered[a]) > AvailableSlots(a)
    THEN SubSeq(filtered[a], 1, AvailableSlots(a)) ELSE filtered[a]

TrimExtras ==
    /\ Appending /\ slot > Len(extras[atom])
    /\ filtered' = [filtered EXCEPT ![atom] = Trimmed(atom)]
    /\ atom' = atom + 1 /\ slot' = 1
    /\ UNCHANGED <<input, neighbors, links, extras, pc>>

ReplaceLists ==
    /\ pc = "append" /\ atom \notin Atom
    /\ neighbors' = [a \in Atom |-> neighbors[a] \o filtered[a]]
    /\ pc' = "done"
    /\ UNCHANGED <<input, links, extras, filtered, atom, slot>>

Next ==
    \/ NextAtom \/ SkipInside \/ RememberExtra
    \/ CountBond \/ LinkClusters \/ LeaveUnlinked
    \/ StartAppending \/ BaseOverflow \/ DropExtra \/ KeepExtra \/ TrimExtras
    \/ ReplaceLists

Spec == Init /\ [][Next]_vars

----------------------------------------------------------------------------
(* Correctness *)

TypeOK ==
    /\ input \in Inputs
    /\ neighbors \in [Atom -> Seq(Atom)]
    /\ links \in Seq(Link)
    /\ extras \in [Atom -> Seq(Atom)]
    /\ filtered \in [Atom -> Seq(Atom)]
    /\ pc \in {"scan", "append", "done", "failed"}
    /\ atom \in 1 .. NumAtoms + 1
    /\ slot \in Nat \ {0}

\* Bonds are ordered as the scan meets them.
Bond == UNION {{a} \X DOMAIN input.neighbors[a] : a \in Atom}
Earlier(x, y) == x[1] < y[1] \/ (x[1] = y[1] /\ x[2] < y[2])
Scanned == IF pc = "scan" THEN {x \in Bond : Earlier(x, <<atom, slot>>)} ELSE Bond

Joins(x, c, d) ==
    /\ Crosses(x[1], x[2])
    /\ {input.cluster[x[1]], input.cluster[Neighbor(x[1], x[2])]} = {c, d}
Joinable(x) == Misorientation(x[1], x[2]) # NoOverlap

\* Two clusters are linked if and only if one of the bonds between them, from
\* either side, has a misorientation, and never twice.
LinksExact ==
    /\ \A c, d \in Cluster :
          (LinksBetween(c, d) # {}) <=> \E x \in Scanned : Joins(x, c, d) /\ Joinable(x)
    /\ \A c, d \in Cluster : \A k, l \in LinksBetween(c, d) : k = l

\* The first bond with a misorientation decides matrix and direction of the
\* link; the area counts it and all later bonds between the clusters.
FirstBondDecides ==
    \A l \in DOMAIN links : \E x \in Scanned :
        /\ links[l].c1 = input.cluster[x[1]]
        /\ links[l].c2 = input.cluster[Neighbor(x[1], x[2])]
        /\ links[l].tm = Misorientation(x[1], x[2])
        /\ \A y \in Scanned :
              Joins(y, links[l].c1, links[l].c2) /\ Earlier(y, x) => ~Joinable(y)
        /\ links[l].area = Cardinality({y \in Scanned :
              Joins(y, links[l].c1, links[l].c2) /\ ~Earlier(y, x)})

\* Atom a has a cluster, b has none and is in the list of a.
Asymmetric(a, b) ==
    /\ input.cluster[a] # NoCluster /\ input.cluster[b] = NoCluster
    /\ Occurs(b, input.neighbors[a])

\* In the end the atom without a cluster lists the one with a cluster, or its
\* list is full and what was appended to it came first in the scan.
ReverseAdjacency ==
    pc = "done" =>
        \A a, b \in Atom : Asymmetric(a, b) =>
            \/ Occurs(a, neighbors[b])
            \/ /\ Len(neighbors[b]) = MaxNeighbors
               /\ \A k \in DOMAIN neighbors[b] :
                     k > Len(input.neighbors[b]) => neighbors[b][k] < a

\* The old lists stay in front, and what is appended was not in the list, is
\* there once, and is a clustered atom that lists this one.  Atoms of clusters
\* keep their lists, and no list outgrows MAX_NEIGHBORS.
ListsExtended ==
    pc = "done" =>
        \A b \in Atom :
            /\ Len(neighbors[b]) \in Len(input.neighbors[b]) .. MaxNeighbors
            /\ \A k \in DOMAIN input.neighbors[b] : neighbors[b][k] = input.neighbors[b][k]
            /\ \A k \in DOMAIN neighbors[b] : k > Len(input.neighbors[b]) =>
                  /\ Asymmetric(neighbors[b][k], b)
                  /\ \A j \in DOMAIN neighbors[b] : neighbors[b][j] = neighbors[b][k] => j = k

\* The links as the cluster graph holds them: each with its reverse, in lists
\* in the order of creation.
Pool ==
    [p \in 1 .. 2 * Len(links) |->
        LET l == links[(p + 1) \div 2]
        IN  IF p % 2 = 1
            THEN [c1 |-> l.c1 + 1, c2 |-> l.c2 + 1, tm |-> l.tm,
                  reverse |-> p + 1, distance |-> 1]
            ELSE [c1 |-> l.c2 + 1, c2 |-> l.c1 + 1, tm |-> Inv(l.tm),
                  reverse |-> p - 1, distance |-> 1]]

Leaving(p) == {t \in DOMAIN Pool : Pool[t].c1 = p}

\* The number of S that k - 1 others are less than, and all in their order.
Nth(S, k) == CHOOSE s \in {t \in S : Cardinality({r \in S : r < t}) = k - 1} : TRUE
InOrder(S) == [k \in 1 .. Cardinality(S) |-> Nth(S, k)]

Graph == INSTANCE ClusterGraph
    WITH AutoIds <- TRUE, ImportIds <- {}, InputTm <- Tm, MaxClusters <- NumClusters + 1,
         MaxPool <- NumClusters * NumClusters, MaxDistance <- 2,
         clusters <- [p \in 1 .. NumClusters + 1 |-> p - 1],
         clusterMap <- [id \in 0 .. NumClusters |-> id + 1],
         pool <- Pool,
         transitions <- [p \in 1 .. NumClusters + 1 |-> InOrder(Leaving(p))],
         clusterTransitions <- [l \in DOMAIN links |-> 2 * l - 1],
         disconnected <- {},
         returned <- IF links = <<>> THEN 0 ELSE Len(Pool) - 1

\* Linking is what the cluster graph allows: a new pair of reverse transitions
\* between clusters that have none, and nothing else touches the graph.
ConnectsGraph ==
    [][\E a, b \in Graph!Pointers, tm \in Tm : Graph!Connect(a, b, tm)]_(Graph!vars)
=============================================================================
