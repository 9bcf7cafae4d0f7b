--------------------------- MODULE ClusterGrowth ---------------------------
(***************************************************************************)
(* Atoms are gathered into clusters                                        *)
(* (ClusterBuilder::buildClusterAssignments, grow and reorientAtomsToAlign *)
(* in src/analysis/cluster_graph_builder.cpp): every atom in turn seeds a  *)
(* cluster unless an earlier one took it, and the cluster grows breadth    *)
(* first over the neighbour lists.                                         *)
(*                                                                         *)
(* The geometry is reduced to group elements.  A symmetry index s stands   *)
(* for its transformation T(s), and lattice vector s-permuted(n) is T(s)   *)
(* times vector n, so the matrix the code compares with T(s) for the       *)
(* neighbour is T(symmetry of the current atom) times a matrix that the    *)
(* two neighbour lists alone determine: bond[a][n], or NoOverlap when a    *)
(* common neighbour is missing or the matrix is no symmetry.               *)
(***************************************************************************)
EXTENDS TransitionGroup, Integers, Sequences, FiniteSets

CONSTANTS NumAtoms,
          Types,             \* lattice structure types
          Other,             \* LATTICE_OTHER
          InputCrystalType,  \* AnalysisContext::inputCrystalType
          FallbackTypes,     \* structureRequiresOrientationFallback
          NoOverlap,
          Inputs             \* the analysis contexts a build can start from

Atom == 1 .. NumAtoms
NoSymmetry == -1
NoCluster == 0

Input == [type : [Atom -> Types \cup {Other}],
          neighbors : [Atom -> Seq(Atom)],     \* up to the coordination number
          bond : [Atom -> Seq(Tm \cup {NoOverlap})],
          allowed : [Atom -> SUBSET Tm],       \* atomAllowedSymmetryMasks
          symmetry : [Atom -> Tm \cup {NoSymmetry}],
          oriented : SUBSET Atom]              \* valid states of the rule provider

Cluster == [structure : Types, atomCount : Nat \ {0},
            symmetryTransformation : Tm, orientation : Tm]

ASSUME GrowthAssumption ==
    /\ NumAtoms \in Nat \ {0}
    /\ Other \notin Types
    /\ Tm \subseteq Nat
    /\ NoOverlap \notin Tm
    /\ Inputs \subseteq Input
    /\ \A in \in Inputs : \A a \in Atom : Len(in.bond[a]) = Len(in.neighbors[a])

VARIABLES input,              \* what does not change during the build
          structureTypes, atomClusters, atomSymmetry,
          clusters,           \* the graph's clusters, numbered from 1
          pc, seed,           \* buildClusterAssignments: the loop over seeds
          atomsToVisit, current, neighborIndex     \* grow

vars == <<input, structureTypes, atomClusters, atomSymmetry, clusters,
          pc, seed, atomsToVisit, current, neighborIndex>>

Init ==
    /\ input \in Inputs
    /\ structureTypes = input.type
    /\ atomSymmetry = input.symmetry
    /\ atomClusters = [a \in Atom |-> NoCluster]
    /\ clusters = <<>>
    /\ pc = "seeds" /\ seed = 1
    /\ atomsToVisit = <<>> /\ current = 1 /\ neighborIndex = 1

----------------------------------------------------------------------------
(* buildClusterAssignments: the next seed *)

AlreadyProcessed(a) == atomClusters[a] # NoCluster \/ structureTypes[a] = Other

\* The permutation a seed starts with: its own if allowed, or the first allowed.
InitialSymmetries(a) ==
    IF atomSymmetry[a] \in input.allowed[a] THEN {atomSymmetry[a]}
    ELSE {s \in input.allowed[a] : \A u \in input.allowed[a] : s <= u}

NextSeedStuck == seed              \* variant: the same seed again
NextSeed == seed + 1

SkipSeed ==
    /\ pc = "seeds" /\ seed \in Atom
    /\ AlreadyProcessed(seed)
    /\ seed' = NextSeed
    /\ UNCHANGED <<input, structureTypes, atomClusters, atomSymmetry, clusters,
                   pc, atomsToVisit, current, neighborIndex>>

\* Variant: the seed keeps its structure type.
WithoutStructureKept(a) == structureTypes

WithoutStructure(a) == [structureTypes EXCEPT ![a] = Other]

RejectSeed ==
    /\ pc = "seeds" /\ seed \in Atom
    /\ ~AlreadyProcessed(seed)
    /\ InitialSymmetries(seed) = {}
    /\ structureTypes' = WithoutStructure(seed)
    /\ seed' = NextSeed
    /\ UNCHANGED <<input, atomClusters, atomSymmetry, clusters,
                   pc, atomsToVisit, current, neighborIndex>>

\* startNew and initializeClusterSeed; the seed is the only atom to visit.
StartCluster ==
    /\ pc = "seeds" /\ seed \in Atom
    /\ ~AlreadyProcessed(seed)
    /\ \E s \in InitialSymmetries(seed) :
          atomSymmetry' = [atomSymmetry EXCEPT ![seed] = s]
    /\ clusters' = Append(clusters, [structure |-> structureTypes[seed], atomCount |-> 1,
                                     symmetryTransformation |-> Id, orientation |-> Id])
    /\ atomClusters' = [atomClusters EXCEPT ![seed] = Len(clusters) + 1]
    /\ atomsToVisit' = <<seed>>
    /\ pc' = "visit"
    /\ UNCHANGED <<input, structureTypes, seed, current, neighborIndex>>

----------------------------------------------------------------------------
(* grow *)

Growing == Len(clusters)

FirstNeighborSkipped == 2          \* variant: one slot too far
FirstNeighbor == 1

VisitNext ==
    /\ pc = "visit" /\ atomsToVisit # <<>>
    /\ current' = Head(atomsToVisit)
    /\ atomsToVisit' = Tail(atomsToVisit)
    /\ neighborIndex' = FirstNeighbor
    /\ pc' = "neighbors"
    /\ UNCHANGED <<input, structureTypes, atomClusters, atomSymmetry, clusters, seed>>

Neighbor(a, n) == input.neighbors[a][n]

\* The structure type that the cluster of atom a is grown with.
Structure(a) == clusters[atomClusters[a]].structure

\* The orientation rule provider decides about a bond between two atoms whose
\* orientation it knows; its empty mask allows every symmetry.
Handled(a, b) == {a, b} \subseteq input.oriented /\ Structure(a) \in FallbackTypes

AllowedSymmetries(a, b) ==
    IF Handled(a, b) /\ input.allowed[b] = {} THEN Tm ELSE input.allowed[b]

\* The symmetry that the bond implies for the neighbour.  The provider looks for
\* the symmetry that turns the neighbour's orientation into the current atom's
\* up to 25 degrees; distinct symmetries being farther apart than twice that,
\* at most one does, and it is a product of the same form.
CarriedAlong(a, n) == Mul(atomSymmetry[a], input.bond[a][n])

FreeAlways(b) == TRUE              \* variant: atoms are taken from any cluster
Free(b) == atomClusters[b] = NoCluster

\* The bond continues the crystal that atom a is in.
Continues(a, n) ==
    LET b == Neighbor(a, n) IN
    /\ b # a
    /\ structureTypes[b] = Structure(a)
    /\ input.bond[a][n] # NoOverlap
    /\ CarriedAlong(a, n) \in AllowedSymmetries(a, b)

\* Variant: the neighbour takes the symmetry of the current atom.
SymmetryCopied(a, n) == atomSymmetry[a]

NewSymmetry(a, n) == CarriedAlong(a, n)

Assign ==
    /\ pc = "neighbors" /\ neighborIndex <= Len(input.neighbors[current])
    /\ Free(Neighbor(current, neighborIndex))
    /\ Continues(current, neighborIndex)
    /\ LET b == Neighbor(current, neighborIndex) IN
       /\ atomClusters' = [atomClusters EXCEPT ![b] = Growing]
       /\ atomSymmetry' = [atomSymmetry EXCEPT ![b] = NewSymmetry(current, neighborIndex)]
       /\ atomsToVisit' = Append(atomsToVisit, b)
    /\ clusters' = [clusters EXCEPT ![Growing].atomCount = @ + 1]
    /\ neighborIndex' = neighborIndex + 1
    /\ UNCHANGED <<input, structureTypes, pc, seed, current>>

LeaveOut ==
    /\ pc = "neighbors" /\ neighborIndex <= Len(input.neighbors[current])
    /\ ~(Free(Neighbor(current, neighborIndex)) /\ Continues(current, neighborIndex))
    /\ neighborIndex' = neighborIndex + 1
    /\ UNCHANGED <<input, structureTypes, atomClusters, atomSymmetry, clusters,
                   pc, seed, atomsToVisit, current>>

EndNeighbors ==
    /\ pc = "neighbors" /\ neighborIndex > Len(input.neighbors[current])
    /\ pc' = "visit"
    /\ UNCHANGED <<input, structureTypes, atomClusters, atomSymmetry, clusters,
                   seed, atomsToVisit, current, neighborIndex>>

----------------------------------------------------------------------------
(* The cluster is finished; after the last seed the atoms are reoriented    *)

\* applyPreferredOrientation may turn a cluster of the input crystal by any
\* symmetry: which one comes closest to a preferred orientation depends on the
\* positions.
PreferredTransformations(c) ==
    IF clusters[c].structure = InputCrystalType THEN Tm ELSE {Id}

\* The fitted orientation counts as Id.
CloseCluster ==
    /\ pc = "visit" /\ atomsToVisit = <<>>
    /\ \E t \in PreferredTransformations(Growing) :
          clusters' = [clusters EXCEPT ![Growing] =
                          [@ EXCEPT !.symmetryTransformation = t, !.orientation = Inv(t)]]
    /\ seed' = NextSeed
    /\ pc' = "seeds"
    /\ UNCHANGED <<input, structureTypes, atomClusters, atomSymmetry,
                   atomsToVisit, current, neighborIndex>>

\* calculateSymmetryProducts: inverseProduct[t] of symmetry s.
InverseProductSwapped(s, t) == Mul(s, Inv(t))      \* variant
SymmetryInverseProduct(s, t) == Mul(Inv(t), s)

Transformation(a) == clusters[atomClusters[a]].symmetryTransformation

ReorientAtomsToAlign ==
    /\ pc = "seeds" /\ seed \notin Atom
    /\ atomSymmetry' =
          [a \in Atom |->
              IF atomClusters[a] = NoCluster \/ atomSymmetry[a] = NoSymmetry
              THEN atomSymmetry[a]
              ELSE SymmetryInverseProduct(atomSymmetry[a], Transformation(a))]
    /\ pc' = "done"
    /\ UNCHANGED <<input, structureTypes, atomClusters, clusters,
                   seed, atomsToVisit, current, neighborIndex>>

Next ==
    \/ SkipSeed \/ RejectSeed \/ StartCluster
    \/ VisitNext \/ Assign \/ LeaveOut \/ EndNeighbors
    \/ CloseCluster \/ ReorientAtomsToAlign

Spec == Init /\ [][Next]_vars /\ WF_vars(Next)
----------------------------------------------------------------------------
(* Correctness *)

TypeOK ==
    /\ input \in Inputs
    /\ structureTypes \in [Atom -> Types \cup {Other}]
    /\ clusters \in Seq(Cluster)
    /\ atomClusters \in [Atom -> 0 .. Len(clusters)]
    /\ atomSymmetry \in [Atom -> Tm \cup {NoSymmetry}]
    /\ \A a \in Atom : atomClusters[a] # NoCluster => atomSymmetry[a] \in Tm
    /\ pc \in {"seeds", "visit", "neighbors", "done"}
    /\ seed \in 1 .. NumAtoms + 1
    /\ pc \in {"visit", "neighbors"} => seed \in Atom /\ clusters # <<>>
    /\ atomsToVisit \in Seq(Atom)
    /\ current \in Atom
    /\ neighborIndex \in Nat \ {0}

Members(c) == {a \in Atom : atomClusters[a] = c}

\* The atom count of a cluster, which decides whether it is dissolved, is the
\* number of atoms labelled with it, at every moment of the growth.
AtomCountExact ==
    \A c \in DOMAIN clusters : clusters[c].atomCount = Cardinality(Members(c))

\* Bond n of atom a leads to b with the symmetry that b has.
Carries(a, n, b) ==
    /\ n \in DOMAIN input.neighbors[a] /\ Neighbor(a, n) = b
    /\ input.bond[a][n] # NoOverlap
    /\ atomSymmetry[b] = CarriedAlong(a, n)

\* A cluster is one crystal: it cannot be divided so that no bond leads across
\* with the symmetries of its two atoms, away from the part with the seed, its
\* first atom.  Reorientation turns all its atoms alike.
SymmetryCarried ==
    \A c \in DOMAIN clusters : \E root \in Members(c) :
        \A S \in SUBSET (Members(c) \ {root}) :
            S # {} => \E a \in Members(c) \ S, b \in S :
                          \E n \in DOMAIN input.neighbors[a] : Carries(a, n, b)

\* The slots of atom a that grow has looked at.
Tried(a) ==
    IF atomClusters[a] = NoCluster \/ \E i \in DOMAIN atomsToVisit : atomsToVisit[i] = a
    THEN {}
    ELSE IF pc = "neighbors" /\ a = current THEN 1 .. neighborIndex - 1
    ELSE DOMAIN input.neighbors[a]

\* Growth misses nothing: an atom that continues the crystal of a neighbour is
\* in the neighbour's cluster or was taken by an earlier one.
Exhaustive ==
    pc # "done" =>
        \A a \in Atom : \A n \in Tried(a) :
            Continues(a, n) => atomClusters[Neighbor(a, n)] \in 1 .. atomClusters[a]

\* In the end every atom is in a cluster of its own structure type, or has the
\* type LATTICE_OTHER and no cluster.  Those that lost their type could not
\* have been seeds.
EveryAtomSettled ==
    pc = "done" =>
        \A a \in Atom :
            IF structureTypes[a] = Other
            THEN /\ atomClusters[a] = NoCluster
                 /\ input.type[a] # Other => input.allowed[a] = {}
            ELSE /\ atomClusters[a] # NoCluster
                 /\ structureTypes[a] = Structure(a)

\* An atom is assigned once: its cluster, and its type once it is in a cluster,
\* never change, and only the reorientation changes its symmetry.
AssignedOnce ==
    [][\A a \in Atom : atomClusters[a] # NoCluster =>
          /\ atomClusters'[a] = atomClusters[a]
          /\ structureTypes'[a] = structureTypes[a]
          /\ pc' # "done" => atomSymmetry'[a] = atomSymmetry[a]]_vars

\* Where the transformation is its own inverse, the turned orientation and the
\* turned symmetries describe each atom as before.  The code applies the
\* inverse to both, so this does not extend to other transformations.
FramesKept ==
    [][pc # "done" /\ pc' = "done" =>
          \A a \in Atom :
              (atomClusters[a] # NoCluster /\ Mul(Transformation(a), Transformation(a)) = Id)
              => Mul(clusters[atomClusters[a]].orientation, atomSymmetry'[a]) = atomSymmetry[a]]_vars

\* Every atom is reached and the build ends.
BuildEnds == <>(pc = "done")
=============================================================================
