---------------------------- MODULE GrainInputs ----------------------------
(***************************************************************************)
(* What a rebuild of the super-cluster hierarchy starts from: clusters,    *)
(* and a sequence of transitions between them.                             *)
(***************************************************************************)
EXTENDS TransitionGroup, Naturals, Sequences, FiniteSets

CONSTANTS NumClusters,      \* clusters other than cluster 0
          TransitionSeqs    \* the inputs of rebuildParentHierarchy

Cluster == 1 .. NumClusters
Transition == [c1 : Cluster, c2 : Cluster, tm : Tm]

ASSUME PartitionAssumption ==
    /\ NumClusters \in Nat \ {0}
    /\ TransitionSeqs \subseteq Seq(Transition)
=============================================================================
