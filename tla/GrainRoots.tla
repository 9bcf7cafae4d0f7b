----------------------------- MODULE GrainRoots -----------------------------
(***************************************************************************)
(* The outcome of ClusterHierarchyUtils::rebuildParentHierarchy            *)
(* (cluster_hierarchy_rebuilder.h) for the question which cluster is the   *)
(* root of which: transitions are linked by rank, one after the other.     *)
(* SuperGrains has the steps; its run checks that they end here.           *)
(***************************************************************************)
EXTENDS Naturals, Sequences, SequencesExt

\* Everything under root r comes under root s.
Under(h, r, s) == [h EXCEPT !.root = [c \in DOMAIN @ |-> IF @[c] = r THEN s ELSE @[c]]]

LinkByRank(h, edge) ==
    LET r1 == h.root[edge[1]]
        r2 == h.root[edge[2]]
    IN  IF r1 = r2 THEN h
        ELSE IF h.rank[r1] > h.rank[r2] THEN Under(h, r2, r1)
        ELSE IF h.rank[r1] < h.rank[r2] THEN Under(h, r1, r2)
        ELSE [Under(h, r1, r2) EXCEPT !.rank[r2] = @ + 1]

\* The root of each cluster in Clusters after the edges, pairs of clusters.
GrainRoot(Clusters, edges) ==
    FoldLeft(LinkByRank, [root |-> [c \in Clusters |-> c], rank |-> [c \in Clusters |-> 0]],
             edges).root
=============================================================================
