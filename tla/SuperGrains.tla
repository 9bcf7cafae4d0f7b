---------------------------- MODULE SuperGrains ----------------------------
(***************************************************************************)
(* The super-cluster hierarchy as it is computed                           *)
(* (include/volt/analysis/cluster_hierarchy_rebuilder.h): a disjoint-set   *)
(* forest of parent transitions with union by rank and path compression,   *)
(* in which every link carries the matrix from a cluster to its parent.    *)
(*                                                                         *)
(* One action per loop iteration.  A parent transition is its far end and  *)
(* its matrix; concatenateClusterTransitions composes both (ClusterGraph   *)
(* models the transitions it creates on the way).                          *)
(***************************************************************************)
EXTENDS GrainInputs, GrainRoots

CONSTANT NoLink             \* nullptr

Link == [to : Cluster, tm : Tm]

ASSUME HierarchyAssumption == NoLink \notin Link

VARIABLES parent,        \* Cluster::parentTransition
          rank,          \* Cluster::rank
          transitions,   \* the transitions being processed
          pc,            \* the loop the rebuild is in, and its place in the body
          i,             \* the loop's position
          path,          \* parentTransition in the running getParentGrain
          grain,         \* history: root and matrix to it, see GrainPartition
          accepted       \* history: the transitions that joined two grains

vars == <<parent, rank, transitions, pc, i, path, grain, accepted>>

\* The transitions already processed.
Processed == IF pc \in {"find1", "find2", "link"} THEN i - 1 ELSE Len(transitions)

GP == INSTANCE GrainPartition WITH processed <- Processed,
                                   TransitionSeqs <- Seq(Transition)

Init ==
    /\ parent = [c \in Cluster |-> NoLink]
    /\ rank = [c \in Cluster |-> 0]
    /\ transitions = <<>>
    /\ pc = "idle"
    /\ i = 1
    /\ path = NoLink
    /\ grain = GP!Singletons
    /\ accepted = {}

\* The parents a rebuild starts from.
ResetParents == [c \in Cluster |-> NoLink]

\* rebuildParentHierarchy is called: all parents and ranks are reset.
Rebuild ==
    /\ pc = "idle"
    /\ transitions' \in TransitionSeqs
    /\ parent' = ResetParents
    /\ rank' = [c \in Cluster |-> 0]
    /\ pc' = IF transitions' = <<>> THEN "compress" ELSE "find1"
    /\ i' = 1
    /\ path' = NoLink
    /\ grain' = GP!Singletons
    /\ accepted' = {}

----------------------------------------------------------------------------
(* getParentGrain, called on each end of a transition and then on every    *)
(* cluster                                                                 *)

Finding == pc \in {"find1", "find2", "compress"}

\* The cluster the running call was made on.
Current ==
    CASE pc = "find1" -> transitions[i].c1
      [] pc = "find2" -> transitions[i].c2
      [] OTHER -> i

\* concatenateClusterTransitions on links: first, then second.
Concatenation(first, second) == [to |-> second.to, tm |-> Mul(second.tm, first.tm)]

Enter ==
    /\ Finding
    /\ path = NoLink
    /\ parent[Current] # NoLink
    /\ path' = parent[Current]
    /\ UNCHANGED <<parent, rank, transitions, pc, i, grain, accepted>>

Climb ==
    /\ Finding
    /\ path # NoLink
    /\ parent[path.to] # NoLink
    /\ path' = Concatenation(path, parent[path.to])
    /\ UNCHANGED <<parent, rank, transitions, pc, i, grain, accepted>>

\* Variant: the last loop does not move on.
AdvanceStuck ==
    \/ pc = "find1" /\ pc' = "find2" /\ i' = i
    \/ pc = "find2" /\ pc' = "link" /\ i' = i
    \/ pc = "compress" /\ i < NumClusters /\ pc' = "compress" /\ i' = i
    \/ pc = "compress" /\ i = NumClusters /\ pc' = "idle" /\ i' = 1

\* Where the caller goes on when getParentGrain returns.
Advance ==
    \/ /\ pc = "find1"
       /\ pc' = "find2" /\ i' = i
    \/ /\ pc = "find2"
       /\ pc' = "link" /\ i' = i
    \/ /\ pc = "compress" /\ i < NumClusters
       /\ pc' = "compress" /\ i' = i + 1
    \/ /\ pc = "compress" /\ i = NumClusters
       /\ pc' = "idle" /\ i' = 1

\* The call was made on a root.
ReturnSelf ==
    /\ Finding
    /\ path = NoLink
    /\ parent[Current] = NoLink
    /\ Advance
    /\ UNCHANGED <<parent, rank, transitions, path, grain, accepted>>

\* Variant: the composed path is returned but not stored.
NotCompressed(c) == parent

Compressed(c) == [parent EXCEPT ![c] = path]

\* The path reached a root: it becomes the parent transition of the cluster.
ReturnCompressed ==
    /\ Finding
    /\ path # NoLink
    /\ parent[path.to] = NoLink
    /\ parent' = Compressed(Current)
    /\ path' = NoLink
    /\ Advance
    /\ UNCHANGED <<rank, transitions, grain, accepted>>

----------------------------------------------------------------------------
(* The two grains of a transition are joined                               *)

\* What getParentGrain(c) returned, and the matrix on the way there.
Top(c) == IF parent[c] = NoLink THEN c ELSE parent[c].to
Up(c) == IF parent[c] = NoLink THEN Id ELSE parent[c].tm

NextTransition ==
    IF i < Len(transitions)
    THEN pc' = "find1" /\ i' = i + 1
    ELSE pc' = "compress" /\ i' = 1

SkipTransition ==
    /\ pc = "link"
    /\ Top(transitions[i].c1) = Top(transitions[i].c2)
    /\ NextTransition
    /\ UNCHANGED <<parent, rank, transitions, path, grain, accepted>>

\* Variant: the way up from c1 is not turned round.
RootToRootUpwards(t) == Mul(Mul(Up(t.c2), t.tm), Up(t.c1))

\* The matrix from the root of c1 to the root of c2 by way of the transition.
RootToRoot(t) == Mul(Mul(Up(t.c2), t.tm), Inv(Up(t.c1)))

NotReversed(g) == g                \* variant: the transition itself is stored
Unpromoted(p1, p2) == rank         \* variant: a tie leaves the ranks alone
\* The matrix of parentTransition->reverse.
Reversed(g) == Inv(g)

\* The ranks after p1 was hung under p2.
Promoted(p1, p2) ==
    IF rank[p1] = rank[p2] THEN [rank EXCEPT ![p2] = @ + 1] ELSE rank

\* The root of higher rank wins; on a tie the second root does and gains a rank.
LinkRoots ==
    LET t == transitions[i]
        p1 == Top(t.c1)
        p2 == Top(t.c2)
        g == RootToRoot(t)
    IN  /\ pc = "link"
        /\ p1 # p2
        /\ \/ /\ rank[p1] > rank[p2]
              /\ parent' = [parent EXCEPT ![p2] = [to |-> p1, tm |-> Reversed(g)]]
              /\ rank' = rank
              /\ grain' = GP!Absorbed(p2, p1, Inv(GP!Joint(t)))
           \/ /\ rank[p1] <= rank[p2]
              /\ parent' = [parent EXCEPT ![p1] = [to |-> p2, tm |-> g]]
              /\ rank' = Promoted(p1, p2)
              /\ grain' = GP!Absorbed(p1, p2, GP!Joint(t))
        /\ accepted' = accepted \cup {i}
        /\ NextTransition
        /\ UNCHANGED <<transitions, path>>

Work == Enter \/ Climb \/ ReturnSelf \/ ReturnCompressed \/ SkipTransition \/ LinkRoots

Next == Work \/ Rebuild

Spec == Init /\ [][Next]_vars /\ WF_vars(Work)

----------------------------------------------------------------------------
(* Correctness *)

TypeOK ==
    /\ parent \in [Cluster -> Link \cup {NoLink}]
    /\ rank \in [Cluster -> Nat]
    /\ transitions \in Seq(Transition)
    /\ pc \in {"idle", "find1", "find2", "link", "compress"}
    /\ i \in Nat \ {0}
    /\ pc \in {"find1", "find2", "link"} => i \in 1 .. Len(transitions)
    /\ pc = "compress" => i \in Cluster
    /\ path \in Link \cup {NoLink}
    /\ path # NoLink => Finding
    /\ grain \in [Cluster -> [root : Cluster, tm : Tm]]
    /\ accepted \subseteq 1 .. Processed

\* Ranks grow along parent transitions, compressed or not, so the loop in
\* getParentGrain can never go round a cycle.
RanksIncrease ==
    \A c \in Cluster : parent[c] # NoLink => rank[c] < rank[parent[c].to]

\* Link l leads from c to a cluster of its grain, and going to the root by way
\* of it gives the same matrix as going directly.
LinkSound(c, l) ==
    /\ GP!Root(l.to) = GP!Root(c)
    /\ GP!ToRoot(c) = Mul(GP!ToRoot(l.to), l.tm)

\* Parent transitions, at any moment of the rebuild, stay inside the grain and
\* carry the right matrix; the clusters without one are the roots.
ForestSound ==
    \A c \in Cluster :
        IF parent[c] = NoLink THEN grain[c] = [root |-> c, tm |-> Id]
        ELSE LinkSound(c, parent[c])

\* After a rebuild every parent transition leads to the root itself, with the
\* matrix of the whole way: getParentGrain needs no further step.
Flattened ==
    pc = "idle" =>
        \A c \in Cluster : Top(c) = GP!Root(c) /\ Up(c) = GP!ToRoot(c)

\* After a rebuild the grains are exactly the components of the graph of the
\* transitions: no chain of parents is left, both ends of every transition
\* have one root, and no grain reaches outside a set that no transition leaves.
HierarchyExact ==
    pc = "idle" =>
        /\ \A c \in Cluster : parent[Top(c)] = NoLink
        /\ \A k \in DOMAIN transitions : Top(transitions[k].c1) = Top(transitions[k].c2)
        /\ \A S \in SUBSET Cluster :
              (\A k \in DOMAIN transitions :
                  transitions[k].c1 \in S <=> transitions[k].c2 \in S)
              => \A c \in S : Top(c) \in S

\* After a rebuild, for every transition that joined two grains, going to the
\* root directly or by way of the other end gives the same matrix, however
\* many times either end was re-rooted and compressed since.
TransportConsistent ==
    pc = "idle" =>
        \A k \in accepted :
            LET t == transitions[k] IN Mul(Up(t.c2), t.tm) = Up(t.c1)

\* Climbing and compressing do not change which cluster becomes the root: it is
\* the one that linking by rank alone gives.
RootsByRank ==
    pc = "idle" =>
        LET edges == [k \in DOMAIN transitions |-> <<transitions[k].c1, transitions[k].c2>>]
        IN  \A c \in Cluster : Top(c) = GrainRoot(Cluster, edges)[c]

\* Root and matrix of each cluster as following the parent transitions gives
\* them, at any moment of the rebuild.
Resolved ==
    LET way[c \in Cluster] ==
            IF parent[c] = NoLink THEN [root |-> c, tm |-> Id]
            ELSE [root |-> way[parent[c].to].root,
                  tm |-> Mul(way[parent[c].to].tm, parent[c].tm)]
    IN  way

Promise == INSTANCE GrainPartition WITH processed <- Processed, grain <- Resolved,
                                        TransitionSeqs <- Seq(Transition)

\* The forest implements the partition: each transition changes the grains
\* once, when it is linked, and climbing or compressing changes nothing.
ImplementsPartition == Promise!Spec

\* Every rebuild ends.
RebuildEnds == pc # "idle" ~> pc = "idle"
=============================================================================
