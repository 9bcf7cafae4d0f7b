--------------------------- MODULE GrainPartition ---------------------------
(***************************************************************************)
(* What the super-cluster hierarchy promises, with no parent pointers, no  *)
(* ranks and no path compression: given a sequence of cluster transitions, *)
(* the clusters fall into grains, each with a root cluster, and every      *)
(* cluster knows the matrix that takes its frame to the frame of its root. *)
(***************************************************************************)
EXTENDS GrainInputs

VARIABLES transitions,   \* the sequence being processed
          processed,     \* how many of them have been
          grain,         \* for each cluster, its root and the matrix to it
          accepted       \* the processed transitions that joined two grains

abstractVars == <<transitions, processed, grain, accepted>>

Root(c) == grain[c].root
ToRoot(c) == grain[c].tm
Singletons == [c \in Cluster |-> [root |-> c, tm |-> Id]]

Init ==
    /\ transitions = <<>>
    /\ processed = 0
    /\ grain = Singletons
    /\ accepted = {}

\* A rebuild forgets the grains of the one before it.
Rebuild ==
    /\ processed = Len(transitions)
    /\ transitions' \in TransitionSeqs
    /\ processed' = 0
    /\ grain' = Singletons
    /\ accepted' = {}

\* The matrix between the roots that makes transition t exact.
Joint(t) == Mul(Mul(ToRoot(t.c2), t.tm), Inv(ToRoot(t.c1)))

\* The grain of root r becomes part of the grain of root s through matrix g.
Absorbed(r, s, g) ==
    [c \in Cluster |-> IF Root(c) = r THEN [root |-> s, tm |-> Mul(g, ToRoot(c))]
                       ELSE grain[c]]

\* A transition inside a grain changes nothing, one between two grains makes
\* them one; which root survives is not promised.
Process ==
    /\ processed < Len(transitions)
    /\ processed' = processed + 1
    /\ LET t == transitions[processed + 1]
           r1 == Root(t.c1)
           r2 == Root(t.c2)
       IN  \/ /\ r1 = r2
              /\ UNCHANGED <<grain, accepted>>
           \/ /\ r1 # r2
              /\ accepted' = accepted \cup {processed + 1}
              /\ \/ grain' = Absorbed(r1, r2, Joint(t))
                 \/ grain' = Absorbed(r2, r1, Inv(Joint(t)))
    /\ UNCHANGED transitions

Next == Process \/ Rebuild

Safety == Init /\ [][Next]_abstractVars
Spec == Safety /\ WF_abstractVars(Process)

----------------------------------------------------------------------------

PartitionTypeOK ==
    /\ transitions \in Seq(Transition)
    /\ processed \in 0 .. Len(transitions)
    /\ grain \in [Cluster -> [root : Cluster, tm : Tm]]
    /\ accepted \subseteq 1 .. processed

\* A set of clusters no processed transition leaves or enters.
Closed(S) ==
    \A i \in 1 .. processed : transitions[i].c1 \in S <=> transitions[i].c2 \in S

\* The grains are exactly the components of the graph of the processed
\* transitions: both ends of each are in one grain, and a grain never reaches
\* outside a set that no processed transition crosses.
GrainsExact ==
    /\ \A c \in Cluster : grain[Root(c)] = [root |-> Root(c), tm |-> Id]
    /\ \A i \in 1 .. processed : Root(transitions[i].c1) = Root(transitions[i].c2)
    /\ \A S \in SUBSET Cluster : Closed(S) => \A c \in S : Root(c) \in S

\* Through every transition that joined two grains, going to the root directly
\* or by way of the other end gives the same matrix, however many grains were
\* merged, re-rooted or compressed since.
TransportConsistent ==
    \A i \in accepted :
        LET t == transitions[i]
        IN  Mul(ToRoot(t.c2), t.tm) = ToRoot(t.c1)
=============================================================================
