------------------------- MODULE SuperGrainsProofs -------------------------
(***************************************************************************)
(* The parent-transition forest keeps its promise for any number of        *)
(* clusters, any group of matrices and any input transitions.              *)
(*                                                                         *)
(* The inductive invariant adds to RanksIncrease and ForestSound what the  *)
(* running getParentGrain call knows (PathSound) and which calls have      *)
(* already been answered (PhaseSound).  That the roots are those of linking *)
(* by rank alone (GrainRoots, a fold) is a second invariant, Ranked: a     *)
(* function h with the forest after each number of edges, whose value at   *)
(* the transitions processed so far is what the rebuild has.               *)
(***************************************************************************)
EXTENDS SuperGrains, FiniteSetTheorems, WellFoundedInduction, TLAPS

\* The path of a running call starts at the cluster it was made on.
PathSound ==
    path # NoLink => /\ parent[Current] # NoLink
                     /\ rank[Current] < rank[path.to]
                     /\ LinkSound(Current, path)

\* The parent transition of c leads to a root, or c is one.
Settled(c) == parent[Top(c)] = NoLink

PhaseSound ==
    /\ pc \in {"find2", "link"} => Settled(transitions[i].c1)
    /\ pc = "link" => Settled(transitions[i].c2)
    /\ pc = "compress" => \A c \in 1 .. i - 1 : Settled(c)
    /\ pc = "idle" => \A c \in Cluster : Settled(c)

IInv == RanksIncrease /\ ForestSound /\ PathSound /\ PhaseSound

----------------------------------------------------------------------------
(* Types *)

\* The matrix product is associative.
LEMMA MulAssociative ==
    ASSUME NEW a \in Tm, NEW b \in Tm, NEW c \in Tm
    PROVE  Mul(Mul(a, b), c) = Mul(a, Mul(b, c))
BY GroupAxioms

\* The transition at position i is one of the input's.
LEMMA TransitionAt ==
    ASSUME TypeOK, pc \in {"find1", "find2", "link"}
    PROVE  /\ i \in 1 .. Len(transitions)
           /\ transitions[i] \in Transition
           /\ transitions[i].c1 \in Cluster
           /\ transitions[i].c2 \in Cluster
           /\ transitions[i].tm \in Tm
<1>1. i \in 1 .. Len(transitions) /\ transitions[i] \in Transition
  BY DEF TypeOK
<1>2. QED
  BY <1>1 DEF Transition

\* getParentGrain is only called on clusters.
LEMMA CurrentType ==
    ASSUME TypeOK, Finding
    PROVE  Current \in Cluster
<1>1. CASE pc = "compress"
  BY <1>1 DEF TypeOK, Current
<1>2. CASE pc \in {"find1", "find2"}
  BY <1>2, TransitionAt DEF Current
<1>3. QED
  BY <1>1, <1>2 DEF Finding

\* The far end and the matrix of a parent transition.
LEMMA LinkType ==
    ASSUME TypeOK, NEW l \in Link
    PROVE  /\ l.to \in Cluster /\ l.tm \in Tm
           /\ l # NoLink
           /\ l = [to |-> l.to, tm |-> l.tm]
BY PartitionAssumption, HierarchyAssumption DEF Link

\* What getParentGrain returned is a cluster, with a matrix to it.
LEMMA TopType ==
    ASSUME TypeOK, NEW c \in Cluster
    PROVE  Top(c) \in Cluster /\ Up(c) \in Tm
<1>1. parent[c] \in Link \cup {NoLink}
  BY DEF TypeOK
<1>2. QED
  BY <1>1, LinkType, GroupAxioms DEF Top, Up

\* The matrix between two roots is well defined, and so is its inverse.
LEMMA RootToRootType ==
    ASSUME TypeOK, NEW t \in Transition
    PROVE  /\ RootToRoot(t) \in Tm /\ Inv(RootToRoot(t)) \in Tm
           /\ Top(t.c1) \in Cluster /\ Top(t.c2) \in Cluster
<1>1. t.c1 \in Cluster /\ t.c2 \in Cluster /\ t.tm \in Tm
  BY DEF Transition
<1>2. /\ Up(t.c1) \in Tm /\ Up(t.c2) \in Tm
      /\ Top(t.c1) \in Cluster /\ Top(t.c2) \in Cluster
  BY <1>1, TopType
<1>3. Inv(Up(t.c1)) \in Tm /\ Mul(Up(t.c2), t.tm) \in Tm
  BY <1>1, <1>2, GroupAxioms
<1>4. QED
  BY <1>2, <1>3, GroupAxioms DEF RootToRoot

\* The matrix between two roots in the history variable.
LEMMA JointType ==
    ASSUME TypeOK, NEW t \in Transition
    PROVE  GP!Joint(t) \in Tm /\ Inv(GP!Joint(t)) \in Tm
<1>1. t.c1 \in Cluster /\ t.c2 \in Cluster /\ t.tm \in Tm
  BY DEF Transition
<1>2. GP!ToRoot(t.c1) \in Tm /\ GP!ToRoot(t.c2) \in Tm
  BY <1>1 DEF TypeOK, GP!ToRoot
<1>3. Inv(GP!ToRoot(t.c1)) \in Tm /\ Mul(GP!ToRoot(t.c2), t.tm) \in Tm
  BY <1>1, <1>2, GroupAxioms
<1>4. QED
  BY <1>3, GroupAxioms DEF GP!Joint

\* Absorbing a grain in the history variable keeps its type.
LEMMA AbsorbedType ==
    ASSUME TypeOK, NEW r \in Cluster, NEW s \in Cluster, NEW g \in Tm
    PROVE  GP!Absorbed(r, s, g) \in [Cluster -> [root : Cluster, tm : Tm]]
<1>1. \A c \in Cluster : Mul(g, GP!ToRoot(c)) \in Tm
  BY GroupAxioms DEF TypeOK, GP!ToRoot
<1>2. GP!Cluster = Cluster
  BY DEF GP!Cluster, Cluster
<1>3. QED
  BY <1>1, <1>2 DEF TypeOK, GP!Absorbed

\* Where a step that leaves the loops at their place or advances them can go.
LEMMA AdvanceType ==
    ASSUME TypeOK, Advance, UNCHANGED transitions
    PROVE  /\ pc' \in {"idle", "find1", "find2", "link", "compress"}
           /\ i' \in Nat \ {0}
           /\ pc' \in {"find1", "find2", "link"} => i' \in 1 .. Len(transitions')
           /\ pc' = "compress" => i' \in Cluster
           /\ Processed' = Processed
<1>1. CASE pc \in {"find1", "find2"}
  <2>1. i \in 1 .. Len(transitions) /\ Len(transitions) \in Nat
    BY <1>1, TransitionAt DEF TypeOK
  <2>2. pc' \in {"find2", "link"} /\ i' = i
    BY <1>1 DEF Advance
  <2>3. QED
    BY <1>1, <2>1, <2>2 DEF Processed
<1>2. CASE pc = "compress"
  <2>1. i \in 1 .. NumClusters /\ NumClusters \in Nat
    BY <1>2, PartitionAssumption, HierarchyAssumption DEF TypeOK, Cluster
  <2>2. \/ pc' = "compress" /\ i < NumClusters /\ i' = i + 1
        \/ pc' = "idle" /\ i' = 1
    BY <1>2 DEF Advance
  <2>3. i' \in Nat \ {0} /\ (pc' = "compress" => i' \in Cluster)
    BY <2>1, <2>2 DEF Cluster
  <2>4. QED
    BY <1>2, <2>2, <2>3 DEF Processed
<1>3. QED
  BY <1>1, <1>2 DEF Advance

\* The loop over the transitions moves on inside its sequence, or to the
\* compress loop at the first cluster.
LEMMA NextTransitionType ==
    ASSUME TypeOK, pc = "link", NextTransition, UNCHANGED transitions
    PROVE  /\ pc' \in {"find1", "compress"}
           /\ i' \in Nat \ {0}
           /\ pc' = "find1" => i' \in 1 .. Len(transitions')
           /\ pc' = "compress" => i' = 1 /\ i' \in Cluster
           /\ Processed = i - 1 /\ Processed' = i
           /\ i \in 1 .. Len(transitions)
<1>1. i \in 1 .. Len(transitions) /\ Len(transitions) \in Nat
  BY TransitionAt DEF TypeOK
<1>2. QED
  BY <1>1, PartitionAssumption, HierarchyAssumption DEF NextTransition, Processed, Cluster

\* Parents, ranks, the loops' places and the history stay of their types.
THEOREM TypeCorrect == Spec => []TypeOK
<1>1. Init => TypeOK
  <2> SUFFICES ASSUME Init PROVE TypeOK
    OBVIOUS
  <2>1. grain \in [Cluster -> [root : Cluster, tm : Tm]]
    BY GroupAxioms DEF Init, GP!Singletons, GP!Cluster, Cluster
  <2>2. Processed = 0
    BY DEF Init, Processed
  <2>3. QED
    BY <2>1, <2>2 DEF Init, TypeOK, Finding
<1>2. ASSUME TypeOK, [Next]_vars PROVE TypeOK'
  <2>1. CASE Enter
    <3>1. parent[Current] \in Link
      BY <1>2, <2>1, CurrentType DEF Enter, TypeOK
    <3>2. QED
      BY <1>2, <2>1, <3>1 DEF Enter, TypeOK, Processed, Finding
  <2>2. CASE Climb
    <3>1. path \in Link /\ path.to \in Cluster /\ path.tm \in Tm
      BY <1>2, <2>2, LinkType DEF Climb, TypeOK
    <3>2. parent[path.to] \in Link
      BY <1>2, <2>2, <3>1 DEF Climb, TypeOK
    <3>3. Concatenation(path, parent[path.to]) \in Link
      <4>1. parent[path.to].to \in Cluster /\ parent[path.to].tm \in Tm
        BY <1>2, <3>2, LinkType
      <4>2. Mul(parent[path.to].tm, path.tm) \in Tm
        BY <3>1, <4>1, GroupAxioms
      <4>3. QED
        BY <4>1, <4>2 DEF Concatenation, Link
    <3>4. QED
      BY <1>2, <2>2, <3>3 DEF Climb, TypeOK, Processed, Finding
  <2>3. CASE ReturnSelf
    <3>1. UNCHANGED transitions /\ Advance
      BY <2>3 DEF ReturnSelf
    <3>2. QED
      BY <1>2, <2>3, <3>1, AdvanceType DEF ReturnSelf, TypeOK
  <2>4. CASE ReturnCompressed
    <3>1. UNCHANGED transitions /\ Advance
      BY <2>4 DEF ReturnCompressed, Compressed
    <3>2. parent' \in [Cluster -> Link \cup {NoLink}]
      BY <1>2, <2>4, CurrentType DEF ReturnCompressed, Compressed, TypeOK
    <3>3. QED
      BY <1>2, <2>4, <3>1, <3>2, AdvanceType DEF ReturnCompressed, Compressed, TypeOK
  <2>5. CASE SkipTransition
    <3>1. /\ pc = "link" /\ NextTransition /\ UNCHANGED transitions
          /\ path' = path /\ path = NoLink
      BY <1>2, <2>5 DEF SkipTransition, TypeOK, Finding
    <3>2. accepted' \subseteq 1 .. Processed'
      BY <1>2, <2>5, <3>1, NextTransitionType DEF SkipTransition, TypeOK
    <3>3. QED
      BY <1>2, <2>5, <3>1, <3>2, NextTransitionType DEF SkipTransition, TypeOK
  <2>6. CASE LinkRoots
    <3> DEFINE t == transitions[i]
               p1 == Top(t.c1)
               p2 == Top(t.c2)
    <3>1. /\ pc = "link" /\ NextTransition /\ UNCHANGED transitions
          /\ path' = path /\ path = NoLink
      BY <1>2, <2>6 DEF LinkRoots, Reversed, Promoted, TypeOK, Finding
    <3>2. t \in Transition
      BY <1>2, <3>1, TransitionAt
    <3>3. /\ p1 \in Cluster /\ p2 \in Cluster
          /\ [to |-> p1, tm |-> Inv(RootToRoot(t))] \in Link
          /\ [to |-> p2, tm |-> RootToRoot(t)] \in Link
      BY <1>2, <3>2, RootToRootType DEF Link
    <3>4. parent' \in [Cluster -> Link \cup {NoLink}]
      BY <1>2, <2>6, <3>3 DEF LinkRoots, Reversed, Promoted, TypeOK
    <3>5. rank' \in [Cluster -> Nat]
      BY <1>2, <2>6, <3>3 DEF LinkRoots, Reversed, Promoted, TypeOK
    <3>6. grain' \in [Cluster -> [root : Cluster, tm : Tm]]
      <4>1. GP!Joint(t) \in Tm /\ Inv(GP!Joint(t)) \in Tm
        BY <1>2, <3>2, JointType
      <4>2. /\ GP!Absorbed(p1, p2, GP!Joint(t)) \in [Cluster -> [root : Cluster, tm : Tm]]
            /\ GP!Absorbed(p2, p1, Inv(GP!Joint(t))) \in [Cluster -> [root : Cluster, tm : Tm]]
        BY <1>2, <3>3, <4>1, AbsorbedType
      <4>3. QED
        BY <2>6, <4>2 DEF LinkRoots, Reversed, Promoted
    <3>7. accepted' \subseteq 1 .. Processed'
      <4>1. accepted' = accepted \cup {i}
        BY <2>6 DEF LinkRoots, Reversed, Promoted
      <4>2. accepted \subseteq 1 .. i - 1
        BY <1>2, <3>1, NextTransitionType DEF TypeOK
      <4>3. Processed' = i /\ i \in Nat
        BY <1>2, <3>1, NextTransitionType DEF TypeOK
      <4>4. QED
        BY <1>2, <4>1, <4>2, <4>3 DEF TypeOK
    <3>8. QED
      BY <1>2, <3>1, <3>4, <3>5, <3>6, <3>7, NextTransitionType DEF TypeOK
  <2>7. CASE Rebuild
    <3>1. transitions' \in Seq(Transition)
      BY <2>7, PartitionAssumption, HierarchyAssumption DEF Rebuild, ResetParents
    <3>2. grain' \in [Cluster -> [root : Cluster, tm : Tm]]
      BY <2>7, GroupAxioms DEF Rebuild, ResetParents, GP!Singletons, GP!Cluster, Cluster
    <3>3. transitions' # <<>> => Len(transitions') \in Nat \ {0}
      BY <3>1
    <3>4. 1 \in Cluster
      BY PartitionAssumption, HierarchyAssumption DEF Cluster
    <3>5. QED
      BY <2>7, <3>1, <3>2, <3>3, <3>4 DEF Rebuild, ResetParents, TypeOK, Finding
  <2>8. CASE UNCHANGED vars
    BY <1>2, <2>8 DEF vars, TypeOK, Processed, Finding
  <2>9. QED
    BY <1>2, <2>1, <2>2, <2>3, <2>4, <2>5, <2>6, <2>7, <2>8 DEF Next, Work
<1>3. QED
  BY <1>1, <1>2, PTL DEF Spec

----------------------------------------------------------------------------
(* The forest *)

\* What getParentGrain returned for a settled cluster is what the partition
\* says: the root, and the matrix of the whole way to it.
LEMMA SettledIsExact ==
    ASSUME TypeOK, ForestSound, NEW c \in Cluster, Settled(c)
    PROVE  Top(c) = GP!Root(c) /\ Up(c) = GP!ToRoot(c)
<1>1. CASE parent[c] = NoLink
  <2>1. grain[c] = [root |-> c, tm |-> Id]
    BY <1>1 DEF ForestSound
  <2>2. grain[c].root = c /\ grain[c].tm = Id
    BY <2>1
  <2>3. QED
    BY <1>1, <2>2 DEF Top, Up, GP!Root, GP!ToRoot
<1>2. CASE parent[c] # NoLink
  <2> DEFINE l == parent[c]
  <2>1. l \in Link /\ l.to \in Cluster /\ l.tm \in Tm
    BY <1>2, LinkType DEF TypeOK
  <2>2. Top(c) = l.to /\ Up(c) = l.tm /\ parent[l.to] = NoLink
    BY <1>2 DEF Top, Up, Settled
  <2>3. grain[l.to] = [root |-> l.to, tm |-> Id]
    BY <2>1, <2>2 DEF ForestSound
  <2>4. LinkSound(c, l)
    BY <1>2 DEF ForestSound
  <2>5. GP!Root(c) = l.to /\ GP!ToRoot(c) = Mul(Id, l.tm)
    BY <2>3, <2>4 DEF LinkSound, GP!Root, GP!ToRoot
  <2>6. QED
    BY <2>1, <2>2, <2>5, GroupAxioms
<1>3. QED
  BY <1>1, <1>2

\* At the end of both climbs, the ends of the transition are settled under two
\* roots and RootToRoot is the matrix the partition asks for.
LEMMA LinkedEnds ==
    ASSUME TypeOK, ForestSound, PhaseSound, pc = "link"
    PROVE  LET t == transitions[i] IN
           /\ t \in Transition
           /\ Top(t.c1) = GP!Root(t.c1) /\ Top(t.c2) = GP!Root(t.c2)
           /\ RootToRoot(t) = GP!Joint(t)
           /\ Top(t.c1) \in Cluster /\ Top(t.c2) \in Cluster
           /\ parent[Top(t.c1)] = NoLink /\ parent[Top(t.c2)] = NoLink
           /\ RootToRoot(t) \in Tm /\ Inv(RootToRoot(t)) \in Tm
<1> DEFINE t == transitions[i]
<1>1. t \in Transition /\ t.c1 \in Cluster /\ t.c2 \in Cluster
  BY TransitionAt
<1>2. Settled(t.c1) /\ Settled(t.c2)
  BY DEF PhaseSound
<1>3. /\ Top(t.c1) = GP!Root(t.c1) /\ Up(t.c1) = GP!ToRoot(t.c1)
      /\ Top(t.c2) = GP!Root(t.c2) /\ Up(t.c2) = GP!ToRoot(t.c2)
  BY <1>1, <1>2, SettledIsExact
<1>4. RootToRoot(t) = GP!Joint(t)
  BY <1>3 DEF RootToRoot, GP!Joint
<1>5. QED
  BY <1>1, <1>2, <1>3, <1>4, RootToRootType DEF Settled

\* Hanging root r under another root s through matrix g, and letting s absorb
\* the grain of r, keeps every parent transition sound.
LEMMA HangRoot ==
    ASSUME TypeOK, ForestSound,
           NEW r \in Cluster, NEW s \in Cluster, NEW g \in Tm,
           r # s, parent[r] = NoLink, parent[s] = NoLink,
           parent' = [parent EXCEPT ![r] = [to |-> s, tm |-> g]],
           grain' = GP!Absorbed(r, s, g)
    PROVE  ForestSound'
<1>1. grain[r] = [root |-> r, tm |-> Id] /\ grain[s] = [root |-> s, tm |-> Id]
  BY DEF ForestSound
<1>2. \A c \in Cluster :
         /\ grain[c].root = r => grain'[c] = [root |-> s, tm |-> Mul(g, grain[c].tm)]
         /\ grain[c].root # r => grain'[c] = grain[c]
  BY DEF GP!Absorbed, GP!Cluster, Cluster, GP!Root, GP!ToRoot
<1>3. ASSUME NEW c \in Cluster
      PROVE  (IF parent[c] = NoLink THEN grain[c] = [root |-> c, tm |-> Id]
              ELSE LinkSound(c, parent[c]))'
  <2>1. CASE c = r
    <3>1. parent'[c] = [to |-> s, tm |-> g] /\ parent'[c] # NoLink
      BY <2>1, PartitionAssumption, HierarchyAssumption DEF TypeOK, Link
    <3>2. grain[s].root = s /\ grain[r].root = r /\ grain[r].tm = Id
      BY <1>1
    <3>3. grain'[s] = [root |-> s, tm |-> Id]
      BY <1>1, <1>2, <3>2
    <3>4. grain'[r] = [root |-> s, tm |-> Mul(g, Id)]
      BY <1>2, <3>2
    <3>5. Mul(g, Id) = Mul(Id, g)
      BY GroupAxioms
    <3>6. LinkSound(c, parent[c])'
      BY <2>1, <3>1, <3>3, <3>4, <3>5 DEF LinkSound, GP!Root, GP!ToRoot
    <3>7. QED
      BY <3>1, <3>6
  <2>2. CASE c # r /\ parent[c] = NoLink
    <3>1. grain[c] = [root |-> c, tm |-> Id]
      BY <2>2 DEF ForestSound
    <3>2. grain[c].root # r
      BY <2>2, <3>1
    <3>3. grain'[c] = [root |-> c, tm |-> Id]
      BY <1>2, <3>1, <3>2
    <3>4. parent'[c] = NoLink
      BY <2>2 DEF TypeOK
    <3>5. QED
      BY <3>3, <3>4
  <2>3. CASE c # r /\ parent[c] # NoLink
    <3> DEFINE l == parent[c]
    <3>1. parent'[c] = l /\ l \in Link /\ l.to \in Cluster /\ l.tm \in Tm
      BY <2>3, LinkType DEF TypeOK
    <3>2. grain[l.to].root = grain[c].root /\ grain[c].tm = Mul(grain[l.to].tm, l.tm)
      BY <2>3 DEF ForestSound, LinkSound, GP!Root, GP!ToRoot
    <3>3. grain[l.to].tm \in Tm
      BY <3>1 DEF TypeOK
    <3>4. Mul(g, Mul(grain[l.to].tm, l.tm)) = Mul(Mul(g, grain[l.to].tm), l.tm)
      BY <3>1, <3>3, MulAssociative
    <3>5. /\ grain'[l.to].root = grain'[c].root
          /\ grain'[c].tm = Mul(grain'[l.to].tm, l.tm)
      <4>1. CASE grain[c].root = r
        <5>1. /\ grain'[c] = [root |-> s, tm |-> Mul(g, grain[c].tm)]
              /\ grain'[l.to] = [root |-> s, tm |-> Mul(g, grain[l.to].tm)]
          BY <1>2, <3>1, <3>2, <4>1
        <5>2. QED
          BY <3>2, <3>4, <5>1
      <4>2. CASE grain[c].root # r
        BY <1>2, <3>1, <3>2, <4>2
      <4>3. QED
        BY <4>1, <4>2
    <3>6. LinkSound(c, parent[c])'
      BY <3>1, <3>5 DEF LinkSound, GP!Root, GP!ToRoot
    <3>7. QED
      BY <2>3, <3>1, <3>6
  <2>4. QED
    BY <2>1, <2>2, <2>3
<1>4. QED
  BY <1>3 DEF ForestSound

\* A path that climbs one parent transition further is still sound.
LEMMA ClimbSound ==
    ASSUME TypeOK, RanksIncrease, ForestSound, PathSound, Climb
    PROVE  PathSound'
<1> DEFINE l == parent[path.to]
           c == Current
<1>1. /\ path # NoLink /\ path \in Link /\ path.to \in Cluster /\ path.tm \in Tm
      /\ c \in Cluster
  BY LinkType, CurrentType DEF Climb, TypeOK
<1>2. l \in Link /\ l.to \in Cluster /\ l.tm \in Tm
  BY <1>1, LinkType DEF Climb, TypeOK
<1>3. rank[c] < rank[path.to] /\ rank[path.to] < rank[l.to]
  BY <1>1 DEF Climb, PathSound, RanksIncrease
<1>4. rank[c] < rank[l.to]
  BY <1>1, <1>2, <1>3 DEF TypeOK
<1>5. LinkSound(c, path) /\ LinkSound(path.to, l)
  BY <1>1 DEF Climb, PathSound, ForestSound
<1>6. LinkSound(c, Concatenation(path, l))
  <2>1. GP!ToRoot(l.to) \in Tm
    BY <1>2 DEF TypeOK, GP!ToRoot
  <2>2. Mul(Mul(GP!ToRoot(l.to), l.tm), path.tm) = Mul(GP!ToRoot(l.to), Mul(l.tm, path.tm))
    BY <1>1, <1>2, <2>1, MulAssociative
  <2>3. QED
    BY <1>5, <2>2 DEF LinkSound, Concatenation
<1>7. /\ Current' = c /\ path' = Concatenation(path, l) /\ path'.to = l.to
      /\ UNCHANGED <<parent, rank, grain>>
  BY DEF Climb, Current, Concatenation
<1>8. parent[c] # NoLink
  BY <1>1 DEF PathSound
<1>9. QED
  BY <1>4, <1>6, <1>7, <1>8 DEF PathSound, LinkSound, GP!Root, GP!ToRoot

\* When a call returns and its cluster is settled, the next place in the loops
\* finds settled what it needs.
LEMMA AdvanceSound ==
    ASSUME TypeOK, PhaseSound, Finding, Advance, UNCHANGED transitions,
           \A c \in Cluster : Settled(c) => Settled(c)',
           NEW d \in Cluster, d = Current, Settled(d)'
    PROVE  PhaseSound'
<1>1. CASE pc = "find1"
  <2>1. pc' = "find2" /\ i' = i /\ d = transitions'[i'].c1
    BY <1>1 DEF Advance, Current
  <2>2. QED
    BY <2>1 DEF PhaseSound, Settled, Top
<1>2. CASE pc = "find2"
  <2>1. pc' = "link" /\ i' = i /\ d = transitions'[i'].c2
    BY <1>2 DEF Advance, Current
  <2>2. transitions[i].c1 \in Cluster /\ Settled(transitions[i].c1)
    BY <1>2, TransitionAt DEF PhaseSound
  <2>3. QED
    BY <2>1, <2>2 DEF PhaseSound, Settled, Top
<1>3. CASE pc = "compress"
  <2>1. d = i /\ i \in 1 .. NumClusters /\ NumClusters \in Nat
    BY <1>3, PartitionAssumption, HierarchyAssumption DEF Current, TypeOK, Cluster
  <2>2. \A c \in 1 .. i : Settled(c)'
    <3>1. \A c \in 1 .. i - 1 : c \in Cluster /\ Settled(c)
      BY <1>3, <2>1 DEF PhaseSound, Cluster
    <3>2. \A c \in 1 .. i : c \in 1 .. i - 1 \/ c = d
      BY <2>1
    <3>3. QED
      BY <3>1, <3>2
  <2>3. \/ pc' = "compress" /\ i' = i + 1
        \/ pc' = "idle" /\ i = NumClusters
    BY <1>3 DEF Advance
  <2>4. CASE pc' = "compress" /\ i' = i + 1
    <3>1. i' - 1 = i
      BY <2>1, <2>4
    <3>2. QED
      BY <2>2, <2>4, <3>1 DEF PhaseSound
  <2>5. CASE pc' = "idle" /\ i = NumClusters
    BY <2>2, <2>5 DEF PhaseSound, Cluster
  <2>6. QED
    BY <2>3, <2>4, <2>5
<1>4. QED
  BY <1>1, <1>2, <1>3 DEF Finding

\* Ranks grow along every parent transition, links agree with the partition
\* throughout the climbs and compressions, and answered calls stay answered.
THEOREM InvariantCorrect == Spec => []IInv
<1>1. Init => IInv
  <2> SUFFICES ASSUME Init PROVE IInv
    OBVIOUS
  <2>1. \A c \in Cluster : parent[c] = NoLink /\ grain[c] = [root |-> c, tm |-> Id]
    BY DEF Init, GP!Singletons, GP!Cluster, Cluster
  <2>2. ForestSound
    BY <2>1 DEF ForestSound
  <2>3. PhaseSound
    BY <2>1 DEF Init, PhaseSound, Settled, Top
  <2>4. QED
    BY <2>1, <2>2, <2>3 DEF Init, IInv, RanksIncrease, PathSound
<1>2. ASSUME TypeOK, IInv, [Next]_vars PROVE IInv'
  <2>1. CASE Enter
    <3>1. UNCHANGED <<parent, rank, transitions, pc, i, grain>>
      BY <2>1 DEF Enter
    <3>2. Current \in Cluster /\ parent[Current] # NoLink /\ path' = parent[Current]
      BY <1>2, <2>1, CurrentType DEF Enter
    <3>3. rank[Current] < rank[parent[Current].to] /\ LinkSound(Current, parent[Current])
      BY <1>2, <3>2 DEF IInv, RanksIncrease, ForestSound
    <3>4. PathSound'
      BY <3>1, <3>2, <3>3 DEF PathSound, LinkSound, Current, GP!Root, GP!ToRoot
    <3>5. RanksIncrease' /\ ForestSound' /\ PhaseSound'
      BY <1>2, <3>1 DEF IInv, RanksIncrease, ForestSound, PhaseSound, Settled, Top,
                        LinkSound, GP!Root, GP!ToRoot
    <3>6. QED
      BY <3>4, <3>5 DEF IInv
  <2>2. CASE Climb
    <3>1. UNCHANGED <<parent, rank, transitions, pc, i, grain>>
      BY <2>2 DEF Climb
    <3>2. PathSound'
      BY <1>2, <2>2, ClimbSound DEF IInv
    <3>3. RanksIncrease' /\ ForestSound' /\ PhaseSound'
      BY <1>2, <3>1 DEF IInv, RanksIncrease, ForestSound, PhaseSound, Settled, Top,
                        LinkSound, GP!Root, GP!ToRoot
    <3>4. QED
      BY <3>2, <3>3 DEF IInv
  <2>3. CASE ReturnSelf
    <3> DEFINE d == Current
    <3>1. /\ Finding /\ Advance /\ path' = NoLink /\ d \in Cluster /\ parent[d] = NoLink
          /\ UNCHANGED <<parent, rank, transitions, grain>>
      BY <1>2, <2>3, CurrentType DEF ReturnSelf
    <3>2. PhaseSound'
      <4>1. PICK e \in Cluster : e = Current
        BY <3>1
      <4>2. \A c \in Cluster : Settled(c) => Settled(c)'
        BY <3>1 DEF Settled, Top
      <4>3. Settled(e)'
        BY <3>1, <4>1 DEF Settled, Top
      <4>4. QED
        BY <1>2, <3>1, <4>1, <4>2, <4>3, AdvanceSound DEF IInv
    <3>3. RanksIncrease' /\ ForestSound' /\ PathSound'
      BY <1>2, <3>1 DEF IInv, RanksIncrease, ForestSound, PathSound,
                        LinkSound, GP!Root, GP!ToRoot
    <3>4. QED
      BY <3>2, <3>3 DEF IInv
  <2>4. CASE ReturnCompressed
    <3>1. PICK e \in Cluster : e = Current
      BY <1>2, <2>4, CurrentType DEF ReturnCompressed, Compressed
    <3>2. /\ Finding /\ Advance /\ path' = NoLink
          /\ path # NoLink /\ path \in Link /\ path.to \in Cluster /\ parent[path.to] = NoLink
          /\ parent' = [parent EXCEPT ![e] = path]
          /\ UNCHANGED <<rank, transitions, grain>>
      BY <1>2, <2>4, <3>1, LinkType DEF ReturnCompressed, Compressed, TypeOK
    <3>3. /\ parent[e] # NoLink /\ rank[e] < rank[path.to] /\ LinkSound(e, path)
      BY <1>2, <3>1, <3>2 DEF IInv, PathSound
    <3>4. /\ parent'[e] = path
          /\ \A c \in Cluster : c # e => parent'[c] = parent[c]
          /\ \A c \in Cluster : parent'[c] = NoLink <=> parent[c] = NoLink
      BY <1>2, <3>2, <3>3 DEF TypeOK
    <3>5. RanksIncrease'
      BY <1>2, <3>2, <3>3, <3>4 DEF IInv, RanksIncrease
    <3>6. ForestSound'
      <4>1. ASSUME NEW c \in Cluster
            PROVE  (IF parent[c] = NoLink THEN grain[c] = [root |-> c, tm |-> Id]
                    ELSE LinkSound(c, parent[c]))'
        <5>1. CASE c = e
          BY <3>2, <3>3, <3>4, <5>1 DEF LinkSound, GP!Root, GP!ToRoot
        <5>2. CASE c # e
          BY <1>2, <3>2, <3>4, <5>2 DEF IInv, ForestSound, LinkSound, GP!Root, GP!ToRoot
        <5>3. QED
          BY <5>1, <5>2
      <4>2. QED
        BY <4>1 DEF ForestSound
    <3>7. PhaseSound'
      <4>1. Settled(e)'
        BY <3>2, <3>4 DEF Settled, Top
      <4>2. ASSUME NEW c \in Cluster, Settled(c) PROVE Settled(c)'
        <5>1. CASE c = e
          BY <4>1, <5>1
        <5>2. CASE c # e
          <6>1. Top(c) \in Cluster /\ parent[Top(c)] = NoLink
            BY <1>2, <4>2, TopType DEF Settled
          <6>2. parent'[Top(c)] = NoLink
            BY <3>4, <6>1
          <6>3. QED
            BY <3>4, <5>2, <6>2 DEF Settled, Top
        <5>3. QED
          BY <5>1, <5>2
      <4>3. QED
        BY <1>2, <3>1, <3>2, <4>1, <4>2, AdvanceSound DEF IInv
    <3>8. PathSound'
      BY <3>2 DEF PathSound
    <3>9. QED
      BY <3>5, <3>6, <3>7, <3>8 DEF IInv
  <2>5. CASE SkipTransition
    <3>1. /\ pc = "link" /\ NextTransition /\ path' = NoLink
          /\ UNCHANGED <<parent, rank, transitions, grain>>
      BY <1>2, <2>5 DEF SkipTransition, TypeOK, Finding
    <3>2. PhaseSound'
      BY <1>2, <3>1, NextTransitionType DEF PhaseSound
    <3>3. RanksIncrease' /\ ForestSound' /\ PathSound'
      BY <1>2, <3>1 DEF IInv, RanksIncrease, ForestSound, PathSound,
                        LinkSound, GP!Root, GP!ToRoot
    <3>4. QED
      BY <3>2, <3>3 DEF IInv
  <2>6. CASE LinkRoots
    <3> DEFINE t == transitions[i]
               p1 == Top(t.c1)
               p2 == Top(t.c2)
               g == RootToRoot(t)
    <3>1. /\ pc = "link" /\ NextTransition /\ path' = NoLink /\ p1 # p2
          /\ UNCHANGED transitions
      BY <1>2, <2>6 DEF LinkRoots, Reversed, Promoted, TypeOK, Finding
    <3>2. /\ g = GP!Joint(t) /\ g \in Tm /\ Inv(g) \in Tm
          /\ p1 \in Cluster /\ p2 \in Cluster
          /\ parent[p1] = NoLink /\ parent[p2] = NoLink
      BY <1>2, <3>1, LinkedEnds DEF IInv
    <3>3. PhaseSound' /\ PathSound'
      BY <1>2, <3>1, NextTransitionType DEF PhaseSound, PathSound
    <3>4. CASE rank[p1] > rank[p2]
      <4>1. /\ parent' = [parent EXCEPT ![p2] = [to |-> p1, tm |-> Inv(g)]]
            /\ rank' = rank
            /\ grain' = GP!Absorbed(p2, p1, Inv(g))
        BY <1>2, <2>6, <3>2, <3>4 DEF LinkRoots, Reversed, Promoted, TypeOK
      <4>2. ForestSound'
        BY <1>2, <3>1, <3>2, <4>1, HangRoot DEF IInv
      <4>3. RanksIncrease'
        BY <1>2, <3>2, <3>4, <4>1 DEF IInv, RanksIncrease, TypeOK
      <4>4. QED
        BY <3>3, <4>2, <4>3 DEF IInv
    <3>5. CASE rank[p1] <= rank[p2]
      <4>1. /\ parent' = [parent EXCEPT ![p1] = [to |-> p2, tm |-> g]]
            /\ rank' = IF rank[p1] = rank[p2] THEN [rank EXCEPT ![p2] = @ + 1] ELSE rank
            /\ grain' = GP!Absorbed(p1, p2, g)
        BY <1>2, <2>6, <3>2, <3>5 DEF LinkRoots, Reversed, Promoted, TypeOK
      <4>2. ForestSound'
        BY <1>2, <3>1, <3>2, <4>1, HangRoot DEF IInv
      <4>3. RanksIncrease'
        <5>1. \A c \in Cluster : /\ rank[c] \in Nat /\ rank'[c] \in Nat
                                 /\ rank[c] <= rank'[c]
                                 /\ c # p2 => rank'[c] = rank[c]
          BY <1>2, <3>2, <4>1 DEF TypeOK
        <5>2. rank'[p1] < rank'[p2]
          BY <1>2, <3>1, <3>2, <3>5, <4>1 DEF TypeOK
        <5>3. ASSUME NEW c \in Cluster, parent'[c] # NoLink
              PROVE  rank'[c] < rank'[parent'[c].to]
          <6>1. CASE c = p1
            BY <1>2, <4>1, <5>2, <6>1 DEF TypeOK
          <6>2. CASE c # p1
            <7>1. parent'[c] = parent[c] /\ parent[c] # NoLink /\ c # p2
              BY <1>2, <3>2, <4>1, <5>3, <6>2 DEF TypeOK
            <7>2. parent[c] \in Link /\ parent[c].to \in Cluster
              BY <1>2, <7>1, LinkType DEF TypeOK
            <7>3. rank[c] < rank[parent[c].to]
              BY <1>2, <7>1 DEF IInv, RanksIncrease
            <7>4. QED
              BY <5>1, <7>1, <7>2, <7>3
          <6>3. QED
            BY <6>1, <6>2
        <5>4. QED
          BY <5>3 DEF RanksIncrease
      <4>4. QED
        BY <3>3, <4>2, <4>3 DEF IInv
    <3>6. QED
      BY <1>2, <3>2, <3>4, <3>5 DEF TypeOK
  <2>7. CASE Rebuild
    <3>1. /\ pc' \in {"find1", "compress"} /\ i' = 1 /\ path' = NoLink
          /\ parent' = [c \in Cluster |-> NoLink]
          /\ grain' = [c \in Cluster |-> [root |-> c, tm |-> Id]]
      BY <2>7 DEF Rebuild, ResetParents, GP!Singletons, GP!Cluster, Cluster
    <3>2. 1 .. i' - 1 = {}
      BY <3>1
    <3>3. QED
      BY <3>1, <3>2 DEF IInv, RanksIncrease, ForestSound, PathSound, PhaseSound, LinkSound
  <2>8. CASE UNCHANGED vars
    BY <1>2, <2>8 DEF vars, IInv, RanksIncrease, ForestSound, PathSound, PhaseSound,
                      LinkSound, Settled, Top, Current, GP!Root, GP!ToRoot
  <2>9. QED
    BY <1>2, <2>1, <2>2, <2>3, <2>4, <2>5, <2>6, <2>7, <2>8 DEF Next, Work
<1>3. QED
  BY <1>1, <1>2, TypeCorrect, PTL DEF Spec

----------------------------------------------------------------------------
(* The partition *)

\* After a rebuild one parent transition is the whole way to the root.
THEOREM FlattenedCorrect == Spec => []Flattened
<1>1. TypeOK /\ IInv => Flattened
  BY SettledIsExact DEF IInv, PhaseSound, Flattened
<1>2. QED
  BY <1>1, TypeCorrect, InvariantCorrect, PTL

\* Linking two roots is one step of the partition, every other step of the
\* rebuild leaves the partition alone.
THEOREM RefinesPartition == Spec => GP!Safety
<1>1. Init => GP!Init
  BY DEF Init, GP!Init, Processed
<1>2. ASSUME TypeOK, IInv, [Next]_vars PROVE [GP!Next]_(GP!abstractVars)
  <2>1. CASE Enter \/ Climb
    BY <2>1 DEF Enter, Climb, GP!abstractVars, Processed
  <2>2. CASE ReturnSelf \/ ReturnCompressed
    <3>1. Advance /\ UNCHANGED <<transitions, grain, accepted>>
      BY <2>2 DEF ReturnSelf, ReturnCompressed
    <3>2. Processed' = Processed
      BY <1>2, <3>1, AdvanceType
    <3>3. QED
      BY <3>1, <3>2 DEF GP!abstractVars
  <2>3. CASE SkipTransition
    <3> DEFINE t == transitions[i]
    <3>1. pc = "link" /\ NextTransition /\ UNCHANGED <<transitions, grain, accepted>>
      BY <2>3 DEF SkipTransition
    <3>2. /\ Processed = i - 1 /\ Processed' = i /\ i \in 1 .. Len(transitions)
      BY <1>2, <3>1, NextTransitionType
    <3>3. GP!Root(t.c1) = GP!Root(t.c2)
      BY <1>2, <2>3, <3>1, LinkedEnds DEF SkipTransition, IInv
    <3>4. /\ Processed < Len(transitions) /\ Processed' = Processed + 1
          /\ transitions[Processed + 1] = t
      BY <1>2, <3>2 DEF TypeOK
    <3>5. GP!Process
      BY <3>1, <3>3, <3>4 DEF GP!Process
    <3>6. QED
      BY <3>5 DEF GP!Next
  <2>4. CASE LinkRoots
    <3> DEFINE t == transitions[i]
    <3>1. pc = "link" /\ NextTransition /\ UNCHANGED transitions
      BY <2>4 DEF LinkRoots, Reversed, Promoted
    <3>2. /\ Processed = i - 1 /\ Processed' = i /\ i \in 1 .. Len(transitions)
      BY <1>2, <3>1, NextTransitionType
    <3>3. /\ Top(t.c1) = GP!Root(t.c1) /\ Top(t.c2) = GP!Root(t.c2)
      BY <1>2, <3>1, LinkedEnds DEF IInv
    <3>4. /\ Processed < Len(transitions) /\ Processed' = Processed + 1
          /\ transitions[Processed + 1] = t /\ i = Processed + 1
      BY <1>2, <3>2 DEF TypeOK
    <3>5. /\ GP!Root(t.c1) # GP!Root(t.c2)
          /\ accepted' = accepted \cup {i}
          /\ \/ grain' = GP!Absorbed(GP!Root(t.c1), GP!Root(t.c2), GP!Joint(t))
             \/ grain' = GP!Absorbed(GP!Root(t.c2), GP!Root(t.c1), Inv(GP!Joint(t)))
      BY <2>4, <3>3 DEF LinkRoots, Reversed, Promoted
    <3>6. GP!Process
      BY <3>1, <3>4, <3>5 DEF GP!Process
    <3>7. QED
      BY <3>6 DEF GP!Next
  <2>5. CASE Rebuild
    <3>1. Processed = Len(transitions)
      BY <2>5 DEF Rebuild, ResetParents, Processed
    <3>2. Processed' = 0
      BY <2>5 DEF Rebuild, ResetParents, Processed
    <3>3. transitions' \in Seq(Transition)
      BY <2>5, PartitionAssumption, HierarchyAssumption DEF Rebuild, ResetParents
    <3>4. GP!Rebuild
      BY <2>5, <3>1, <3>2, <3>3 DEF Rebuild, ResetParents, GP!Rebuild
    <3>5. QED
      BY <3>4 DEF GP!Next
  <2>6. CASE UNCHANGED vars
    BY <2>6 DEF vars, GP!abstractVars, Processed
  <2>7. QED
    BY <1>2, <2>1, <2>2, <2>3, <2>4, <2>5, <2>6 DEF Next, Work
<1>3. QED
  BY <1>1, <1>2, TypeCorrect, InvariantCorrect, PTL DEF Spec, GP!Safety

----------------------------------------------------------------------------
(* What the partition promises *)

\* The partition has the clusters and transitions of the forest.
LEMMA PartitionInputs ==
    /\ NumClusters \in Nat \ {0}
    /\ GP!Cluster = Cluster /\ GP!Transition = Transition
BY PartitionAssumption DEF GP!Cluster, Cluster, GP!Transition, Transition

\* Joining two grains: the matrix between the roots makes the transition exact
\* in both directions of the merge.
LEMMA JointExact ==
    ASSUME NEW g1 \in Tm, NEW g2 \in Tm, NEW t \in Tm
    PROVE  LET j == Mul(Mul(g2, t), Inv(g1))
           IN  /\ j \in Tm
               /\ Inv(j) \in Tm
               /\ Mul(j, g1) = Mul(g2, t)
               /\ Mul(Mul(Inv(j), g2), t) = g1
<1> DEFINE h == Mul(g2, t)
           j == Mul(h, Inv(g1))
<1>1. h \in Tm /\ Inv(g1) \in Tm /\ j \in Tm /\ Inv(j) \in Tm
  BY GroupAxioms
<1>2. Mul(j, g1) = h
  <2>1. Mul(j, g1) = Mul(h, Mul(Inv(g1), g1))
    BY <1>1, GroupAxioms
  <2>2. QED
    BY <1>1, <2>1, GroupAxioms
<1>3. Mul(Mul(Inv(j), g2), t) = Mul(Inv(j), h)
  BY <1>1, GroupAxioms
<1>4. Mul(Inv(j), Mul(j, g1)) = g1
  <2>1. Mul(Inv(j), Mul(j, g1)) = Mul(Mul(Inv(j), j), g1)
    BY <1>1, GroupAxioms
  <2>2. QED
    BY <1>1, <2>1, GroupAxioms
<1>5. QED
  BY <1>1, <1>2, <1>3, <1>4

\* The matrix GP!Joint(t) of a transition of the input.
LEMMA PartitionJoint ==
    ASSUME GP!PartitionTypeOK, NEW t \in GP!Transition
    PROVE  /\ GP!ToRoot(t.c1) \in Tm /\ GP!ToRoot(t.c2) \in Tm /\ t.tm \in Tm
           /\ GP!Root(t.c1) \in GP!Cluster /\ GP!Root(t.c2) \in GP!Cluster
           /\ GP!Joint(t) \in Tm /\ Inv(GP!Joint(t)) \in Tm
           /\ Mul(GP!Joint(t), GP!ToRoot(t.c1)) = Mul(GP!ToRoot(t.c2), t.tm)
           /\ Mul(Mul(Inv(GP!Joint(t)), GP!ToRoot(t.c2)), t.tm) = GP!ToRoot(t.c1)
<1>1. /\ GP!ToRoot(t.c1) \in Tm /\ GP!ToRoot(t.c2) \in Tm /\ t.tm \in Tm
      /\ GP!Root(t.c1) \in GP!Cluster /\ GP!Root(t.c2) \in GP!Cluster
  BY DEF GP!PartitionTypeOK, GP!Transition, GP!ToRoot, GP!Root
<1>2. QED
  BY <1>1, JointExact DEF GP!Joint

\* Absorbing a grain keeps the type of the partition.
LEMMA PartitionAbsorbed ==
    ASSUME GP!PartitionTypeOK, NEW r \in GP!Cluster, NEW s \in GP!Cluster, NEW g \in Tm
    PROVE  GP!Absorbed(r, s, g) \in [GP!Cluster -> [root : GP!Cluster, tm : Tm]]
<1>1. \A c \in GP!Cluster : Mul(g, GP!ToRoot(c)) \in Tm
  BY GroupAxioms DEF GP!PartitionTypeOK, GP!ToRoot
<1>2. QED
  BY <1>1 DEF GP!PartitionTypeOK, GP!Absorbed

\* The values of the partition stay of their types: roots are clusters and
\* matrices are products and inverses of those of the transitions.
THEOREM PartitionTypeCorrect == GP!Safety => []GP!PartitionTypeOK
<1>1. GP!Init => GP!PartitionTypeOK
  BY GroupAxioms, PartitionAssumption DEF GP!Init, GP!PartitionTypeOK, GP!Singletons
<1>2. ASSUME GP!PartitionTypeOK, [GP!Next]_(GP!abstractVars) PROVE GP!PartitionTypeOK'
  <2>1. CASE GP!Process
    <3> DEFINE t == transitions[Processed + 1]
               r1 == GP!Root(t.c1)
               r2 == GP!Root(t.c2)
    <3>1. Processed + 1 \in 1 .. Len(transitions) /\ t \in GP!Transition
      BY <1>2, <2>1 DEF GP!Process, GP!PartitionTypeOK
    <3>2. Processed' \in 0 .. Len(transitions) /\ Processed' = Processed + 1
      BY <1>2, <2>1 DEF GP!Process, GP!PartitionTypeOK
    <3>3. grain' \in [GP!Cluster -> [root : GP!Cluster, tm : Tm]]
      <4>1. /\ r1 \in GP!Cluster /\ r2 \in GP!Cluster
            /\ GP!Joint(t) \in Tm /\ Inv(GP!Joint(t)) \in Tm
        BY <1>2, <3>1, PartitionJoint
      <4>2. /\ GP!Absorbed(r1, r2, GP!Joint(t)) \in [GP!Cluster -> [root : GP!Cluster, tm : Tm]]
            /\ GP!Absorbed(r2, r1, Inv(GP!Joint(t))) \in [GP!Cluster -> [root : GP!Cluster, tm : Tm]]
        BY <1>2, <4>1, PartitionAbsorbed
      <4>3. \/ grain' = grain
            \/ grain' = GP!Absorbed(r1, r2, GP!Joint(t))
            \/ grain' = GP!Absorbed(r2, r1, Inv(GP!Joint(t)))
        BY <2>1 DEF GP!Process
      <4>4. QED
        BY <1>2, <4>2, <4>3 DEF GP!PartitionTypeOK
    <3>4. accepted' \subseteq 1 .. Processed'
      <4>1. accepted' \subseteq accepted \cup {Processed + 1}
        BY <2>1 DEF GP!Process
      <4>2. QED
        BY <1>2, <3>2, <4>1 DEF GP!PartitionTypeOK
    <3>5. QED
      BY <1>2, <2>1, <3>2, <3>3, <3>4 DEF GP!Process, GP!PartitionTypeOK
  <2>2. CASE GP!Rebuild
    <3>1. /\ transitions' \in Seq(GP!Transition) /\ Processed' = 0
          /\ grain' = GP!Singletons /\ accepted' = {}
      BY <2>2, PartitionInputs DEF GP!Rebuild
    <3>2. GP!Singletons \in [GP!Cluster -> [root : GP!Cluster, tm : Tm]]
      BY GroupAxioms DEF GP!Singletons
    <3>3. 0 \in 0 .. Len(transitions') /\ 1 .. 0 = {}
      BY <3>1
    <3>4. QED
      BY <3>1, <3>2, <3>3 DEF GP!PartitionTypeOK
  <2>3. CASE UNCHANGED GP!abstractVars
    BY <1>2, <2>3 DEF GP!abstractVars, GP!PartitionTypeOK
  <2>4. QED
    BY <1>2, <2>1, <2>2, <2>3 DEF GP!Next
<1>3. QED
  BY <1>1, <1>2, PTL DEF GP!Safety

\* The two ways to join the grains of transition t, as one: some root r of the
\* two is absorbed by the other root s through a matrix g that fits t.
LEMMA Merge ==
    ASSUME GP!PartitionTypeOK, GP!Process,
           GP!Root(transitions[Processed + 1].c1) # GP!Root(transitions[Processed + 1].c2)
    PROVE  LET t == transitions[Processed + 1] IN
           \E r, s \in GP!Cluster, g \in Tm :
              /\ grain' = GP!Absorbed(r, s, g)
              /\ r # s /\ {r, s} = {GP!Root(t.c1), GP!Root(t.c2)}
              /\ r = GP!Root(t.c1) => Mul(g, GP!ToRoot(t.c1)) = Mul(GP!ToRoot(t.c2), t.tm)
              /\ r = GP!Root(t.c2) => Mul(Mul(g, GP!ToRoot(t.c2)), t.tm) = GP!ToRoot(t.c1)
<1> DEFINE t == transitions[Processed + 1]
<1>1. t \in GP!Transition
  BY DEF GP!Process, GP!PartitionTypeOK
<1>2. /\ GP!Root(t.c1) \in GP!Cluster /\ GP!Root(t.c2) \in GP!Cluster
      /\ GP!Joint(t) \in Tm /\ Inv(GP!Joint(t)) \in Tm
      /\ Mul(GP!Joint(t), GP!ToRoot(t.c1)) = Mul(GP!ToRoot(t.c2), t.tm)
      /\ Mul(Mul(Inv(GP!Joint(t)), GP!ToRoot(t.c2)), t.tm) = GP!ToRoot(t.c1)
  BY <1>1, PartitionJoint
<1>3. \/ grain' = GP!Absorbed(GP!Root(t.c1), GP!Root(t.c2), GP!Joint(t))
      \/ grain' = GP!Absorbed(GP!Root(t.c2), GP!Root(t.c1), Inv(GP!Joint(t)))
  BY DEF GP!Process
<1>4. CASE grain' = GP!Absorbed(GP!Root(t.c1), GP!Root(t.c2), GP!Joint(t))
  BY <1>2, <1>4
<1>5. CASE grain' = GP!Absorbed(GP!Root(t.c2), GP!Root(t.c1), Inv(GP!Joint(t)))
  BY <1>2, <1>5
<1>6. QED
  BY <1>3, <1>4, <1>5

\* The grains are exactly the components of the Processed transitions.
THEOREM PartitionExactCorrect == GP!Safety => []GP!GrainsExact
<1>1. GP!Init => GP!GrainsExact
  BY PartitionAssumption DEF GP!Init, GP!GrainsExact, GP!Singletons, GP!Root, GP!Closed
<1>2. ASSUME GP!PartitionTypeOK, GP!GrainsExact, [GP!Next]_(GP!abstractVars) PROVE GP!GrainsExact'
  <2>1. CASE GP!Process
    <3> DEFINE t == transitions[Processed + 1]
    <3>1. /\ t \in GP!Transition /\ Processed \in Nat
          /\ Processed' = Processed + 1 /\ transitions' = transitions
          /\ 1 .. Processed' = 1 .. Processed \cup {Processed + 1}
      BY <1>2, <2>1 DEF GP!Process, GP!PartitionTypeOK
    <3>2. ASSUME NEW S \in SUBSET GP!Cluster, GP!Closed(S)'
          PROVE  GP!Closed(S) /\ (t.c1 \in S <=> t.c2 \in S)
      BY <3>1, <3>2 DEF GP!Closed
    <3>3. CASE GP!Root(t.c1) = GP!Root(t.c2)
      <4>1. grain' = grain
        BY <2>1, <3>3 DEF GP!Process
      <4>2. \A k \in 1 .. Processed' :
               GP!Root(transitions'[k].c1) = GP!Root(transitions'[k].c2)
        BY <1>2, <3>1, <3>3 DEF GP!GrainsExact
      <4>3. QED
        BY <1>2, <3>2, <4>1, <4>2 DEF GP!GrainsExact, GP!Root
    <3>4. CASE GP!Root(t.c1) # GP!Root(t.c2)
      <4>1. PICK r \in GP!Cluster, s \in GP!Cluster, g \in Tm :
               /\ grain' = GP!Absorbed(r, s, g)
               /\ r # s /\ {r, s} = {GP!Root(t.c1), GP!Root(t.c2)}
        BY <1>2, <2>1, <3>4, Merge
      <4>2. \A c \in GP!Cluster : GP!Root(c)' = IF GP!Root(c) = r THEN s ELSE GP!Root(c)
        BY <1>2, <4>1 DEF GP!Absorbed, GP!Root, GP!PartitionTypeOK
      <4>3. \A c \in GP!Cluster : GP!Root(c) # r => grain'[c] = grain[c]
        BY <4>1 DEF GP!Absorbed
      <4>4. grain[s] = [root |-> s, tm |-> Id] /\ GP!Root(s) = s
        <5>1. PICK c \in GP!Cluster : GP!Root(c) = s
          BY <3>1, <4>1 DEF GP!Transition
        <5>2. QED
          BY <1>2, <5>1 DEF GP!GrainsExact, GP!Root
      <4>5. ASSUME NEW c \in GP!Cluster
            PROVE  grain'[GP!Root(c)'] = [root |-> GP!Root(c)', tm |-> Id]
        <5>1. GP!Root(c) \in GP!Cluster
          BY <1>2 DEF GP!PartitionTypeOK, GP!Root
        <5>2. CASE GP!Root(c) = r
          BY <4>1, <4>2, <4>3, <4>4, <5>2
        <5>3. CASE GP!Root(c) # r
          <6>1. GP!Root(c)' = GP!Root(c)
            BY <4>2, <5>3
          <6>2. grain[GP!Root(c)] = [root |-> GP!Root(c), tm |-> Id]
            BY <1>2 DEF GP!GrainsExact
          <6>3. GP!Root(GP!Root(c)) = GP!Root(c)
            BY <6>2 DEF GP!Root
          <6>4. grain'[GP!Root(c)] = grain[GP!Root(c)]
            BY <4>3, <5>1, <5>3, <6>3
          <6>5. QED
            BY <6>1, <6>2, <6>4
        <5>4. QED
          BY <5>2, <5>3
      <4>6. ASSUME NEW k \in 1 .. Processed'
            PROVE  GP!Root(transitions[k].c1)' = GP!Root(transitions[k].c2)'
        <5>1. transitions[k] \in GP!Transition
          BY <1>2, <3>1 DEF GP!PartitionTypeOK
        <5>2. CASE k = Processed + 1
          BY <3>1, <4>1, <4>2, <5>1, <5>2 DEF GP!Transition
        <5>3. CASE k \in 1 .. Processed
          <6>1. GP!Root(transitions[k].c1) = GP!Root(transitions[k].c2)
            BY <1>2, <5>3 DEF GP!GrainsExact
          <6>2. QED
            BY <3>1, <4>2, <5>1, <6>1 DEF GP!Transition
        <5>4. QED
          BY <3>1, <5>2, <5>3
      <4>7. ASSUME NEW S \in SUBSET GP!Cluster, GP!Closed(S)', NEW c \in S
            PROVE  GP!Root(c)' \in S
        <5>1. /\ GP!Closed(S) /\ (t.c1 \in S <=> t.c2 \in S)
          BY <3>2, <4>7
        <5>2. \A d \in S : GP!Root(d) \in S
          BY <1>2, <5>1 DEF GP!GrainsExact
        <5>3. \A d \in GP!Cluster : GP!Root(d) \in S => d \in S
          <6>1. ASSUME NEW d \in GP!Cluster, GP!Root(d) \in S, d \notin S PROVE FALSE
            <7>1. GP!Closed(GP!Cluster \ S)
              <8>1. \A k \in 1 .. Processed : transitions[k] \in GP!Transition
                BY <1>2 DEF GP!PartitionTypeOK
              <8>2. QED
                BY <5>1, <8>1 DEF GP!Closed, GP!Transition
            <7>2. GP!Root(d) \in GP!Cluster \ S
              BY <1>2, <6>1, <7>1 DEF GP!GrainsExact
            <7>3. QED
              BY <6>1, <7>2
          <6>2. QED
            BY <6>1
        <5>4. r \in S => s \in S
          <6>1. t.c1 \in GP!Cluster /\ t.c2 \in GP!Cluster
            BY <3>1 DEF GP!Transition
          <6>2. CASE r = GP!Root(t.c1) /\ s = GP!Root(t.c2)
            BY <5>1, <5>2, <5>3, <6>1, <6>2
          <6>3. CASE r = GP!Root(t.c2) /\ s = GP!Root(t.c1)
            BY <5>1, <5>2, <5>3, <6>1, <6>3
          <6>4. QED
            BY <4>1, <6>2, <6>3
        <5>5. QED
          BY <4>2, <4>7, <5>2, <5>4
      <4>8. (\A c \in GP!Cluster : grain[GP!Root(c)] = [root |-> GP!Root(c), tm |-> Id])'
        BY <4>5
      <4>9. (\A k \in 1 .. Processed :
                GP!Root(transitions[k].c1) = GP!Root(transitions[k].c2))'
        BY <4>6
      <4>10. (\A S \in SUBSET GP!Cluster : GP!Closed(S) => \A c \in S : GP!Root(c) \in S)'
        BY <4>7
      <4>11. QED
        BY <4>8, <4>9, <4>10 DEF GP!GrainsExact
    <3>5. QED
      BY <3>3, <3>4
  <2>2. CASE GP!Rebuild
    <3>1. Processed' = 0 /\ grain' = GP!Singletons
      BY <2>2 DEF GP!Rebuild
    <3>2. 1 .. Processed' = {}
      BY <3>1
    <3>3. QED
      BY <3>1, <3>2 DEF GP!GrainsExact, GP!Singletons, GP!Root, GP!Closed
  <2>3. CASE UNCHANGED GP!abstractVars
    BY <1>2, <2>3 DEF GP!abstractVars, GP!GrainsExact, GP!Root, GP!Closed
  <2>4. QED
    BY <1>2, <2>1, <2>2, <2>3 DEF GP!Next
<1>3. QED
  BY <1>1, <1>2, PartitionTypeCorrect, PTL DEF GP!Safety

\* Every transition that joined two grains is exact for the matrices to the
\* roots, and stays so whatever is merged later.
THEOREM PartitionTransportCorrect == GP!Safety => []GP!TransportConsistent
<1>1. GP!Init => GP!TransportConsistent
  BY DEF GP!Init, GP!TransportConsistent
<1>2. ASSUME GP!PartitionTypeOK, GP!GrainsExact, GP!TransportConsistent, [GP!Next]_(GP!abstractVars)
      PROVE  GP!TransportConsistent'
  <2>1. CASE GP!Process
    <3> DEFINE t == transitions[Processed + 1]
    <3>1. /\ t \in GP!Transition /\ Processed \in Nat /\ transitions' = transitions
      BY <1>2, <2>1 DEF GP!Process, GP!PartitionTypeOK
    <3>2. CASE GP!Root(t.c1) = GP!Root(t.c2)
      <4>1. grain' = grain /\ accepted' = accepted
        BY <2>1, <3>2 DEF GP!Process
      <4>2. QED
        BY <1>2, <3>1, <4>1 DEF GP!TransportConsistent, GP!ToRoot
    <3>3. CASE GP!Root(t.c1) # GP!Root(t.c2)
      <4>1. PICK r \in GP!Cluster, s \in GP!Cluster, g \in Tm :
               /\ grain' = GP!Absorbed(r, s, g)
               /\ r # s /\ {r, s} = {GP!Root(t.c1), GP!Root(t.c2)}
               /\ r = GP!Root(t.c1) => Mul(g, GP!ToRoot(t.c1)) = Mul(GP!ToRoot(t.c2), t.tm)
               /\ r = GP!Root(t.c2) => Mul(Mul(g, GP!ToRoot(t.c2)), t.tm) = GP!ToRoot(t.c1)
        BY <1>2, <2>1, <3>3, Merge
      <4>2. \A c \in GP!Cluster :
               grain'[c].tm = IF GP!Root(c) = r THEN Mul(g, GP!ToRoot(c)) ELSE GP!ToRoot(c)
        BY <4>1 DEF GP!Absorbed, GP!Root, GP!ToRoot
      <4>3. accepted' = accepted \cup {Processed + 1}
        BY <2>1, <3>3 DEF GP!Process
      <4>4. t.c1 \in GP!Cluster /\ t.c2 \in GP!Cluster
        BY <3>1 DEF GP!Transition
      <4>5. Mul(grain'[t.c2].tm, t.tm) = grain'[t.c1].tm
        <5>1. CASE r = GP!Root(t.c1) /\ s = GP!Root(t.c2)
          BY <4>1, <4>2, <4>4, <5>1
        <5>2. CASE r = GP!Root(t.c2) /\ s = GP!Root(t.c1)
          BY <4>1, <4>2, <4>4, <5>2
        <5>3. QED
          BY <4>1, <5>1, <5>2
      <4>6. ASSUME NEW k \in accepted
            PROVE  Mul(grain'[transitions[k].c2].tm, transitions[k].tm)
                     = grain'[transitions[k].c1].tm
        <5> DEFINE u == transitions[k]
        <5>1. /\ k \in 1 .. Processed /\ u \in GP!Transition
              /\ u.c1 \in GP!Cluster /\ u.c2 \in GP!Cluster /\ u.tm \in Tm
          <6>1. k \in 1 .. Processed /\ u \in GP!Transition
            BY <1>2, <3>1 DEF GP!PartitionTypeOK
          <6>2. QED
            BY <6>1 DEF GP!Transition
        <5>2. GP!Root(u.c1) = GP!Root(u.c2)
          BY <1>2, <5>1 DEF GP!GrainsExact
        <5>3. Mul(GP!ToRoot(u.c2), u.tm) = GP!ToRoot(u.c1)
          BY <1>2 DEF GP!TransportConsistent
        <5>4. GP!ToRoot(u.c2) \in Tm
          BY <1>2, <5>1 DEF GP!PartitionTypeOK, GP!ToRoot
        <5>5. Mul(Mul(g, GP!ToRoot(u.c2)), u.tm) = Mul(g, Mul(GP!ToRoot(u.c2), u.tm))
          BY <5>1, <5>4, MulAssociative
        <5>6. QED
          BY <4>2, <5>1, <5>2, <5>3, <5>5
      <4>7. QED
        BY <3>1, <4>3, <4>5, <4>6 DEF GP!TransportConsistent, GP!ToRoot
    <3>4. QED
      BY <3>2, <3>3
  <2>2. CASE GP!Rebuild
    BY <2>2 DEF GP!Rebuild, GP!TransportConsistent
  <2>3. CASE UNCHANGED GP!abstractVars
    BY <1>2, <2>3 DEF GP!abstractVars, GP!TransportConsistent, GP!ToRoot
  <2>4. QED
    BY <1>2, <2>1, <2>2, <2>3 DEF GP!Next
<1>3. QED
  BY <1>1, <1>2, PartitionTypeCorrect, PartitionExactCorrect, PTL DEF GP!Safety

\* What is proved of the partition holds of the forest that implements it.
LEMMA PartitionFacts == Spec => [](GP!GrainsExact /\ GP!TransportConsistent)
BY RefinesPartition, PartitionExactCorrect, PartitionTransportCorrect, PTL

----------------------------------------------------------------------------
(* What the forest promises *)

\* After a rebuild the grains are exactly the components of the graph of the
\* transitions, one parent transition away from their roots.
THEOREM HierarchyExactCorrect == Spec => []HierarchyExact
<1>1. ASSUME TypeOK, IInv, Flattened, GP!GrainsExact PROVE HierarchyExact
  <2> SUFFICES ASSUME pc = "idle" PROVE HierarchyExact
    BY DEF HierarchyExact
  <2>1. Processed = Len(transitions) /\ GP!Cluster = Cluster
    BY DEF Processed, GP!Cluster, Cluster
  <2>2. \A c \in Cluster : parent[Top(c)] = NoLink /\ Top(c) = GP!Root(c)
    BY <1>1 DEF IInv, PhaseSound, Settled, Flattened
  <2>3. ASSUME NEW k \in DOMAIN transitions
        PROVE  /\ k \in 1 .. Processed
               /\ transitions[k].c1 \in Cluster /\ transitions[k].c2 \in Cluster
    <3>1. k \in 1 .. Processed /\ transitions[k] \in Transition
      BY <1>1, <2>1 DEF TypeOK
    <3>2. QED
      BY <3>1 DEF Transition
  <2>4. ASSUME NEW k \in DOMAIN transitions
        PROVE  Top(transitions[k].c1) = Top(transitions[k].c2)
    BY <1>1, <2>2, <2>3 DEF GP!GrainsExact
  <2>5. ASSUME NEW S \in SUBSET Cluster,
               \A k \in DOMAIN transitions :
                  transitions[k].c1 \in S <=> transitions[k].c2 \in S
        PROVE  \A c \in S : Top(c) \in S
    <3>1. DOMAIN transitions = 1 .. Processed
      BY <1>1, <2>1 DEF TypeOK
    <3>2. GP!Closed(S)
      BY <2>5, <3>1 DEF GP!Closed
    <3>3. \A c \in S : GP!Root(c) \in S
      BY <1>1, <2>1, <3>2 DEF GP!GrainsExact
    <3>4. QED
      BY <2>2, <3>3
  <2>6. QED
    BY <2>2, <2>4, <2>5 DEF HierarchyExact
<1>2. QED
  BY <1>1, TypeCorrect, InvariantCorrect, FlattenedCorrect, PartitionFacts, PTL

\* After a rebuild every transition that joined two grains is exact for the
\* parent matrices of its two clusters.
THEOREM TransportConsistentCorrect == Spec => []TransportConsistent
<1>1. ASSUME TypeOK, Flattened, GP!TransportConsistent PROVE TransportConsistent
  <2> SUFFICES ASSUME pc = "idle", NEW k \in accepted
               PROVE  Mul(Up(transitions[k].c2), transitions[k].tm)
                        = Up(transitions[k].c1)
    BY DEF TransportConsistent
  <2>1. k \in 1 .. Len(transitions) /\ transitions[k] \in Transition
    BY <1>1 DEF TypeOK, Processed
  <2>2. transitions[k].c1 \in Cluster /\ transitions[k].c2 \in Cluster
    BY <2>1 DEF Transition
  <2>3. /\ Up(transitions[k].c1) = GP!ToRoot(transitions[k].c1)
        /\ Up(transitions[k].c2) = GP!ToRoot(transitions[k].c2)
    BY <1>1, <2>2 DEF Flattened
  <2>4. QED
    BY <1>1, <2>3 DEF GP!TransportConsistent
<1>2. QED
  BY <1>1, TypeCorrect, FlattenedCorrect, PartitionFacts, PTL

\* Ranks grow along parent transitions throughout the rebuild: no cycle.
THEOREM RanksIncreaseCorrect == Spec => []RanksIncrease
BY InvariantCorrect, PTL DEF IInv

\* Parent transitions are sound throughout the rebuild.
THEOREM ForestSoundCorrect == Spec => []ForestSound
BY InvariantCorrect, PTL DEF IInv

----------------------------------------------------------------------------
(* Linking by rank alone *)

\* A set of natural numbers that is not empty has a least element.
LEMMA LeastNatural ==
    ASSUME NEW S, S \subseteq Nat, S # {}
    PROVE  \E m \in S : \A n \in S : m <= n
<1> DEFINE Below == {1 .. n : n \in S}
<1>1. Below \subseteq FiniteSubsetsOf(Nat) /\ Below # {}
  <2>1. \A n \in S : n \in Int /\ 1 .. n \in SUBSET Nat
    OBVIOUS
  <2>2. \A n \in S : IsFiniteSet(1 .. n)
    BY <2>1, FS_Interval
  <2>3. QED
    BY <2>1, <2>2 DEF FiniteSubsetsOf
<1>2. PICK B \in Below : \A D \in Below : <<D, B>> \notin StrictSubsetOrdering(Nat)
  BY <1>1, FS_StrictSubsetOrderingWellFounded, WFMin
<1>3. PICK m \in S : B = 1 .. m
  OBVIOUS
<1>4. ASSUME NEW n \in S, n < m PROVE FALSE
  <2>1. 1 .. n \subseteq 1 .. m /\ m \in 1 .. m /\ m \notin 1 .. n
    BY <1>4
  <2>2. 1 .. n \in SUBSET Nat /\ 1 .. m \in SUBSET Nat /\ 1 .. n # 1 .. m
    BY <2>1
  <2>3. <<1 .. n, 1 .. m>> \in StrictSubsetOrdering(Nat)
    BY <2>1, <2>2 DEF StrictSubsetOrdering
  <2>4. QED
    BY <1>2, <1>3, <2>3
<1>5. QED
  BY <1>4

\* What is true of 0, and of n if it is true of n - 1, is true up to any bound.
LEMMA Induction ==
    ASSUME NEW b \in Nat, NEW G, 0 \in G,
           \A n \in 1 .. b : n - 1 \in G => n \in G
    PROVE  0 .. b \subseteq G
<1> DEFINE S == (0 .. b) \ G
<1>1. SUFFICES ASSUME S # {} PROVE FALSE
  OBVIOUS
<1>2. PICK m \in S : \A n \in S : m <= n
  <2>1. S \subseteq Nat
    OBVIOUS
  <2> HIDE DEF S
  <2>2. QED
    BY <1>1, <2>1, LeastNatural
<1>3. m \in 1 .. b /\ m - 1 \in 0 .. b /\ ~(m <= m - 1)
  OBVIOUS
<1>4. m - 1 \in G
  BY <1>2, <1>3
<1>5. QED
  BY <1>3, <1>4

\* A set of places that is not empty has a last one.
LEMMA LastPlace ==
    ASSUME NEW n \in Nat, NEW s \in SUBSET (1 .. n), s # {}
    PROVE  Max(s) \in s
<1> DEFINE S == {n - k : k \in s}
<1>1. S \subseteq Nat /\ S # {}
  <2>1. \A k \in s : n - k \in Nat
    OBVIOUS
  <2>2. PICK k \in s : TRUE
    OBVIOUS
  <2>3. n - k \in S
    OBVIOUS
  <2>4. QED
    BY <2>1, <2>3
<1>2. PICK m \in S : \A j \in S : m <= j
  <2> HIDE DEF S
  <2>1. QED
    BY <1>1, LeastNatural
<1>3. PICK k \in s : m = n - k
  OBVIOUS
<1>4. \A j \in s : n - k <= n - j
  BY <1>2, <1>3
<1>5. \A j \in s : k >= j
  BY <1>4
<1>6. QED
  BY <1>5 DEF Max

Alone(C) == [root |-> [c \in C |-> c], rank |-> [c \in C |-> 0]]

\* h tells roots and ranks after each of the first n edges.
Linked(h, C, edges, n) ==
    /\ h[0] = Alone(C)
    /\ \A k \in 1 .. n : h[k] = LinkByRank(h[k - 1], edges[k])

\* GrainRoot, a fold, is what linking the edges one after the other leaves.
LEMMA GrainRootLinks ==
    ASSUME NEW C, NEW n \in Nat, NEW edges, DOMAIN edges = 1 .. n
    PROVE  \E h : Linked(h, C, edges, n) /\ GrainRoot(C, edges) = h[n].root
<1> DEFINE S == 1 .. n
           Body(F, s) == IF s = {} THEN Alone(C)
                         ELSE LinkByRank(F[s \ {Max(s)}], edges[Max(s)])
           Small(b) == {s \in SUBSET S : Cardinality(s) <= b}
           Defined(F, b) == F = [s \in Small(b) |-> Body(F, s)]
           G == {b \in Nat : \E F : Defined(F, b)}
<1>0. IsFiniteSet(S) /\ Cardinality(S) \in Nat
  <2>1. IsFiniteSet(S)
    BY FS_Interval
  <2>2. QED
    BY <2>1, FS_CardinalityType
<1>a. \A s \in SUBSET S : IsFiniteSet(s) /\ Cardinality(s) \in Nat /\ Cardinality(s) <= Cardinality(S)
                          /\ (Cardinality(s) = 0 <=> s = {})
  BY <1>0, FS_Subset, FS_CardinalityType, FS_EmptySet
<1>b. ASSUME NEW s \in SUBSET S, s # {}
      PROVE  /\ Max(s) \in s /\ s \ {Max(s)} \in SUBSET S
             /\ Cardinality(s \ {Max(s)}) = Cardinality(s) - 1
  <2>1. Max(s) \in s
    BY <1>b, LastPlace
  <2>2. QED
    BY <1>a, <2>1, FS_RemoveElement
<1>1. 0 \in G
  <2> DEFINE F == [s \in Small(0) |-> Alone(C)]
  <2>1. \A s \in Small(0) : s = {}
    BY <1>a
  <2>2. F = [s \in Small(0) |-> Body(F, s)]
    BY <2>1
  <2>3. QED
    BY <2>2
<1>2. ASSUME NEW b \in 1 .. Cardinality(S), b - 1 \in G
      PROVE  b \in G
  <2>1. PICK F : Defined(F, b - 1)
    BY <1>2
  <2> DEFINE H == [s \in Small(b) |-> Body(F, s)]
  <2>2. ASSUME NEW s \in Small(b - 1) PROVE s \in Small(b) /\ H[s] = F[s]
    <3>1. s \in SUBSET S /\ Cardinality(s) \in Nat /\ Cardinality(s) <= b - 1
      BY <1>a
    <3>2. s \in Small(b)
      BY <1>0, <3>1
    <3>3. F[s] = Body(F, s)
      BY <2>1
    <3> HIDE DEF Small, Body
    <3>4. QED
      BY <3>2, <3>3
  <2>3. ASSUME NEW s \in Small(b) PROVE Body(F, s) = Body(H, s)
    <3>1. CASE s = {}
      BY <3>1
    <3>2. CASE s # {}
      <4> DEFINE r == s \ {Max(s)}
      <4>1. r \in SUBSET S /\ Cardinality(r) = Cardinality(s) - 1 /\ Cardinality(s) \in Nat
            /\ Cardinality(s) <= b
        BY <1>a, <1>b, <3>2
      <4>2. r \in Small(b - 1)
        <5> HIDE DEF r
        <5>1. Cardinality(r) <= b - 1
          BY <1>0, <4>1
        <5>2. QED
          BY <4>1, <5>1
      <4>3. H[r] = F[r]
        <5> HIDE DEF r, H, Small
        <5>1. QED
          BY <2>2, <4>2
      <4> HIDE DEF H
      <4>4. QED
        BY <3>2, <4>3
    <3>3. QED
      BY <3>1, <3>2
  <2>4. H = [s \in Small(b) |-> Body(H, s)]
    <3> HIDE DEF Body, Small
    <3>1. QED
      BY <2>3
  <2>5. b \in Nat /\ \E K : Defined(K, b)
    <3>1. Defined(H, b)
      <4> HIDE DEF H, Small, Body
      <4>1. QED
        BY <2>4
    <3> HIDE DEF H, Defined
    <3>2. QED
      BY <1>0, <3>1
  <2>6. QED
    BY <2>5
<1>3. \E F : Defined(F, Cardinality(S))
  <2>1. Cardinality(S) \in G
    <3> HIDE DEF G, S
    <3>1. 0 .. Cardinality(S) \subseteq G
      BY <1>0, <1>1, <1>2, Induction
    <3>2. QED
      BY <1>0, <3>1
  <2>2. QED
    BY <2>1
<1>4. Small(Cardinality(S)) = SUBSET S
  BY <1>a
<1> DEFINE Fold(F) == F = [s \in SUBSET S |-> IF s = {} THEN Alone(C)
                                  ELSE LinkByRank(F[s \ {Max(s)}], edges[Max(s)])]
<1>5. \E F : Fold(F)
  <2> HIDE DEF Small
  <2>1. QED
    BY <1>3, <1>4
<1>6. \E F : Fold(F) /\ GrainRoot(C, edges) = F[S].root
  BY <1>5 DEF GrainRoot, FoldLeft, MapThenFoldSet, Alone
<1>7. PICK F : Fold(F) /\ GrainRoot(C, edges) = F[S].root
  BY <1>6
<1> DEFINE h == [k \in 0 .. n |-> F[1 .. k]]
<1>8. h[0] = Alone(C) /\ h[n] = F[S]
  <2>1. 1 .. 0 = {} /\ 0 \in 0 .. n /\ n \in 0 .. n
    OBVIOUS
  <2>2. F[{}] = Alone(C)
    <3>1. {} \in SUBSET S
      OBVIOUS
    <3>2. QED
      BY <1>7, <3>1
  <2>3. QED
    BY <2>1, <2>2
<1>9. ASSUME NEW k \in 1 .. n PROVE h[k] = LinkByRank(h[k - 1], edges[k])
  <2>1. 1 .. k \in SUBSET S /\ 1 .. k # {} /\ k - 1 \in 0 .. n /\ k \in 0 .. n
    OBVIOUS
  <2>2. Max(1 .. k) = k
    <3>1. k \in 1 .. k /\ \A j \in 1 .. k : k >= j
      OBVIOUS
    <3>2. \A x \in 1 .. k : (\A j \in 1 .. k : x >= j) => x = k
      OBVIOUS
    <3>3. QED
      BY <3>1, <3>2 DEF Max
  <2>3. (1 .. k) \ {k} = 1 .. (k - 1)
    OBVIOUS
  <2>4. F[1 .. k] = LinkByRank(F[(1 .. k) \ {Max(1 .. k)}], edges[Max(1 .. k)])
    BY <1>7, <2>1
  <2>5. QED
    BY <2>1, <2>2, <2>3, <2>4
<1> HIDE DEF h
<1>10. Linked(h, C, edges, n) /\ GrainRoot(C, edges) = h[n].root
  BY <1>7, <1>8, <1>9 DEF Linked
<1>11. QED
  BY <1>10

Forest(C) == [root : [C -> C], rank : [C -> Nat]]

\* The clusters under root r of f are under s.
Moved(C, f, r, s) == [c \in C |-> IF f.root[c] = r THEN s ELSE f.root[c]]

\* An edge between clusters with roots r and s makes g of f.
Relinked(C, f, r, s, g) ==
    /\ g \in Forest(C) /\ r \in C /\ s \in C
    /\ r = s => g = f
    /\ r # s /\ f.rank[r] > f.rank[s] =>
          g.root = Moved(C, f, s, r) /\ g.rank = f.rank
    /\ r # s /\ f.rank[r] <= f.rank[s] =>
          /\ g.root = Moved(C, f, r, s)
          /\ g.rank = IF f.rank[r] = f.rank[s] THEN [f.rank EXCEPT ![s] = @ + 1]
                      ELSE f.rank

\* What one more edge changes.
LEMMA LinkedOnce ==
    ASSUME NEW C, NEW f \in Forest(C), NEW e \in C \X C
    PROVE  Relinked(C, f, f.root[e[1]], f.root[e[2]], LinkByRank(f, e))
<1> DEFINE r == f.root[e[1]]
           s == f.root[e[2]]
           g == LinkByRank(f, e)
<1>1. /\ f.root \in [C -> C] /\ f.rank \in [C -> Nat] /\ r \in C /\ s \in C
      /\ f = [root |-> f.root, rank |-> f.rank]
  BY DEF Forest
<1>2. \A x, y \in C : /\ Under(f, x, y) = [root |-> Moved(C, f, x, y), rank |-> f.rank]
                      /\ Moved(C, f, x, y) \in [C -> C]
  BY <1>1 DEF Under, Moved
<1>3. g = IF r = s THEN f
          ELSE IF f.rank[r] > f.rank[s] THEN Under(f, s, r)
          ELSE IF f.rank[r] < f.rank[s] THEN Under(f, r, s)
          ELSE [Under(f, r, s) EXCEPT !.rank[s] = @ + 1]
  BY DEF LinkByRank
<1>4. f.rank[r] \in Nat /\ f.rank[s] \in Nat
  BY <1>1
<1> SUFFICES Relinked(C, f, r, s, g)
  OBVIOUS
<1> HIDE DEF r, s, g
<1>5. CASE r = s
  BY <1>1, <1>3, <1>5 DEF Relinked
<1>6. CASE r # s /\ f.rank[r] > f.rank[s]
  <2>1. g = [root |-> Moved(C, f, s, r), rank |-> f.rank]
    BY <1>1, <1>2, <1>3, <1>6
  <2>2. g \in Forest(C) /\ g.root = Moved(C, f, s, r) /\ g.rank = f.rank
    BY <1>1, <1>2, <2>1 DEF Forest
  <2>3. ~(f.rank[r] <= f.rank[s])
    BY <1>4, <1>6
  <2>4. QED
    BY <1>1, <1>6, <2>2, <2>3 DEF Relinked
<1>7. CASE r # s /\ f.rank[r] <= f.rank[s]
  <2> DEFINE up == IF f.rank[r] = f.rank[s] THEN [f.rank EXCEPT ![s] = @ + 1] ELSE f.rank
  <2>1. up \in [C -> Nat]
    BY <1>1
  <2>2. g = [root |-> Moved(C, f, r, s), rank |-> up]
    <3>1. CASE f.rank[r] = f.rank[s]
      <4>1. g = [Under(f, r, s) EXCEPT !.rank[s] = @ + 1]
        BY <1>3, <1>4, <1>7, <3>1
      <4>2. PICK m : m = Moved(C, f, r, s)
        OBVIOUS
      <4>3. PICK q \in [C -> Nat] : q = f.rank
        BY <1>1
      <4>4. g = [[root |-> m, rank |-> q] EXCEPT !.rank[s] = @ + 1]
        BY <1>1, <1>2, <4>1, <4>2, <4>3
      <4>5. g = [root |-> m, rank |-> [q EXCEPT ![s] = @ + 1]]
        BY <4>4
      <4>6. QED
        BY <3>1, <4>2, <4>3, <4>5
    <3>2. CASE f.rank[r] # f.rank[s]
      <4>1. g = Under(f, r, s)
        BY <1>3, <1>4, <1>7, <3>2
      <4>2. QED
        BY <1>1, <1>2, <3>2, <4>1
    <3>3. QED
      BY <3>1, <3>2
  <2>3. g \in Forest(C) /\ g.root = Moved(C, f, r, s) /\ g.rank = up
    <3> HIDE DEF up
    <3>1. QED
      BY <1>1, <1>2, <2>1, <2>2 DEF Forest
  <2>4. ~(f.rank[r] > f.rank[s])
    BY <1>4, <1>7
  <2>5. QED
    BY <1>1, <1>7, <2>3, <2>4 DEF Relinked
<1>8. QED
  BY <1>4, <1>5, <1>6, <1>7

LEMMA LinkedTyped ==
    ASSUME NEW C, NEW n \in Nat, NEW edges, \A k \in 1 .. n : edges[k] \in C \X C,
           NEW h, Linked(h, C, edges, n)
    PROVE  \A k \in 0 .. n : h[k] \in Forest(C)
<1> DEFINE G == {k \in Nat : h[k] \in Forest(C)}
<1>1. 0 \in G
  BY DEF Linked, Alone, Forest
<1>2. ASSUME NEW k \in 1 .. n, k - 1 \in G PROVE k \in G
  <2>1. h[k - 1] \in Forest(C) /\ h[k] = LinkByRank(h[k - 1], edges[k])
    BY <1>2 DEF Linked
  <2>2. h[k] \in Forest(C)
    BY <2>1, LinkedOnce DEF Relinked
  <2>3. QED
    BY <2>2
<1>3. 0 .. n \subseteq G
  <2> HIDE DEF G
  <2>1. QED
    BY <1>1, <1>2, Induction
<1>4. QED
  BY <1>3

\* root tells the components of the edges: it is the same at both ends of
\* each, and leads out of no set that none of them leaves.
Components(C, edges, n, root) ==
    /\ root \in [C -> C]
    /\ \A c \in C : root[root[c]] = root[c]
    /\ \A k \in 1 .. n : root[edges[k][1]] = root[edges[k][2]]
    /\ \A S \in SUBSET C :
          (\A k \in 1 .. n : edges[k][1] \in S <=> edges[k][2] \in S)
          => \A c \in S : root[c] \in S

\* One more edge joins the two components at its ends.
LEMMA ComponentsJoined ==
    ASSUME NEW C, NEW n \in Nat \ {0}, NEW edges, \A k \in 1 .. n : edges[k] \in C \X C,
           NEW root, Components(C, edges, n - 1, root), NEW a \in {1, 2}, NEW b \in {1, 2}, a # b,
           root[edges[n][a]] # root[edges[n][b]],
           NEW new,
           new = [c \in C |-> IF root[c] = root[edges[n][a]] THEN root[edges[n][b]] ELSE root[c]]
    PROVE  Components(C, edges, n, new)
<1> DEFINE r == root[edges[n][a]]
           s == root[edges[n][b]]
<1>1. /\ edges[n][a] \in C /\ edges[n][b] \in C /\ n \in 1 .. n
      /\ \A k \in 1 .. n : edges[k][1] \in C /\ edges[k][2] \in C
      /\ \A k \in 1 .. n : k = n \/ k \in 1 .. (n - 1)
      /\ \A k \in 1 .. (n - 1) : k \in 1 .. n
  OBVIOUS
<1>2. /\ root \in [C -> C] /\ r \in C /\ s \in C /\ r # s
      /\ root[r] = r /\ root[s] = s
      /\ \A c \in C : root[root[c]] = root[c]
  BY <1>1 DEF Components
<1>3. \A c \in C : new[c] = IF root[c] = r THEN s ELSE root[c]
  OBVIOUS
<1>4. new \in [C -> C]
  BY <1>2
<1>5. \A c \in C : new[new[c]] = new[c]
  BY <1>2, <1>3
<1>6. ASSUME NEW k \in 1 .. n PROVE new[edges[k][1]] = new[edges[k][2]]
  <2>1. CASE k = n
    <3>1. new[edges[n][a]] = s /\ new[edges[n][b]] = s
      BY <1>1, <1>2, <1>3
    <3>2. QED
      BY <2>1, <3>1
  <2>2. CASE k # n
    <3>1. root[edges[k][1]] = root[edges[k][2]]
      BY <1>1, <2>2 DEF Components
    <3>2. QED
      BY <1>1, <1>3, <3>1
  <2>3. QED
    BY <2>1, <2>2
<1>7. ASSUME NEW S \in SUBSET C, \A k \in 1 .. n : edges[k][1] \in S <=> edges[k][2] \in S,
             NEW c \in S
      PROVE  new[c] \in S
  <2>1. \A d \in S : root[d] \in S
    BY <1>1, <1>7 DEF Components
  <2>2. \A d \in C \ S : root[d] \in C \ S
    <3>1. C \ S \in SUBSET C /\ \A k \in 1 .. (n - 1) : edges[k][1] \in C \ S <=> edges[k][2] \in C \ S
      BY <1>1, <1>7
    <3>2. QED
      BY <3>1 DEF Components
  <2>3. edges[n][a] \in S <=> edges[n][b] \in S
    BY <1>1, <1>7
  <2>4. CASE root[c] = r
    <3>1. r \in S
      BY <2>1, <2>4
    <3>2. edges[n][a] \in S
      BY <1>1, <2>2, <3>1
    <3>3. s \in S
      BY <2>1, <2>3, <3>2
    <3>4. QED
      BY <1>3, <2>4, <3>3
  <2>5. CASE root[c] # r
    BY <1>3, <2>1, <2>5
  <2>6. QED
    BY <2>4, <2>5
<1>8. QED
  BY <1>4, <1>5, <1>6, <1>7 DEF Components

\* GrainRoot tells the components of the edges.
LEMMA GrainRootComponents ==
    ASSUME NEW C, NEW n \in Nat, NEW edges, DOMAIN edges = 1 .. n,
           \A k \in 1 .. n : edges[k] \in C \X C
    PROVE  Components(C, edges, n, GrainRoot(C, edges))
<1>1. PICK h : Linked(h, C, edges, n) /\ GrainRoot(C, edges) = h[n].root
  BY GrainRootLinks
<1>2. \A k \in 0 .. n : h[k] \in Forest(C)
  BY <1>1, LinkedTyped
<1> DEFINE G == {k \in Nat : Components(C, edges, k, h[k].root)}
<1>3. 0 \in G
  <2>1. h[0].root = [c \in C |-> c]
    BY <1>1 DEF Linked, Alone
  <2>2. QED
    BY <2>1 DEF Components
<1>4. ASSUME NEW k \in 1 .. n, k - 1 \in G PROVE k \in G
  <2> DEFINE f == h[k - 1]
             r == f.root[edges[k][1]]
             s == f.root[edges[k][2]]
  <2>1. /\ f \in Forest(C) /\ Components(C, edges, k - 1, f.root)
        /\ h[k] = LinkByRank(f, edges[k]) /\ edges[k] \in C \X C
        /\ k \in Nat \ {0} /\ \A j \in 1 .. k : edges[j] \in C \X C
    BY <1>1, <1>2, <1>4 DEF Linked
  <2>a. Relinked(C, f, r, s, h[k])
    BY <2>1, LinkedOnce
  <2> HIDE DEF f
  <2>2. CASE r = s
    <3>1. h[k] = f
      BY <2>a, <2>2 DEF Relinked
    <3>2. Components(C, edges, k, f.root)
      <4>1. \A j \in 1 .. k : j = k \/ j \in 1 .. (k - 1)
        BY <2>1
      <4>2. \A j \in 1 .. (k - 1) : j \in 1 .. k
        BY <2>1
      <4>3. QED
        BY <2>1, <2>2, <4>1, <4>2 DEF Components
    <3>3. QED
      BY <3>1, <3>2
  <2>3. CASE r # s
    <3>1. f.rank[r] \in Nat /\ f.rank[s] \in Nat
      BY <2>1 DEF Forest
    <3>2. h[k].root = Moved(C, f, s, r) \/ h[k].root = Moved(C, f, r, s)
      <4>1. f.rank[r] > f.rank[s] \/ f.rank[r] <= f.rank[s]
        BY <3>1
      <4>2. QED
        BY <2>a, <2>3, <4>1 DEF Relinked
    <3>3. CASE h[k].root = Moved(C, f, s, r)
      <4>1. Components(C, edges, k, h[k].root)
        BY <2>1, <2>3, <3>3, ComponentsJoined DEF Moved
      <4>2. QED
        BY <4>1
    <3>4. CASE h[k].root = Moved(C, f, r, s)
      <4>1. Components(C, edges, k, h[k].root)
        BY <2>1, <2>3, <3>4, ComponentsJoined DEF Moved
      <4>2. QED
        BY <4>1
    <3>5. QED
      BY <3>2, <3>3, <3>4
  <2>4. QED
    BY <2>2, <2>3
<1>5. n \in G
  <2> HIDE DEF G
  <2>1. 0 .. n \subseteq G
    BY <1>3, <1>4, Induction
  <2>2. QED
    BY <2>1
<1>6. QED
  BY <1>1, <1>5

----------------------------------------------------------------------------
(* The forest follows the fold *)

\* The ends of the transitions.
Edges == [k \in DOMAIN transitions |-> <<transitions[k].c1, transitions[k].c2>>]

\* h tells the roots and ranks that linking by rank alone leaves, and the
\* rebuild has the same, as far as it got.
RankedBy(h) ==
    /\ Linked(h, Cluster, Edges, Len(transitions))
    /\ GrainRoot(Cluster, Edges) = h[Len(transitions)].root
    /\ \A c \in Cluster : GP!Root(c) = h[Processed].root[c]
    /\ rank = h[Processed].rank

Ranked == \E h : RankedBy(h)

\* Before the first edge every cluster is a root of rank zero.
LEMMA RankedAtFirst ==
    ASSUME NEW ts \in Seq(Transition), NEW edges, DOMAIN edges = DOMAIN ts
    PROVE  \E h : /\ Linked(h, Cluster, edges, Len(ts))
                  /\ GrainRoot(Cluster, edges) = h[Len(ts)].root
                  /\ \A c \in Cluster : GP!Singletons[c].root = h[0].root[c]
                  /\ h[0].rank = [c \in Cluster |-> 0]
<1>1. PICK n \in Nat : n = Len(ts)
  OBVIOUS
<1>a. DOMAIN edges = 1 .. n
  BY <1>1
<1>b. \E h : Linked(h, Cluster, edges, n) /\ GrainRoot(Cluster, edges) = h[n].root
  BY <1>1, <1>a, GrainRootLinks
<1>2. PICK h : /\ Linked(h, Cluster, edges, Len(ts))
               /\ GrainRoot(Cluster, edges) = h[Len(ts)].root
  BY <1>1, <1>b
<1>3. h[0].root = [c \in Cluster |-> c] /\ h[0].rank = [c \in Cluster |-> 0]
  BY <1>2 DEF Linked, Alone
<1>4. \A c \in Cluster : GP!Singletons[c].root = c
  BY DEF GP!Singletons, GP!Cluster, Cluster
<1>5. QED
  BY <1>2, <1>3, <1>4

\* The next edge is linked as LinkByRank does it.
LEMMA RankedStep ==
    ASSUME TypeOK, pc = "link", NextTransition, UNCHANGED transitions,
           NEW h, RankedBy(h)
    PROVE  LET t == transitions[i]
               f == h[Processed]
           IN  /\ f \in Forest(Cluster)
               /\ t.c1 \in Cluster /\ t.c2 \in Cluster
               /\ Relinked(Cluster, f, GP!Root(t.c1), GP!Root(t.c2), h[Processed'])
<1> DEFINE t == transitions[i]
           n == Len(transitions)
           f == h[Processed]
<1>1. /\ i \in 1 .. n /\ n \in Nat /\ Processed = i - 1 /\ Processed' = i
      /\ t.c1 \in Cluster /\ t.c2 \in Cluster
  BY NextTransitionType, TransitionAt DEF TypeOK
<1>2. \A k \in 1 .. n : Edges[k] = <<transitions[k].c1, transitions[k].c2>>
  BY DEF TypeOK, Edges
<1>3. \A k \in 1 .. n : Edges[k] \in Cluster \X Cluster
  <2>1. \A k \in 1 .. n : transitions[k] \in Transition
    BY DEF TypeOK
  <2>2. \A k \in 1 .. n : transitions[k].c1 \in Cluster /\ transitions[k].c2 \in Cluster
    BY <2>1 DEF Transition
  <2>3. QED
    <3> HIDE DEF n
    <3>1. QED
      BY <1>2, <2>2
<1>4. Linked(h, Cluster, Edges, n)
  BY DEF RankedBy
<1>5. f \in Forest(Cluster)
  <2>1. \A k \in 0 .. n : h[k] \in Forest(Cluster)
    BY <1>1, <1>3, <1>4, LinkedTyped
  <2>2. QED
    BY <1>1, <2>1
<1>6. h[Processed'] = LinkByRank(f, Edges[i])
  BY <1>1, <1>4 DEF Linked
<1>7. Edges[i][1] = t.c1 /\ Edges[i][2] = t.c2 /\ Edges[i] \in Cluster \X Cluster
  BY <1>1, <1>2, <1>3
<1>8. f.root[t.c1] = GP!Root(t.c1) /\ f.root[t.c2] = GP!Root(t.c2)
  BY <1>1 DEF RankedBy
<1> HIDE DEF f
<1>9. Relinked(Cluster, f, f.root[Edges[i][1]], f.root[Edges[i][2]], LinkByRank(f, Edges[i]))
  BY <1>5, <1>7, LinkedOnce
<1>10. Relinked(Cluster, f, GP!Root(t.c1), GP!Root(t.c2), h[Processed'])
  BY <1>6, <1>7, <1>8, <1>9
<1>11. QED
  BY <1>1, <1>5, <1>10 DEF f

\* Absorbing a grain moves its clusters under the other root.
LEMMA AbsorbedMoves ==
    ASSUME NEW f \in Forest(Cluster), \A c \in Cluster : GP!Root(c) = f.root[c],
           NEW r \in Cluster, NEW s \in Cluster, NEW g,
           grain' = GP!Absorbed(r, s, g)
    PROVE  \A c \in Cluster : GP!Root(c)' = Moved(Cluster, f, r, s)[c]
<1>1. \A c \in Cluster : grain'[c] = IF GP!Root(c) = r THEN [root |-> s, tm |-> Mul(g, GP!ToRoot(c))]
                                     ELSE grain[c]
  BY DEF GP!Absorbed, GP!Cluster, Cluster
<1>2. \A c \in Cluster : grain'[c].root = IF GP!Root(c) = r THEN s ELSE GP!Root(c)
  <2>1. ASSUME NEW c \in Cluster, GP!Root(c) = r PROVE grain'[c].root = s
    <3>1. PICK m : m = Mul(g, GP!ToRoot(c))
      OBVIOUS
    <3>2. grain'[c] = [root |-> s, tm |-> m]
      BY <1>1, <2>1, <3>1
    <3>3. QED
      BY <3>2
  <2>2. ASSUME NEW c \in Cluster, GP!Root(c) # r PROVE grain'[c].root = GP!Root(c)
    <3>1. grain'[c] = grain[c]
      BY <1>1, <2>2
    <3>2. QED
      BY <3>1 DEF GP!Root
  <2>3. QED
    BY <2>1, <2>2
<1>3. QED
  BY <1>2 DEF Moved, GP!Root

\* At any moment of the rebuild, roots and ranks are those of the fold.
LEMMA RankedCorrect == Spec => []Ranked
<1>1. Init => Ranked
  <2> SUFFICES ASSUME Init PROVE Ranked
    OBVIOUS
  <2>1. transitions \in Seq(Transition) /\ Processed = 0
    BY DEF Init, Processed
  <2>2. PICK h : /\ Linked(h, Cluster, Edges, Len(transitions))
                 /\ GrainRoot(Cluster, Edges) = h[Len(transitions)].root
                 /\ \A c \in Cluster : GP!Singletons[c].root = h[0].root[c]
                 /\ h[0].rank = [c \in Cluster |-> 0]
    <3>1. DOMAIN Edges = DOMAIN transitions
      BY DEF Edges
    <3>2. QED
      BY <2>1, <3>1, RankedAtFirst
  <2>3. RankedBy(h)
    BY <2>1, <2>2 DEF Init, RankedBy, GP!Root
  <2>4. QED
    BY <2>3 DEF Ranked
<1>2. ASSUME TypeOK, IInv, Ranked, [Next]_vars PROVE Ranked'
  <2>1. PICK h : RankedBy(h)
    BY <1>2 DEF Ranked
  <2>2. ASSUME UNCHANGED <<transitions, grain, rank>>, Processed' = Processed PROVE Ranked'
    <3>1. RankedBy(h)'
      <4>1. /\ transitions' = transitions /\ grain' = grain /\ rank' = rank
            /\ Edges' = Edges
        BY <2>2 DEF Edges
      <4>2. \A c \in Cluster : GP!Root(c)' = GP!Root(c)
        BY <4>1 DEF GP!Root
      <4>3. QED
        BY <2>1, <2>2, <4>1, <4>2 DEF RankedBy
    <3>2. QED
      BY <3>1 DEF Ranked
  <2>3. CASE Enter \/ Climb
    BY <2>2, <2>3 DEF Enter, Climb, Processed
  <2>4. CASE ReturnSelf \/ ReturnCompressed
    <3>1. Advance /\ UNCHANGED <<transitions, grain, rank>>
      BY <2>4 DEF ReturnSelf, ReturnCompressed
    <3>2. Processed' = Processed
      BY <1>2, <3>1, AdvanceType
    <3>3. QED
      BY <2>2, <3>1, <3>2
  <2>5. ASSUME SkipTransition \/ LinkRoots PROVE Ranked'
    <3> DEFINE t == transitions[i]
               r == GP!Root(t.c1)
               s == GP!Root(t.c2)
               f == h[Processed]
               n == Len(transitions)
    <3>1. pc = "link" /\ NextTransition /\ UNCHANGED transitions
      BY <2>5 DEF SkipTransition, LinkRoots
    <3>2. PICK g : g = h[Processed']
      OBVIOUS
    <3>3. /\ f \in Forest(Cluster) /\ t.c1 \in Cluster /\ t.c2 \in Cluster
          /\ Relinked(Cluster, f, r, s, g)
      BY <1>2, <2>1, <3>1, <3>2, RankedStep
    <3>4. r = Top(t.c1) /\ s = Top(t.c2)
      BY <1>2, <3>1, LinkedEnds DEF IInv
    <3>5. r \in Cluster /\ s \in Cluster /\ f.rank \in [Cluster -> Nat] /\ rank = f.rank
          /\ \A c \in Cluster : GP!Root(c) = f.root[c]
      BY <2>1, <3>3 DEF Relinked, Forest, RankedBy
    <3>6. SUFFICES (\A c \in Cluster : GP!Root(c)' = g.root[c]) /\ rank' = g.rank
      <4>1. Edges' = Edges /\ transitions' = transitions
        BY <3>1 DEF Edges
      <4>2. RankedBy(h)'
        BY <2>1, <3>2, <3>6, <4>1 DEF RankedBy
      <4>3. QED
        BY <4>2 DEF Ranked
    <3>7. CASE SkipTransition
      <4>1. r = s /\ grain' = grain /\ rank' = rank
        BY <3>4, <3>7 DEF SkipTransition
      <4>2. g = f
        BY <3>3, <4>1 DEF Relinked
      <4>3. \A c \in Cluster : GP!Root(c)' = GP!Root(c)
        BY <4>1 DEF GP!Root
      <4>4. QED
        BY <3>5, <4>1, <4>2, <4>3
    <3>8. CASE LinkRoots
      <4>1. /\ r # s
            /\ \/ /\ rank[r] > rank[s] /\ rank' = rank
                  /\ grain' = GP!Absorbed(s, r, Inv(GP!Joint(t)))
               \/ /\ rank[r] <= rank[s]
                  /\ rank' = IF rank[r] = rank[s] THEN [rank EXCEPT ![s] = @ + 1] ELSE rank
                  /\ grain' = GP!Absorbed(r, s, GP!Joint(t))
        BY <3>4, <3>8 DEF LinkRoots, Promoted
      <4> HIDE DEF r, s, f
      <4>2. CASE /\ rank[r] > rank[s] /\ rank' = rank
                 /\ grain' = GP!Absorbed(s, r, Inv(GP!Joint(t)))
        <5>1. g.root = Moved(Cluster, f, s, r) /\ g.rank = f.rank
          BY <3>3, <3>5, <4>1, <4>2 DEF Relinked
        <5>2. \A c \in Cluster : GP!Root(c)' = Moved(Cluster, f, s, r)[c]
          BY <3>3, <3>5, <4>2, AbsorbedMoves
        <5>3. QED
          BY <3>5, <4>2, <5>1, <5>2
      <4>3. CASE /\ rank[r] <= rank[s]
                 /\ rank' = IF rank[r] = rank[s] THEN [rank EXCEPT ![s] = @ + 1] ELSE rank
                 /\ grain' = GP!Absorbed(r, s, GP!Joint(t))
        <5>1. /\ g.root = Moved(Cluster, f, r, s)
              /\ g.rank = IF f.rank[r] = f.rank[s] THEN [f.rank EXCEPT ![s] = @ + 1] ELSE f.rank
          BY <3>3, <3>5, <4>1, <4>3 DEF Relinked
        <5>2. \A c \in Cluster : GP!Root(c)' = Moved(Cluster, f, r, s)[c]
          BY <3>3, <3>5, <4>3, AbsorbedMoves
        <5>3. QED
          BY <3>5, <4>3, <5>1, <5>2
      <4>4. QED
        BY <4>1, <4>2, <4>3
    <3>9. QED
      BY <2>5, <3>7, <3>8
  <2>6. CASE Rebuild
    <3>1. /\ transitions' \in Seq(Transition) /\ Processed' = 0
          /\ grain' = GP!Singletons /\ rank' = [c \in Cluster |-> 0]
      <4>1. transitions' \in Seq(Transition)
        BY <2>6, PartitionAssumption DEF Rebuild
      <4>2. Processed' = 0
        BY <2>6, <4>1 DEF Rebuild, Processed
      <4>3. QED
        BY <2>6, <4>1, <4>2 DEF Rebuild
    <3>2. PICK edges : edges = Edges'
      OBVIOUS
    <3>4. DOMAIN edges = DOMAIN transitions'
      BY <3>2 DEF Edges
    <3>5. PICK g : /\ Linked(g, Cluster, edges, Len(transitions'))
                   /\ GrainRoot(Cluster, edges) = g[Len(transitions')].root
                   /\ \A c \in Cluster : GP!Singletons[c].root = g[0].root[c]
                   /\ g[0].rank = [c \in Cluster |-> 0]
      BY <3>1, <3>4, RankedAtFirst
    <3>6. \A c \in Cluster : GP!Root(c)' = GP!Singletons[c].root
      BY <3>1 DEF GP!Root
    <3>7. RankedBy(g)'
      BY <3>1, <3>2, <3>5, <3>6 DEF RankedBy
    <3>8. QED
      BY <3>7 DEF Ranked
  <2>7. CASE UNCHANGED vars
    BY <2>2, <2>7 DEF vars, Processed
  <2>8. QED
    BY <1>2, <2>3, <2>4, <2>5, <2>6, <2>7 DEF Next, Work
<1>3. QED
  BY <1>1, <1>2, TypeCorrect, InvariantCorrect, PTL DEF Spec

\* The root of every cluster after a rebuild is the one that linking by rank
\* alone gives, however the climbs and compressions interleaved with it.
THEOREM RootsByRankCorrect == Spec => []RootsByRank
<1>1. ASSUME Flattened, Ranked PROVE RootsByRank
  <2> SUFFICES ASSUME pc = "idle", NEW c \in Cluster
               PROVE  Top(c) = GrainRoot(Cluster, Edges)[c]
    BY DEF RootsByRank, Edges
  <2>1. PICK h : RankedBy(h)
    BY <1>1 DEF Ranked
  <2>2. Processed = Len(transitions)
    BY DEF Processed
  <2>3. QED
    BY <1>1, <2>1, <2>2 DEF Flattened, RankedBy
<1>2. QED
  BY <1>1, FlattenedCorrect, RankedCorrect, PTL
=============================================================================
