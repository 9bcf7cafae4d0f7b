--------------------------- MODULE SymmetryChoice ---------------------------
(***************************************************************************)
(* The symmetries of atoms are chosen anew along their bonds (canonicalize-*)
(* SymmetryPermutationsImpl in src/analysis/reconstructed_state_           *)
(* canonicalizer.cpp): before the build among all atoms                    *)
(* (canonicalizeConnectedStructureSymmetries), and after it, for the       *)
(* export, within each cluster (canonicalizeSymmetryPermutations).  The    *)
(* build between the two is that of ClusterGrowth.                         *)
(***************************************************************************)
EXTENDS ClusterGrowth

VARIABLES call,                 \* the call that runs: "connected" or "clusters"
          made,                 \* the calls there have been
          canonicalSymmetry,
          choiceSeed, choiceQueue,
          exported              \* the symmetries the export sees

choice == <<call, made, canonicalSymmetry, choiceSeed, choiceQueue, exported>>
choiceVars == <<vars, choice>>

Unchosen == [a \in Atom |-> NoSymmetry]

\* shouldVisitAtom and shouldTraverseNeighbor.
Visited(a) == structureTypes[a] # Other /\ (call = "clusters" => atomClusters[a] # NoCluster)
Together(a, b) == call = "clusters" => atomClusters[b] = atomClusters[a]

\* An empty mask allows every symmetry.
Permitted(a) == IF input.allowed[a] = {} THEN Tm ELSE input.allowed[a]

IdentityFirst(a) ==            \* variant: the symmetry an atom has is not asked for
    IF Id \in Permitted(a) THEN Id ELSE CHOOSE s \in Permitted(a) : \A u \in Permitted(a) : s <= u

\* The one the atom has, the identity, or the first: what the mask permits.
InitialSymmetry(a) ==
    IF atomSymmetry[a] \in Permitted(a) THEN atomSymmetry[a]
    ELSE IF Id \in Permitted(a) THEN Id
    ELSE CHOOSE s \in Permitted(a) : \A u \in Permitted(a) : s <= u

\* What the symmetry of atom a and its bond in slot n tell of the neighbour.
Implied(a, n) == Mul(canonicalSymmetry[a], input.bond[a][n])

Resolves(a, n) ==
    LET b == Neighbor(a, n) IN
    /\ b # a /\ Together(a, b)
    /\ structureTypes[b] = structureTypes[a]
    /\ canonicalSymmetry[b] = NoSymmetry
    /\ input.bond[a][n] # NoOverlap
    /\ Implied(a, n) \in Permitted(b)

\* The slots of atom a that resolve a neighbour, each neighbour once.
ResolvingSlots(a) ==
    {n \in DOMAIN input.neighbors[a] :
        /\ Resolves(a, n)
        /\ \A m \in 1 .. n - 1 : Resolves(a, m) => Neighbor(a, m) # Neighbor(a, n)}

\* The slots of a set one after the other, as the loop comes to them.
InOrder(slots) ==
    CHOOSE s \in [1 .. Cardinality(slots) -> slots] :
        /\ \A n \in slots : \E i \in DOMAIN s : s[i] = n
        /\ \A i, j \in DOMAIN s : i < j => s[i] < s[j]

----------------------------------------------------------------------------
BeginChoice(c) ==
    /\ call = "none" /\ c \notin made
    /\ \/ c = "connected" /\ pc = "seeds" /\ seed = 1
       \/ c = "clusters" /\ pc = "done"
    /\ call' = c /\ made' = made \cup {c}
    /\ choiceSeed' = 1
    /\ UNCHANGED <<vars, canonicalSymmetry, choiceQueue, exported>>

IsSeed(a) == Visited(a) /\ canonicalSymmetry[a] = NoSymmetry

\* The queue is empty: the next atom without a symmetry gets its initial one.
NextChoiceSeed ==
    /\ call # "none" /\ choiceQueue = <<>> /\ choiceSeed \in Atom
    /\ choiceSeed' = choiceSeed + 1
    /\ IF IsSeed(choiceSeed)
       THEN /\ canonicalSymmetry' = [canonicalSymmetry EXCEPT ![choiceSeed] = InitialSymmetry(choiceSeed)]
            /\ choiceQueue' = <<choiceSeed>>
       ELSE UNCHANGED <<canonicalSymmetry, choiceQueue>>
    /\ UNCHANGED <<vars, call, made, exported>>

\* The neighbours of the first atom of the queue are resolved.
ResolveNeighbors ==
    /\ choiceQueue # <<>>
    /\ LET a == Head(choiceQueue)
           slots == InOrder(ResolvingSlots(a))
       IN  /\ canonicalSymmetry' =
                  [b \in Atom |->
                      IF \E n \in ResolvingSlots(a) : Neighbor(a, n) = b
                      THEN Implied(a, CHOOSE n \in ResolvingSlots(a) : Neighbor(a, n) = b)
                      ELSE canonicalSymmetry[b]]
           /\ choiceQueue' = Tail(choiceQueue) \o [i \in DOMAIN slots |-> Neighbor(a, slots[i])]
    /\ UNCHANGED <<vars, call, made, choiceSeed, exported>>

\* What is written for each atom.
Canonical(a) ==
    IF ~Visited(a) THEN atomSymmetry[a]
    ELSE IF canonicalSymmetry[a] # NoSymmetry THEN canonicalSymmetry[a]
    ELSE InitialSymmetry(a)

Finished == call # "none" /\ choiceQueue = <<>> /\ choiceSeed \notin Atom

\* The symmetries of the context are replaced.  Those for the export are kept
\* beside those the build left, to compare the two.
WriteSymmetries ==
    /\ Finished
    /\ IF call = "connected"
       THEN atomSymmetry' = [a \in Atom |-> Canonical(a)] /\ UNCHANGED exported
       ELSE exported' = [a \in Atom |-> Canonical(a)] /\ UNCHANGED atomSymmetry
    /\ call' = "none" /\ canonicalSymmetry' = Unchosen
    /\ UNCHANGED <<input, structureTypes, atomClusters, clusters, pc, seed, atomsToVisit,
                   current, neighborIndex, made, choiceSeed, choiceQueue>>

ChoiceInit ==
    /\ Init
    /\ call = "none" /\ made = {}
    /\ canonicalSymmetry = Unchosen /\ exported = Unchosen
    /\ choiceSeed = 1 /\ choiceQueue = <<>>

Build == call = "none" /\ Next /\ UNCHANGED choice

ChoiceStep == NextChoiceSeed \/ ResolveNeighbors \/ WriteSymmetries

ChoiceNext == Build \/ (\E c \in {"connected", "clusters"} : BeginChoice(c)) \/ ChoiceStep

\* A call that runs goes on; whether there is one is the caller's affair.
ChoiceSpec == ChoiceInit /\ [][ChoiceNext]_choiceVars /\ WF_choiceVars(Build) /\ WF_choiceVars(ChoiceStep)

----------------------------------------------------------------------------
(* Correctness *)

\* The symmetries chosen are initial ones of their atoms, or carried along
\* bonds from such: no set of atoms has others without a bond that leads in.
CarriedFromInitial ==
    \A S \in SUBSET {a \in Atom : Visited(a) /\ canonicalSymmetry[a] # InitialSymmetry(a)} :
        S # {} => \E a \in Atom \ S, b \in S : \E n \in DOMAIN input.neighbors[a] :
            /\ Neighbor(a, n) = b /\ Visited(a) /\ Together(a, b)
            /\ input.bond[a][n] # NoOverlap
            /\ canonicalSymmetry[b] = Implied(a, n)

\* Every bond within cluster c leads from the symmetry of one atom to that of
\* the other.
BondsAgree(c) ==
    \A a \in Members(c) : \A n \in DOMAIN input.neighbors[a] :
        LET b == Neighbor(a, n) IN
        b \in Members(c) \ {a} /\ input.bond[a][n] # NoOverlap => atomSymmetry[b] = CarriedAlong(a, n)

\* A build's cluster keeps its symmetries, and with them its orientation, if no
\* atom has a mask, or if its bonds agree and the masks permit the symmetries
\* the reorientation gave its atoms.  (A mask is not turned with the atom.)
ClusterKept(c) ==
    \/ \A a \in Members(c) : input.allowed[a] = Tm
    \/ BondsAgree(c) /\ \A a \in Members(c) : atomSymmetry[a] \in Permitted(a)
    => \A a \in Members(c) : canonicalSymmetry[a] = atomSymmetry[a]

\* A choice is one along the bonds, and what is exported is what was built.
SymmetriesCanonical ==
    Finished => /\ CarriedFromInitial
                /\ call = "clusters" => \A c \in DOMAIN clusters : ClusterKept(c)
=============================================================================
