------------------------ MODULE ShellCanonicalization ------------------------
(***************************************************************************)
(* Neighbour lists are rewritten so that the slot of a neighbour says in   *)
(* which ideal direction it lies (canonicalizeNeighborShellsTo-            *)
(* ExportConvention in src/analysis/reconstructed_state_canonicalizer.cpp) *)
(* by where the neighbours really are, or else by the atom's symmetry.     *)
(*                                                                         *)
(* All lists lie one after the other in one array.  An entry of it is      *)
(* named by its place before the call.  One structure with one symmetry    *)
(* group, the permutations of its ideal directions; a direction is named   *)
(* by its slot.                                                            *)
(***************************************************************************)
EXTENDS Integers, Sequences, SequencesExt

CONSTANTS NumAtoms,
          Coordination,    \* the number of ideal directions
          Symmetries, NoSymmetry,
          Fit,             \* cosines of directions: 2 the same, 1 half and more, 0 less
          NoDirection,     \* of a neighbour that is at the same place
          AtomInputs,
          Ideal, Given, Zero    \* vectors: the slot's, one set before the call, none

Atom == 1 .. NumAtoms
Slot == 1 .. Coordination
Same == [s \in Slot |-> s]      \* exportSymmetry, the one of the identity matrix

ASSUME ShellAssumption ==
    /\ NumAtoms \in Nat \ {0} /\ Coordination \in Nat \ {0}
    /\ Symmetries \subseteq {f \in [Slot -> Slot] : \A c, d \in Slot : f[c] = f[d] => c = d}
    /\ Same \in Symmetries /\ NoSymmetry \notin Symmetries
    /\ Fit \in [Slot -> [Slot -> 0 .. 2]] /\ NoDirection \notin Slot
    /\ \A d, e \in Slot : Fit[d][e] = 2 <=> d = e
    /\ AtomInputs \subseteq [typed : BOOLEAN, oriented : BOOLEAN,
                             symmetry : Symmetries \cup {NoSymmetry},
                             shell : Seq(Slot \cup {NoDirection})]

VARIABLES input,       \* of each atom
          given,       \* are there vectors from before
          indices, symmetry, vectors,       \* the context and the analysis
          newIndices, newSymmetry, newVectors,
          atom         \* the loop over the atoms, 0 when the call has returned

context == <<indices, symmetry, vectors>>
shellVars == <<input, given, context, newIndices, newSymmetry, newVectors, atom>>

Length(a) == Len(input[a].shell)

\* Where the list of atom a begins in the array, and what its entries are.
Start(a) == Len(FlattenSeq([b \in 1 .. a - 1 |-> input[b].shell]))
Entries(a) == Start(a) + 1 .. Start(a) + Length(a)
Total == Start(NumAtoms) + Length(NumAtoms)
Directions == FlattenSeq([a \in Atom |-> input[a].shell])

ShellInit ==
    /\ input \in [Atom -> AtomInputs] /\ given \in BOOLEAN
    /\ indices = [p \in 1 .. Total |-> p]
    /\ symmetry = [a \in Atom |-> input[a].symmetry]
    /\ vectors = [a \in Atom |-> [s \in Slot |->
                    IF given /\ s <= Length(a) THEN Given ELSE Zero]]
    /\ newIndices = indices
    /\ newSymmetry = [a \in Atom |-> NoSymmetry]
    /\ newVectors = [a \in Atom |-> [s \in Slot |-> Zero]]
    /\ atom = 1

\* The slots of an atom's list that are rewritten.
Exported(a) == {s \in Slot : s <= Length(a)}

FitAt(a, f, s) == Fit[Directions[Start(a) + s]][f[s]]

\* Of the orders of the slots those of greatest weight, any of which may be the
\* one that is found.
Assigned(a) ==
    LET weight(f) == SumFunction([s \in Exported(a) |-> FitAt(a, f, s)])
        permutations == {f \in [Exported(a) -> Exported(a)] : IsInjective(f)}
    IN  IF ~input[a].oriented \/ \E s \in Exported(a) : Directions[Start(a) + s] = NoDirection
        THEN {} ELSE {f \in permutations : \A g \in permutations : weight(g) <= weight(f)}

\* Every neighbour is put in a slot it fits.
Fits(a, f) == \A s \in Exported(a) : FitAt(a, f, s) >= 1

\* No order is found, or one that does not fit.
GeometryFails(a) == Assigned(a) = {} \/ \E f \in Assigned(a) : ~Fits(a, f)

Write(a, list, sym, slots) ==
    /\ newIndices' = list
    /\ newSymmetry' = [newSymmetry EXCEPT ![a] = sym]
    /\ newVectors' = [newVectors EXCEPT ![a] = slots]
    /\ atom' = a + 1
    /\ UNCHANGED <<input, given, context>>

IdealIn(slots, others) == [s \in Slot |-> IF s \in slots THEN Ideal ELSE others[s]]

----------------------------------------------------------------------------
(* The loop over the atoms *)

SkipAtom(a) ==
    /\ ~input[a].typed \/ Length(a) = 0
    /\ Write(a, newIndices, symmetry[a], newVectors[a])

\* Without a valid symmetry, or a known structure, there are the old vectors.
KeepShell(a) ==
    /\ input[a].typed /\ Length(a) > 0 /\ symmetry[a] = NoSymmetry
    /\ Write(a, newIndices, NoSymmetry, IF given THEN vectors[a] ELSE newVectors[a])

\* Neighbour s goes to slot f[s] of its list.
Placed(a, f) ==
    [p \in 1 .. Total |->
        IF p - Start(a) \in Exported(a)
        THEN Start(a) + CHOOSE s \in Exported(a) : f[s] = p - Start(a)
        ELSE newIndices[p]]

PlaceByGeometry(a) ==
    /\ input[a].typed /\ Length(a) > 0 /\ symmetry[a] # NoSymmetry
    /\ \E f \in Assigned(a) :
          Fits(a, f) /\ Write(a, Placed(a, f), Same, IdealIn(Exported(a), newVectors[a]))

\* Slots, in their order, whose entry is found: the atom's symmetry can lead
\* into the next list, but not out of the array.
Found(a) ==
    {s \in Exported(a) : \A t \in 1 .. s : Start(a) + symmetry[a][t] <= Total}

Moved(a) ==
    [p \in 1 .. Total |-> IF p - Start(a) \in Found(a)
                          THEN Start(a) + symmetry[a][p - Start(a)] ELSE newIndices[p]]

PlaceBySymmetry(a) ==
    /\ input[a].typed /\ Length(a) > 0 /\ symmetry[a] # NoSymmetry
    /\ GeometryFails(a) /\ Found(a) = Exported(a)
    /\ Write(a, Moved(a), Same, IdealIn(Found(a), newVectors[a]))

Unrestored(a, list) == list                                \* variant

\* A list that was begun is put back.
Restored(a, list) == [p \in 1 .. Total |-> IF p \in Entries(a) THEN indices[p] ELSE list[p]]

RestoreShell(a) ==
    /\ input[a].typed /\ Length(a) > 0 /\ symmetry[a] # NoSymmetry
    /\ GeometryFails(a) /\ Found(a) # Exported(a)
    /\ LET begun == IdealIn(Found(a), newVectors[a])
           old == [s \in Slot |-> IF given /\ s <= Length(a) THEN vectors[a][s] ELSE begun[s]]
       IN  Write(a, Restored(a, Moved(a)), symmetry[a],
                 IdealIn({symmetry[a][s] : s \in Exported(a)}, old))

VisitAtom(a) ==
    SkipAtom(a) \/ KeepShell(a) \/ PlaceByGeometry(a) \/ PlaceBySymmetry(a) \/ RestoreShell(a)

\* All lists, symmetries and vectors are replaced at once.
Publish ==
    /\ atom = NumAtoms + 1 /\ atom' = 0
    /\ indices' = newIndices /\ symmetry' = newSymmetry /\ vectors' = newVectors
    /\ UNCHANGED <<input, given, newIndices, newSymmetry, newVectors>>

ReturnShells == atom = 0 /\ UNCHANGED shellVars

ShellNext == (atom \in Atom /\ VisitAtom(atom)) \/ Publish \/ ReturnShells

ShellSpec == ShellInit /\ [][ShellNext]_shellVars

----------------------------------------------------------------------------
(* Correctness *)

\* May the list of an atom be rewritten by its symmetry, and must it be, as no
\* order that can be found fits?
BySymmetry(a) ==
    input[a].typed /\ Length(a) > 0 /\ input[a].symmetry # NoSymmetry /\ GeometryFails(a)
OnlyBySymmetry(a) == BySymmetry(a) /\ \A f \in Assigned(a) : ~Fits(a, f)

\* The symmetry, a permutation of all slots, leads a list that does not have
\* them all into the lists behind it, and not out of the array.
LeadsAway(a) ==
    /\ \E s \in Exported(a) : input[a].symmetry[s] > Length(a)
    /\ \A s \in Exported(a) : Start(a) + input[a].symmetry[s] <= Total

\* An atom has the neighbours it had, except for a list that is rewritten by a
\* symmetry that leads away: that one has lost some and taken others in.
ShellKept(a) ==
    LET kept == {indices[p] : p \in Entries(a)} = Entries(a)
    IN  /\ kept \/ (BySymmetry(a) /\ LeadsAway(a))
        /\ OnlyBySymmetry(a) /\ LeadsAway(a) => ~kept

\* Does the symmetry of the atom say where its neighbours are, as everywhere
\* else: is neighbour s in the direction symmetry[s]?
Truthful(a) ==
    /\ input[a].typed /\ input[a].symmetry # NoSymmetry /\ Length(a) >= Coordination
    /\ \A s \in Slot : input[a].shell[s] = input[a].symmetry[s]

\* A full list that is true to its symmetry has Same for its symmetry after
\* the call.  By geometry the neighbour in each slot is then in the direction
\* of the slot; by symmetry it is in the direction the symmetry maps the slot
\* to when applied twice, which is the slot's for symmetries that are their own
\* inverse only.
ShellConventional(a) ==
    Truthful(a) =>
        /\ symmetry[a] = Same
        /\ \A s \in Slot :
              /\ vectors[a][s] = Ideal
              /\ Directions[indices[Start(a) + s]] =
                    IF input[a].oriented THEN s ELSE input[a].symmetry[input[a].symmetry[s]]

\* When the call returns it is known of every list whether it has its
\* neighbours still, and of those that are full and true to their symmetry in
\* which direction the neighbour of each slot is: wrong only where the two
\* definitions above say so.
ShellsCanonical == atom = 0 => \A a \in Atom : ShellKept(a) /\ ShellConventional(a)
=============================================================================
