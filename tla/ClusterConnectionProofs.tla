---------------------- MODULE ClusterConnectionProofs ----------------------
(***************************************************************************)
(* Linking clusters and completing neighbour lists is right for any atoms, *)
(* labels, lists and misorientations.                                      *)
(*                                                                         *)
(* The scan is followed through the set of bonds it has passed: the links  *)
(* and the remembered extras (ExtrasSound) are those these bonds call for. *)
(* FilterSound says what appendNeighbors has made of the extras so far.    *)
(*                                                                         *)
(* The last section proves that the links drive the cluster graph: the     *)
(* pool and the lists grow as createClusterTransition lets them, since no  *)
(* two links join the same clusters.                                       *)
(***************************************************************************)
EXTENDS ClusterConnection, FiniteSetTheorems, SequenceTheorems, TLAPS

----------------------------------------------------------------------------
(* Types *)

\* What the call finds has its types, slot by slot.
LEMMA InputType ==
    ASSUME input \in Inputs, NEW a \in Atom
    PROVE  /\ input \in Input
           /\ input.cluster[a] \in Cluster \cup {NoCluster}
           /\ input.symmetry[a] \in Tm
           /\ input.neighbors \in [Atom -> Seq(Atom)]
           /\ input.neighbors[a] \in Seq(Atom)
           /\ input.overlap[a] \in Seq(Tm \cup {NoOverlap})
           /\ Len(input.overlap[a]) = Len(input.neighbors[a])
           /\ \A n \in DOMAIN input.neighbors[a] : Neighbor(a, n) \in Atom
<1>1. input \in Input
  BY ConnectionAssumption
<1>2. input.neighbors[a] \in Seq(Atom)
  BY <1>1 DEF Input
<1>3. \A n \in DOMAIN input.neighbors[a] : Neighbor(a, n) \in Atom
  BY <1>2 DEF Neighbor
<1>4. QED
  BY <1>1, <1>2, <1>3, ConnectionAssumption DEF Input

\* A misorientation is a matrix if the neighbour lists overlap.
LEMMA MisorientationType ==
    ASSUME input \in Inputs, NEW a \in Atom, NEW n \in DOMAIN input.neighbors[a]
    PROVE  Misorientation(a, n) \in Tm \cup {NoOverlap}
<1>1. input.overlap[a][n] \in Tm \cup {NoOverlap}
  BY InputType
<1>2. input.symmetry[a] \in Tm /\ input.symmetry[Neighbor(a, n)] \in Tm
  BY InputType
<1>3. QED
  BY <1>1, <1>2, GroupAxioms DEF Misorientation

\* Until they are replaced, the lists are those the call found.
ListsKept == pc # "done" => neighbors = input.neighbors

Typed == TypeOK /\ ListsKept

\* The types hold when the call starts.
LEMMA TypeInit == Init => Typed
<1> SUFFICES ASSUME Init PROVE Typed
  OBVIOUS
<1>1. 1 \in Atom
  BY ConnectionAssumption DEF Atom
<1>2. input.neighbors \in [Atom -> Seq(Atom)]
  BY <1>1, InputType DEF Init
<1>3. Nothing \in [Atom -> Seq(Atom)]
  BY DEF Nothing
<1>4. QED
  BY <1>2, <1>3, ConnectionAssumption DEF Init, Typed, TypeOK, ListsKept

\* Every step of the call keeps the types and, but for the last, the lists.
LEMMA TypeStep == Typed /\ [Next]_vars => Typed'
<1> SUFFICES ASSUME Typed, [Next]_vars PROVE Typed'
  OBVIOUS
<1> USE DEF Typed
<1>0. atom \in Int /\ slot \in Int /\ NumAtoms \in Nat \ {0}
  BY ConnectionAssumption DEF TypeOK
<1>1. ASSUME AtBond
      PROVE  /\ atom \in Atom /\ slot \in DOMAIN input.neighbors[atom]
             /\ Neighbor(atom, slot) \in Atom
             /\ Here \in Cluster /\ There \in Cluster \cup {NoCluster}
  <2>1. atom \in Atom /\ slot \in DOMAIN input.neighbors[atom]
    BY <1>1, <1>0, InputType DEF AtBond, TypeOK, ListsKept
  <2>2. Neighbor(atom, slot) \in Atom
    BY <2>1, InputType DEF TypeOK
  <2>3. QED
    BY <1>1, <2>1, <2>2, InputType DEF AtBond, Here, There, TypeOK
<1>2. CASE UNCHANGED vars
  BY <1>2 DEF vars, TypeOK, ListsKept
<1>3. CASE NextAtom
  BY <1>3, <1>0 DEF NextAtom, TypeOK, ListsKept, Atom
<1>4. CASE SkipInside \/ LeaveUnlinked
  <2>1. slot' = slot + 1
        /\ UNCHANGED <<input, neighbors, links, extras, filtered, pc, atom>>
    BY <1>4 DEF SkipInside, LeaveUnlinked, ScanOn, NextSlot
  <2>2. slot' \in Nat \ {0}
    BY <2>1 DEF TypeOK
  <2>3. QED
    BY <2>1, <2>2 DEF TypeOK, ListsKept
<1>5. CASE RememberExtra
  <2>1. extras' \in [Atom -> Seq(Atom)]
    BY <1>1, <1>5 DEF RememberExtra, TypeOK
  <2>2. QED
    BY <1>5, <1>0, <2>1 DEF RememberExtra, ScanOn, NextSlot, TypeOK, ListsKept
<1>6. CASE CountBond
  <2>1. PICK l \in LinksBetween(Here, There) : links' = [links EXCEPT ![l].area = @ + 1]
    BY <1>6 DEF CountBond
  <2>2. l \in DOMAIN links /\ links[l] \in Link
    BY <2>1 DEF LinksBetween, TypeOK
  <2>3. [links[l] EXCEPT !.area = @ + 1] \in Link
    BY <2>2 DEF Link
  <2>4. links' \in Seq(Link)
    BY <2>1, <2>2, <2>3 DEF TypeOK
  <2>5. QED
    BY <1>6, <1>0, <2>4 DEF CountBond, ScanOn, NextSlot, TypeOK, ListsKept
<1>7. CASE LinkClusters
  <2>1. Misorientation(atom, slot) \in Tm
    BY <1>1, <1>7, MisorientationType DEF LinkClusters, TypeOK
  <2>2. Here \in Cluster /\ There \in Cluster
    BY <1>1, <1>7 DEF LinkClusters, Crosses, There
  <2>3. links' \in Seq(Link)
    BY <1>7, <2>1, <2>2 DEF LinkClusters, Link, InitialArea, TypeOK
  <2>4. QED
    BY <1>7, <1>0, <2>3 DEF LinkClusters, ScanOn, NextSlot, TypeOK, ListsKept
<1>8. CASE StartAppending \/ BaseOverflow
  BY <1>8, <1>0 DEF StartAppending, BaseOverflow, TypeOK, ListsKept
<1>9. CASE DropExtra
  <2>1. slot' = slot + 1
        /\ UNCHANGED <<input, neighbors, links, extras, filtered, pc, atom>>
    BY <1>9 DEF DropExtra, NextSlot
  <2>2. slot' \in Nat \ {0}
    BY <2>1 DEF TypeOK
  <2>3. QED
    BY <2>1, <2>2 DEF TypeOK, ListsKept
<1>10. CASE KeepExtra
  <2>1. atom \in Atom /\ extras[atom][slot] \in Atom
    BY <1>10, <1>0 DEF KeepExtra, Appending, TypeOK
  <2>2. filtered' \in [Atom -> Seq(Atom)]
    BY <1>10, <2>1 DEF KeepExtra, TypeOK
  <2>3. QED
    BY <1>10, <1>0, <2>2 DEF KeepExtra, NextSlot, TypeOK, ListsKept
<1>11. CASE TrimExtras
  <2>1. atom \in Atom /\ filtered[atom] \in Seq(Atom)
    BY <1>11 DEF TrimExtras, Appending, TypeOK
  <2>2. AvailableSlots(atom) \in Nat
    BY <1>11, ConnectionAssumption, <2>1 DEF TrimExtras, Appending, AvailableSlots, TypeOK
  <2>3. Trimmed(atom) \in Seq(Atom)
    BY <2>1, <2>2 DEF Trimmed
  <2>4. filtered' \in [Atom -> Seq(Atom)]
    BY <1>11, <2>1, <2>3 DEF TrimExtras, TypeOK
  <2>5. QED
    BY <1>11, <1>0, <2>1, <2>4 DEF TrimExtras, TypeOK, ListsKept, Atom
<1>12. CASE ReplaceLists
  <2>1. neighbors' \in [Atom -> Seq(Atom)]
    BY <1>12 DEF ReplaceLists, TypeOK
  <2>2. QED
    BY <1>12, <2>1 DEF ReplaceLists, TypeOK, ListsKept
<1>13. QED
  BY <1>2, <1>3, <1>4, <1>5, <1>6, <1>7, <1>8, <1>9, <1>10, <1>11, <1>12 DEF Next

\* The invariant of the call's types.
THEOREM TypedCorrect == Spec => []Typed
BY TypeInit, TypeStep, PTL DEF Spec

\* Lists, links and the places of the loops keep their types.
THEOREM TypeCorrect == Spec => []TypeOK
BY TypedCorrect, PTL DEF Typed

----------------------------------------------------------------------------
(* The scan *)

\* A bond is a slot of an atom.
LEMMA BondType ==
    ASSUME input \in Inputs, NEW x \in Bond
    PROVE  /\ x[1] \in Atom /\ x[2] \in DOMAIN input.neighbors[x[1]]
           /\ x[1] \in Int /\ x[2] \in Int
           /\ x = <<x[1], x[2]>>
           /\ Neighbor(x[1], x[2]) \in Atom
<1>1. PICK a \in Atom : x \in {a} \X DOMAIN input.neighbors[a]
  BY DEF Bond
<1>2. input.neighbors[a] \in Seq(Atom)
  BY InputType
<1>3. x = <<x[1], x[2]>> /\ x[1] = a /\ x[2] \in DOMAIN input.neighbors[a]
  BY <1>1
<1>4. DOMAIN input.neighbors[a] \subseteq Int
  BY <1>2
<1>5. QED
  BY <1>3, <1>4, InputType DEF Atom

\* When a bond was looked at, it is the last one of those scanned.
LEMMA BondScanned ==
    ASSUME Typed, AtBond, ScanOn
    PROVE  /\ <<atom, slot>> \in Bond
           /\ \A y \in Scanned : y \in Bond /\ Earlier(y, <<atom, slot>>)
           /\ Scanned' = Scanned \cup {<<atom, slot>>}
<1>1. /\ pc = "scan" /\ pc' = "scan" /\ atom' = atom /\ slot' = slot + 1
      /\ input' = input /\ atom \in Int /\ slot \in Int
      /\ atom \in Atom /\ input \in Inputs
  BY DEF AtBond, ScanOn, NextSlot, Typed, TypeOK, Atom
<1>2. slot \in DOMAIN input.neighbors[atom]
  BY <1>1, InputType DEF AtBond, Typed, TypeOK, ListsKept
<1>3. <<atom, slot>> \in Bond
  BY <1>1, <1>2 DEF Bond
<1>4. Bond' = Bond
  BY <1>1 DEF Bond
<1>5. ASSUME NEW y \in Bond
      PROVE  Earlier(y, <<atom, slot + 1>>) <=> Earlier(y, <<atom, slot>>) \/ y = <<atom, slot>>
  BY <1>1, <1>5, BondType DEF Earlier
<1>6. QED
  BY <1>1, <1>3, <1>4, <1>5 DEF Scanned, Earlier

\* Going on to the next atom passes no bond of an atom in a cluster.
LEMMA AtomScanned ==
    ASSUME Typed, NextAtom
    PROVE  /\ \A y \in Scanned : y \in Scanned'
           /\ \A y \in Scanned' : y \in Scanned \/ input.cluster[y[1]] = NoCluster
<1>1. /\ pc = "scan" /\ pc' = "scan" /\ atom' = atom + 1 /\ slot' = 1
      /\ input' = input /\ atom \in Int /\ slot \in Int
      /\ atom \in Atom /\ input \in Inputs
  BY DEF NextAtom, Typed, TypeOK, Atom
<1>2. Bond' = Bond
  BY <1>1 DEF Bond
<1>3. ASSUME NEW y \in Bond
      PROVE  /\ Earlier(y, <<atom, slot>>) => Earlier(y, <<atom + 1, 1>>)
             /\ Earlier(y, <<atom + 1, 1>>) =>
                   Earlier(y, <<atom, slot>>) \/ input.cluster[y[1]] = NoCluster
  <2>1. /\ y[1] \in Int /\ y[2] \in Int /\ y[1] \in Atom
        /\ input.neighbors[y[1]] \in Seq(Atom) /\ y[2] \in DOMAIN input.neighbors[y[1]]
    BY <1>1, <1>3, BondType, InputType
  <2>2. y[2] >= 1 /\ y[2] <= Len(input.neighbors[y[1]])
    BY <2>1
  <2>3. input.cluster[atom] = NoCluster \/ slot > Len(input.neighbors[atom])
    BY <1>1 DEF NextAtom, Typed, ListsKept
  <2>4. QED
    BY <1>1, <2>1, <2>2, <2>3 DEF Earlier
<1>4. QED
  BY <1>1, <1>2, <1>3 DEF Scanned

\* Once the scan is over, it has passed every bond.
LEMMA AllScanned ==
    ASSUME Typed, UNCHANGED input, pc # "scan" \/ atom \notin Atom, pc' # "scan"
    PROVE  Scanned' = Scanned
<1>1. Bond' = Bond
  BY DEF Bond
<1>2. Scanned = Bond
  <2>1. CASE pc # "scan"
    BY <2>1 DEF Scanned
  <2>2. CASE atom \notin Atom
    <3>1. atom = NumAtoms + 1 /\ NumAtoms \in Nat
      BY <2>2, ConnectionAssumption DEF Typed, TypeOK, Atom
    <3>2. ASSUME NEW y \in Bond PROVE Earlier(y, <<atom, slot>>)
      BY <3>1, BondType DEF Earlier, Atom, Typed, TypeOK
    <3>3. QED
      BY <3>2 DEF Scanned
  <2>3. QED
    BY <2>1, <2>2
<1>3. QED
  BY <1>1, <1>2 DEF Scanned

\* The steps that look at no bond.
Other == \/ NextAtom \/ StartAppending \/ BaseOverflow \/ DropExtra \/ KeepExtra
         \/ TrimExtras \/ ReplaceLists \/ UNCHANGED vars

\* They change neither links nor extras, and pass only bonds of atoms without
\* a cluster.
LEMMA OtherScanned ==
    ASSUME Typed, Other
    PROVE  /\ UNCHANGED <<input, links, extras>>
           /\ \A y \in Scanned : y \in Scanned'
           /\ \A y \in Scanned' : y \in Scanned \/ input.cluster[y[1]] = NoCluster
<1>1. CASE NextAtom
  BY <1>1, AtomScanned DEF NextAtom
<1>2. CASE UNCHANGED vars
  BY <1>2 DEF vars, Scanned, Bond, Earlier
<1>3. CASE StartAppending \/ BaseOverflow \/ DropExtra \/ KeepExtra \/ TrimExtras
           \/ ReplaceLists
  <2>1. /\ UNCHANGED <<input, links, extras>>
        /\ pc # "scan" \/ atom \notin Atom
        /\ pc' # "scan"
    BY <1>3 DEF StartAppending, BaseOverflow, DropExtra, KeepExtra, TrimExtras,
                ReplaceLists, Appending
  <2>2. QED
    BY <2>1, AllScanned
<1>4. QED
  BY <1>1, <1>2, <1>3 DEF Other

\* There are finitely many bonds.
LEMMA BondsFinite == ASSUME input \in Inputs PROVE IsFiniteSet(Bond)
<1> DEFINE slots == [a \in Atom |-> {a} \X DOMAIN input.neighbors[a]]
<1>1. IsFiniteSet(Atom)
  BY ConnectionAssumption, FS_Interval DEF Atom
<1>2. ASSUME NEW a \in Atom PROVE IsFiniteSet(slots[a])
  <2>1. input.neighbors[a] \in Seq(Atom)
    BY InputType
  <2>2. DOMAIN input.neighbors[a] = 1 .. Len(input.neighbors[a])
    BY <2>1
  <2>3. IsFiniteSet(DOMAIN input.neighbors[a])
    BY <2>1, <2>2, FS_Interval
  <2>4. QED
    BY <2>3, FS_Singleton, FS_Product
<1>3. IsFiniteSet({slots[a] : a \in Atom})
  <2>1. slots \in Surjection(Atom, {slots[a] : a \in Atom})
    BY DEF Surjection
  <2>2. QED
    BY <1>1, <2>1, FS_Surjection
<1>4. Bond = UNION {slots[a] : a \in Atom}
  BY DEF Bond
<1>5. QED
  BY <1>2, <1>3, <1>4, FS_UNION

\* The steps that look at a bond.
BondStep == SkipInside \/ RememberExtra \/ CountBond \/ LinkClusters \/ LeaveUnlinked

\* Which bonds join which clusters, and which have a misorientation, is fixed.
LEMMA JoinsFixed ==
    ASSUME UNCHANGED input
    PROVE  /\ \A x, c, d : Joins(x, c, d)' <=> Joins(x, c, d)
           /\ \A x : Joinable(x)' <=> Joinable(x)
           /\ \A a, n : /\ Neighbor(a, n)' = Neighbor(a, n)
                        /\ Misorientation(a, n)' = Misorientation(a, n)
BY DEF Joins, Crosses, Neighbor, Joinable, Misorientation

\* What is common to the looks at a bond.
LEMMA BondLook ==
    ASSUME Typed, BondStep
    PROVE  /\ AtBond /\ ScanOn /\ UNCHANGED input
           /\ <<atom, slot>> \in Bond
           /\ Here \in Cluster /\ There \in Cluster \cup {NoCluster}
           /\ \A c, d : Joins(<<atom, slot>>, c, d) <=>
                 Crosses(atom, slot) /\ {Here, There} = {c, d}
<1>1. AtBond /\ ScanOn
  BY DEF BondStep, SkipInside, RememberExtra, CountBond, LinkClusters, LeaveUnlinked
<1>2. <<atom, slot>> \in Bond
  BY <1>1, BondScanned
<1>3. /\ atom \in Atom /\ Neighbor(atom, slot) \in Atom
  BY <1>2, BondType DEF Typed, TypeOK
<1>4. QED
  BY <1>1, <1>2, <1>3, InputType
     DEF AtBond, ScanOn, Here, There, Joins, Typed, TypeOK

----------------------------------------------------------------------------
(* Links *)

\* Looking at a bond that does not cross, or at one that leaves its clusters
\* unlinked, changes no link.
LEMMA NoLinkStep ==
    ASSUME Typed, SkipInside \/ RememberExtra \/ LeaveUnlinked
    PROVE  /\ UNCHANGED links
           /\ ~Crosses(atom, slot) \/
                 (LinksBetween(Here, There) = {} /\ ~Joinable(<<atom, slot>>))
BY DEF SkipInside, RememberExtra, LeaveUnlinked, Crosses, Joinable

\* Counting a bond leaves all links between the clusters they are between.
LEMMA CountStep ==
    ASSUME Typed, CountBond
    PROVE  \E l \in LinksBetween(Here, There) :
              /\ links' = [links EXCEPT ![l].area = @ + 1]
              /\ DOMAIN links' = DOMAIN links /\ l \in DOMAIN links
              /\ links'[l] = [links[l] EXCEPT !.area = @ + 1]
              /\ \A k \in DOMAIN links : k # l => links'[k] = links[k]
              /\ \A c, d : LinksBetween(c, d)' = LinksBetween(c, d)
<1>1. PICK l \in LinksBetween(Here, There) : links' = [links EXCEPT ![l].area = @ + 1]
  BY DEF CountBond
<1>2. l \in DOMAIN links /\ links[l] \in Link
  BY <1>1 DEF LinksBetween, Typed, TypeOK
<1>3. /\ DOMAIN links' = DOMAIN links
      /\ links'[l] = [links[l] EXCEPT !.area = @ + 1]
      /\ \A k \in DOMAIN links : k # l => links'[k] = links[k]
  BY <1>1, <1>2
<1>4. \A k \in DOMAIN links : links'[k].c1 = links[k].c1 /\ links'[k].c2 = links[k].c2
  BY <1>2, <1>3 DEF Link
<1>5. \A c, d : LinksBetween(c, d)' = LinksBetween(c, d)
  BY <1>3, <1>4 DEF LinksBetween
<1>6. QED
  BY <1>1, <1>2, <1>3, <1>5

\* A new link is the last one, and the only one between its clusters.
LEMMA LinkStep ==
    ASSUME Typed, LinkClusters
    PROVE  /\ DOMAIN links' = DOMAIN links \cup {Len(links) + 1}
           /\ Len(links) + 1 \notin DOMAIN links
           /\ \A k \in DOMAIN links : links'[k] = links[k]
           /\ links'[Len(links) + 1] =
                 [c1 |-> Here, c2 |-> There, tm |-> Misorientation(atom, slot), area |-> 1]
           /\ \A c, d : {c, d} # {Here, There} => LinksBetween(c, d)' = LinksBetween(c, d)
           /\ \A c, d : {c, d} = {Here, There} => LinksBetween(c, d)' = {Len(links) + 1}
<1> DEFINE new == [c1 |-> Here, c2 |-> There, tm |-> Misorientation(atom, slot), area |-> 1]
<1>1. links' = Append(links, new) /\ LinksBetween(Here, There) = {}
  BY DEF LinkClusters, InitialArea
<1>2. links \in Seq(Link)
  BY DEF Typed, TypeOK
<1>3. /\ DOMAIN links' = DOMAIN links \cup {Len(links) + 1}
      /\ Len(links) + 1 \notin DOMAIN links
      /\ \A k \in DOMAIN links : links'[k] = links[k]
      /\ links'[Len(links) + 1] = new
  BY <1>1, <1>2
<1>4. new.c1 = Here /\ new.c2 = There
  OBVIOUS
<1>6. ASSUME NEW c, NEW d, {c, d} # {Here, There}
      PROVE  LinksBetween(c, d)' = LinksBetween(c, d)
  BY <1>3, <1>4, <1>6 DEF LinksBetween
<1>7. ASSUME NEW c, NEW d, {c, d} = {Here, There}
      PROVE  LinksBetween(c, d)' = {Len(links) + 1}
  <2>1. \A k \in DOMAIN links : {links[k].c1, links[k].c2} # {c, d}
    BY <1>1, <1>7 DEF LinksBetween
  <2>2. QED
    BY <1>3, <1>4, <1>7, <2>1 DEF LinksBetween
<1>8. QED
  BY <1>3, <1>6, <1>7

\* Before the scan nothing is linked and no bond has been looked at.
LEMMA LinksInit == Init => LinksExact
<1> SUFFICES ASSUME Init PROVE LinksExact
  OBVIOUS
<1>1. \A c, d : LinksBetween(c, d) = {}
  BY DEF Init, LinksBetween
<1>2. Typed
  BY TypeInit
<1>3. ASSUME NEW x \in Scanned PROVE FALSE
  <2>1. x \in Bond /\ Earlier(x, <<1, 1>>)
    BY <1>3 DEF Init, Scanned
  <2>2. x[1] \in Atom /\ x[2] \in DOMAIN input.neighbors[x[1]]
        /\ input.neighbors[x[1]] \in Seq(Atom)
    BY <1>2, <2>1, BondType, InputType DEF Typed, TypeOK
  <2>3. QED
    BY <2>1, <2>2 DEF Earlier, Atom
<1>4. QED
  BY <1>1, <1>3 DEF LinksExact

\* Each look at a bond keeps the links in step with the bonds scanned.
LEMMA LinksStep == Typed /\ LinksExact /\ [Next]_vars => LinksExact'
<1> SUFFICES ASSUME Typed, LinksExact, [Next]_vars PROVE LinksExact'
  OBVIOUS
<1> DEFINE bond == <<atom, slot>>
           Found(c, d) == \E x \in Scanned : Joins(x, c, d) /\ Joinable(x)
<1>0. Cluster' = Cluster
  OBVIOUS
<1>1. CASE Other
  <2>1. /\ UNCHANGED <<input, links>>
        /\ \A y \in Scanned : y \in Scanned'
        /\ \A y \in Scanned' : y \in Scanned \/ input.cluster[y[1]] = NoCluster
    BY <1>1, OtherScanned
  <2>2. \A c, d : LinksBetween(c, d)' = LinksBetween(c, d)
    BY <2>1 DEF LinksBetween
  <2>3. \A x, c, d : Joins(x, c, d) => input.cluster[x[1]] # NoCluster
    BY DEF Joins, Crosses
  <2>4. \A c, d : Found(c, d)' <=> Found(c, d)
    BY <2>1, <2>3, JoinsFixed
  <2>5. QED
    BY <2>2, <2>4 DEF LinksExact
<1>2. CASE BondStep
  <2>1. /\ UNCHANGED input /\ AtBond /\ ScanOn
        /\ \A c, d : Joins(bond, c, d) <=> Crosses(atom, slot) /\ {Here, There} = {c, d}
        /\ Here \in Cluster /\ There \in Cluster \cup {NoCluster}
    BY <1>2, BondLook
  <2>2. Scanned' = Scanned \cup {bond}
    BY <2>1, BondScanned
  <2>3. \A c, d : Found(c, d)' <=> Found(c, d) \/ (Joins(bond, c, d) /\ Joinable(bond))
    BY <2>1, <2>2, JoinsFixed
  <2>4. CASE SkipInside \/ RememberExtra \/ LeaveUnlinked
    <3>1. UNCHANGED links /\ (~Crosses(atom, slot) \/ ~Joinable(bond))
      BY <2>4, NoLinkStep
    <3>2. \A c, d : LinksBetween(c, d)' = LinksBetween(c, d)
      BY <3>1 DEF LinksBetween
    <3>3. \A c, d : Found(c, d)' <=> Found(c, d)
      BY <2>1, <2>3, <3>1
    <3>4. QED
      BY <3>2, <3>3 DEF LinksExact
  <2>5. CASE CountBond
    <3>1. LinksBetween(Here, There) # {} /\ Crosses(atom, slot)
      BY <2>5 DEF CountBond
    <3>2. \A c, d : LinksBetween(c, d)' = LinksBetween(c, d)
      BY <2>5, CountStep
    <3>3. ASSUME NEW c \in Cluster, NEW d \in Cluster, Joins(bond, c, d)
          PROVE  Found(c, d)
      <4>1. LinksBetween(c, d) = LinksBetween(Here, There)
        BY <2>1, <3>3 DEF LinksBetween
      <4>2. QED
        BY <3>1, <4>1 DEF LinksExact
    <3>4. \A c, d \in Cluster : Found(c, d)' <=> Found(c, d)
      BY <2>3, <3>3
    <3>5. QED
      BY <3>2, <3>4 DEF LinksExact
  <2>6. CASE LinkClusters
    <3>1. Crosses(atom, slot) /\ Joinable(bond)
      BY <2>6 DEF LinkClusters, Joinable
    <3>2. /\ \A c, d : {c, d} # {Here, There} => LinksBetween(c, d)' = LinksBetween(c, d)
          /\ \A c, d : {c, d} = {Here, There} => LinksBetween(c, d)' = {Len(links) + 1}
      BY <2>6, LinkStep
    <3>3. \A c, d : Found(c, d)' <=> Found(c, d) \/ {Here, There} = {c, d}
      BY <2>1, <2>3, <3>1
    <3>4. ASSUME NEW c \in Cluster, NEW d \in Cluster
          PROVE  (LinksBetween(c, d)' # {}) <=> Found(c, d)'
      <4>1. (LinksBetween(c, d) # {}) <=> Found(c, d)
        BY DEF LinksExact
      <4>2. (Found(c, d))' <=> Found(c, d) \/ {Here, There} = {c, d}
        BY <3>3
      <4>3. CASE {c, d} = {Here, There}
        <5>1. LinksBetween(c, d)' = {Len(links) + 1}
          BY <3>2, <4>3
        <5>2. QED
          BY <4>2, <4>3, <5>1
      <4>4. CASE {c, d} # {Here, There}
        <5>1. LinksBetween(c, d)' = LinksBetween(c, d)
          BY <3>2, <4>4
        <5>2. QED
          BY <4>1, <4>2, <4>4, <5>1
      <4>5. QED
        BY <4>3, <4>4
    <3>5. \A c, d \in Cluster : \A k, l \in LinksBetween(c, d)' : k = l
      BY <3>2 DEF LinksExact
    <3>6. QED
      BY <3>4, <3>5 DEF LinksExact
  <2>7. QED
    BY <1>2, <2>4, <2>5, <2>6 DEF BondStep
<1>3. QED
  BY <1>1, <1>2 DEF Next, Other, BondStep

\* Two clusters are linked if and only if a bond between them has a
\* misorientation, and never twice.
THEOREM LinksExactCorrect == Spec => []LinksExact
BY TypedCorrect, LinksInit, LinksStep, PTL DEF Spec

\* The bonds the link counts when x was the one that made it.
Counted(l, x) ==
    {y \in Scanned : Joins(y, links[l].c1, links[l].c2) /\ ~Earlier(y, x)}

\* Bond x decided link l.
Decides(x, l) ==
    /\ links[l].c1 = input.cluster[x[1]]
    /\ links[l].c2 = input.cluster[Neighbor(x[1], x[2])]
    /\ links[l].tm = Misorientation(x[1], x[2])
    /\ \A y \in Scanned :
          Joins(y, links[l].c1, links[l].c2) /\ Earlier(y, x) => ~Joinable(y)
    /\ links[l].area = Cardinality(Counted(l, x))

\* A link stays decided by its bond while no new bond joins its clusters.
LEMMA DecidedKept ==
    ASSUME UNCHANGED input, NEW l, NEW x, links'[l] = links[l], Decides(x, l),
           \A y \in Scanned : y \in Scanned',
           \A y \in Scanned' : y \in Scanned \/ ~Joins(y, links[l].c1, links[l].c2)
    PROVE  Decides(x, l)'
<1>1. Counted(l, x)' = Counted(l, x)
  BY JoinsFixed DEF Counted, Earlier
<1>2. QED
  BY <1>1, JoinsFixed DEF Decides, Earlier

\* The decisive bond is a bond of the scan.
DecidedLinks == \A l \in DOMAIN links : \E x \in Scanned : Decides(x, l)

\* Each look at a bond keeps every link decided by its first bond.
LEMMA DecidesStep ==
    Typed /\ LinksExact /\ DecidedLinks /\ [Next]_vars => DecidedLinks'
<1> SUFFICES ASSUME Typed, LinksExact, DecidedLinks, [Next]_vars,
                    NEW l \in DOMAIN links'
             PROVE  \E x \in Scanned' : Decides(x, l)'
  BY DEF DecidedLinks
<1> DEFINE bond == <<atom, slot>>
<1>1. CASE Other
  <2>1. /\ UNCHANGED <<input, links>>
        /\ \A y \in Scanned : y \in Scanned'
        /\ \A y \in Scanned' : y \in Scanned \/ input.cluster[y[1]] = NoCluster
    BY <1>1, OtherScanned
  <2>2. PICK x \in Scanned : Decides(x, l)
    BY <2>1 DEF DecidedLinks
  <2>3. \A y, c, d : Joins(y, c, d) => input.cluster[y[1]] # NoCluster
    BY DEF Joins, Crosses
  <2>4. Decides(x, l)'
    BY <2>1, <2>2, <2>3, DecidedKept
  <2>5. QED
    BY <2>1, <2>2, <2>4
<1>2. CASE BondStep
  <2>1. /\ UNCHANGED input /\ AtBond /\ ScanOn
        /\ \A c, d : Joins(bond, c, d) <=> Crosses(atom, slot) /\ {Here, There} = {c, d}
        /\ Here \in Cluster /\ There \in Cluster \cup {NoCluster}
    BY <1>2, BondLook
  <2>2. /\ Scanned' = Scanned \cup {bond}
        /\ \A y \in Scanned : y \in Bond /\ Earlier(y, bond)
    BY <2>1, BondScanned
  <2>3. ASSUME l \in DOMAIN links, links'[l] = links[l],
               ~Joins(bond, links[l].c1, links[l].c2)
        PROVE  \E x \in Scanned' : Decides(x, l)'
    <3>1. PICK x \in Scanned : Decides(x, l)
      BY <2>3 DEF DecidedLinks
    <3>2. Decides(x, l)'
      BY <2>1, <2>2, <2>3, <3>1, DecidedKept
    <3>3. QED
      BY <2>2, <3>1, <3>2
  <2>4. ASSUME l \in DOMAIN links, l \notin LinksBetween(Here, There)
        PROVE  ~Joins(bond, links[l].c1, links[l].c2)
    BY <2>1, <2>4 DEF LinksBetween
  <2>5. CASE SkipInside \/ RememberExtra \/ LeaveUnlinked
    <3>1. /\ UNCHANGED links
          /\ ~Crosses(atom, slot) \/ LinksBetween(Here, There) = {}
      BY <2>5, NoLinkStep
    <3>2. l \in DOMAIN links /\ links'[l] = links[l]
      BY <3>1
    <3>3. ~Joins(bond, links[l].c1, links[l].c2)
      BY <2>1, <2>4, <3>1, <3>2
    <3>4. QED
      BY <2>3, <3>2, <3>3
  <2>6. CASE CountBond
    <3>1. PICK k \in LinksBetween(Here, There) :
              /\ DOMAIN links' = DOMAIN links /\ k \in DOMAIN links
              /\ links'[k] = [links[k] EXCEPT !.area = @ + 1]
              /\ \A j \in DOMAIN links : j # k => links'[j] = links[j]
      BY <2>6, CountStep
    <3>2. Crosses(atom, slot) /\ There \in Cluster
      BY <2>1, <2>6 DEF CountBond, Crosses, There
    <3>3. CASE l # k
      <4>1. l \notin LinksBetween(Here, There)
        BY <2>1, <3>1, <3>2, <3>3 DEF LinksExact
      <4>2. QED
        BY <2>3, <2>4, <3>1, <3>3, <4>1
    <3>4. CASE l = k
      <4>1. PICK x \in Scanned : Decides(x, l)
        BY <3>1, <3>4 DEF DecidedLinks
      <4>2. /\ links[l] \in Link
            /\ links'[l].c1 = links[l].c1 /\ links'[l].c2 = links[l].c2
            /\ links'[l].tm = links[l].tm /\ links'[l].area = links[l].area + 1
        <5>1. links[l] \in Link
          BY <3>1, <3>4 DEF Typed, TypeOK
        <5>2. links'[l] = [links[l] EXCEPT !.area = @ + 1]
          BY <3>1, <3>4
        <5>3. QED
          BY <5>1, <5>2 DEF Link
      <4>3. Joins(bond, links[l].c1, links[l].c2)
        BY <2>1, <3>1, <3>2, <3>4 DEF LinksBetween
      <4>4. x \in Bond /\ Earlier(x, bond) /\ bond \in Bond
        BY <2>1, <2>2, <4>1, BondScanned
      <4>5. /\ x[1] \in Int /\ x[2] \in Int /\ atom \in Int /\ slot \in Int
            /\ bond[1] = atom /\ bond[2] = slot
        BY <4>4, BondType DEF Typed, TypeOK
      <4>6. ~Earlier(bond, x) /\ bond \notin Scanned
        <5>1. ~Earlier(bond, bond) /\ ~Earlier(bond, x)
          BY <4>4, <4>5 DEF Earlier
        <5>2. QED
          BY <2>2, <5>1
      <4>7. Counted(l, x)' = Counted(l, x) \cup {bond}
        BY <2>1, <2>2, <4>2, <4>3, <4>6, JoinsFixed DEF Counted, Earlier
      <4>8. IsFiniteSet(Counted(l, x))
        <5>1. Counted(l, x) \subseteq Bond
          BY <2>2 DEF Counted
        <5>2. QED
          BY <5>1, BondsFinite, FS_Subset DEF Typed, TypeOK
      <4>9. Cardinality(Counted(l, x)') = Cardinality(Counted(l, x)) + 1
        <5>1. bond \notin Counted(l, x)
          BY <4>6 DEF Counted
        <5>2. QED
          BY <4>7, <4>8, <5>1, FS_AddElement
      <4>10. links'[l].area = Cardinality(Counted(l, x)')
        BY <4>1, <4>2, <4>9 DEF Decides
      <4>11. \A y \in Scanned' :
                Joins(y, links[l].c1, links[l].c2) /\ Earlier(y, x) => ~Joinable(y)
        BY <2>2, <4>1, <4>6 DEF Decides
      <4>12. Decides(x, l)'
        BY <2>1, <4>1, <4>2, <4>10, <4>11, JoinsFixed DEF Decides, Earlier
      <4>13. QED
        BY <2>2, <4>1, <4>12
    <3>5. QED
      BY <3>3, <3>4
  <2>7. CASE LinkClusters
    <3>1. /\ Crosses(atom, slot) /\ Joinable(bond) /\ There \in Cluster
          /\ LinksBetween(Here, There) = {}
      BY <2>1, <2>7 DEF LinkClusters, Crosses, There, Joinable
    <3>2. /\ DOMAIN links' = DOMAIN links \cup {Len(links) + 1}
          /\ \A k \in DOMAIN links : links'[k] = links[k]
          /\ links'[Len(links) + 1] =
               [c1 |-> Here, c2 |-> There, tm |-> Misorientation(atom, slot), area |-> 1]
      BY <2>7, LinkStep
    <3>3. CASE l \in DOMAIN links
      BY <2>3, <2>4, <3>1, <3>2, <3>3
    <3>4. CASE l = Len(links) + 1
      <4>1. /\ links'[l].c1 = Here /\ links'[l].c2 = There
            /\ links'[l].tm = Misorientation(atom, slot) /\ links'[l].area = 1
        BY <3>2, <3>4
      <4>2. \A y \in Scanned : Joins(y, Here, There) => ~Joinable(y)
        BY <2>1, <3>1 DEF LinksExact
      <4>3. bond[1] = atom /\ bond[2] = slot /\ ~Earlier(bond, bond)
        BY DEF Earlier, Typed, TypeOK
      <4>4. \A y \in Scanned' : Joins(y, Here, There) /\ Earlier(y, bond) => ~Joinable(y)
        BY <2>2, <4>2, <4>3
      <4>5. Joins(bond, Here, There)
        BY <2>1, <3>1
      <4>6. {y \in Scanned' : Joins(y, Here, There) /\ ~Earlier(y, bond)} = {bond}
        BY <2>2, <4>3, <4>5
      <4>7. Cardinality({bond}) = 1
        BY FS_Singleton
      <4>8. bond \in Scanned'
        BY <2>2
      <4>9. \E x \in Scanned' : Decides(x, l)'
        <5>0. PICK x \in Scanned' : x = bond
          BY <4>8
        <5>1. /\ x \in Scanned'
              /\ Here = input.cluster[x[1]] /\ There = input.cluster[Neighbor(x[1], x[2])]
              /\ links'[l].c1 = Here /\ links'[l].c2 = There
              /\ links'[l].tm = Misorientation(x[1], x[2])
              /\ \A y \in Scanned' : Joins(y, Here, There) /\ Earlier(y, x) => ~Joinable(y)
              /\ {y \in Scanned' : Joins(y, Here, There) /\ ~Earlier(y, x)} = {x}
              /\ links'[l].area = Cardinality({x})
          BY <4>1, <4>3, <4>4, <4>6, <4>7, <5>0 DEF Here, There
        <5>2. Counted(l, x)' = {x}
          BY <2>1, <5>1, JoinsFixed DEF Counted, Earlier
        <5>3. Decides(x, l)'
          BY <2>1, <5>1, <5>2, JoinsFixed DEF Decides, Earlier
        <5>4. QED
          BY <5>1, <5>3
      <4>10. QED
        BY <4>9
    <3>5. QED
      BY <3>2, <3>3, <3>4
  <2>8. QED
    BY <1>2, <2>5, <2>6, <2>7 DEF BondStep
<1>3. QED
  BY <1>1, <1>2 DEF Next, Other, BondStep

\* Matrix, direction and area of every link are those of its first bond.
THEOREM FirstBondDecidesCorrect == Spec => []FirstBondDecides
<1>1. Init => DecidedLinks
  BY DEF Init, DecidedLinks
<1>2. DecidedLinks => FirstBondDecides
  BY DEF DecidedLinks, FirstBondDecides, Decides, Counted
<1>3. QED
  BY TypedCorrect, LinksExactCorrect, DecidesStep, <1>1, <1>2, PTL DEF Spec

----------------------------------------------------------------------------
(* Extras *)

\* The extras of b are clustered atoms that list b, in the order of the scan,
\* and all of those the scan has passed.
ExtrasSound ==
    /\ \A b \in Atom : \A k \in DOMAIN extras[b] :
          /\ Asymmetric(extras[b][k], b)
          /\ pc = "scan" => extras[b][k] <= atom
    /\ \A b \in Atom : \A j, k \in DOMAIN extras[b] :
          j <= k => extras[b][j] <= extras[b][k]
    /\ \A x \in Scanned :
          Asymmetric(x[1], Neighbor(x[1], x[2])) => Occurs(x[1], extras[Neighbor(x[1], x[2])])

\* Before the scan there are no extras.
LEMMA ExtrasInit == Init => ExtrasSound
<1> SUFFICES ASSUME Init PROVE ExtrasSound
  OBVIOUS
<1>1. \A b \in Atom : extras[b] = <<>>
  BY DEF Init, Nothing
<1>2. Typed
  BY TypeInit
<1>3. ASSUME NEW x \in Scanned PROVE FALSE
  <2>1. x \in Bond /\ Earlier(x, <<1, 1>>)
    BY <1>3 DEF Init, Scanned
  <2>2. x[1] \in Atom /\ x[2] \in DOMAIN input.neighbors[x[1]]
        /\ input.neighbors[x[1]] \in Seq(Atom)
    BY <1>2, <2>1, BondType, InputType DEF Typed, TypeOK
  <2>3. QED
    BY <2>1, <2>2 DEF Earlier, Atom
<1>4. QED
  BY <1>1, <1>3 DEF ExtrasSound

\* A look at a bond remembers its atom if and only if the neighbour has no
\* cluster.
LEMMA ExtrasStep == Typed /\ ExtrasSound /\ [Next]_vars => ExtrasSound'
<1> SUFFICES ASSUME Typed, ExtrasSound, [Next]_vars PROVE ExtrasSound'
  OBVIOUS
<1>0. ASSUME UNCHANGED input
      PROVE  /\ \A a, b : Asymmetric(a, b)' <=> Asymmetric(a, b)
             /\ \A a, n : Neighbor(a, n)' = Neighbor(a, n)
  BY <1>0, JoinsFixed DEF Asymmetric, Occurs
<1>1. CASE Other
  <2>1. /\ UNCHANGED <<input, extras>>
        /\ \A y \in Scanned' : y \in Scanned \/ input.cluster[y[1]] = NoCluster
    BY <1>1, OtherScanned
  <2>2. pc' = "scan" => pc = "scan" /\ atom' \in {atom, atom + 1}
    BY <1>1 DEF Other, NextAtom, StartAppending, BaseOverflow, DropExtra, KeepExtra,
                TrimExtras, ReplaceLists, Appending, vars
  <2>3. ASSUME NEW b \in Atom, NEW k \in DOMAIN extras[b], pc' = "scan"
        PROVE  extras[b][k] <= atom'
    <3>1. extras[b] \in Seq(Atom) /\ atom \in Int
      BY <2>3 DEF Typed, TypeOK
    <3>2. extras[b][k] \in Int
      <4>1. extras[b][k] \in Atom
        BY <2>3, <3>1
      <4>2. QED
        BY <4>1 DEF Atom
    <3>3. extras[b][k] <= atom
      BY <2>2, <2>3 DEF ExtrasSound
    <3>4. QED
      BY <2>2, <2>3, <3>1, <3>2, <3>3
  <2>4. \A b \in Atom : \A k \in DOMAIN extras[b] : Asymmetric(extras[b][k], b)
    BY DEF ExtrasSound
  <2>5. ASSUME NEW x \in Scanned', Asymmetric(x[1], Neighbor(x[1], x[2]))
        PROVE  Occurs(x[1], extras[Neighbor(x[1], x[2])])
    BY <2>1, <2>5 DEF ExtrasSound, Asymmetric
  <2>6. QED
    BY <1>0, <2>1, <2>3, <2>4, <2>5 DEF ExtrasSound, Occurs
<1>2. CASE BondStep
  <2>1. /\ UNCHANGED input /\ AtBond /\ ScanOn /\ pc = "scan" /\ atom' = atom
        /\ pc' = pc
    BY <1>2, BondLook DEF AtBond, ScanOn
  <2>2. /\ Scanned' = Scanned \cup {<<atom, slot>>}
        /\ <<atom, slot>> \in Bond
    BY <2>1, BondScanned
  <2>3. /\ atom \in Atom /\ slot \in DOMAIN input.neighbors[atom]
        /\ Neighbor(atom, slot) \in Atom
    BY <2>2, BondType DEF Typed, TypeOK
  <2>4. CASE RememberExtra
    <3> DEFINE to == Neighbor(atom, slot)
    <3>1. Asymmetric(atom, to)
      BY <2>1, <2>3, <2>4 DEF RememberExtra, Asymmetric, AtBond, Occurs, Neighbor
    <3>2. /\ extras'[to] = Append(extras[to], atom)
          /\ \A b \in Atom : b # to => extras'[b] = extras[b]
          /\ extras[to] \in Seq(Atom)
      BY <2>3, <2>4 DEF RememberExtra, Typed, TypeOK
    <3>3. /\ DOMAIN extras'[to] = DOMAIN extras[to] \cup {Len(extras[to]) + 1}
          /\ \A k \in DOMAIN extras[to] : extras'[to][k] = extras[to][k] /\ k <= Len(extras[to])
          /\ extras'[to][Len(extras[to]) + 1] = atom
          /\ Len(extras[to]) + 1 \notin DOMAIN extras[to]
          /\ DOMAIN extras[to] \subseteq Int /\ Len(extras[to]) \in Nat
      BY <2>3, <3>2
    <3>4. ASSUME NEW b \in Atom, NEW k \in DOMAIN extras'[b]
          PROVE  Asymmetric(extras'[b][k], b) /\ extras'[b][k] <= atom
      <4>1. CASE b # to \/ k \in DOMAIN extras[to]
        BY <2>1, <3>2, <3>3, <3>4, <4>1 DEF ExtrasSound
      <4>2. CASE b = to /\ k = Len(extras[to]) + 1
        BY <3>1, <3>3, <4>2, <2>3 DEF Atom
      <4>3. QED
        BY <3>3, <3>4, <4>1, <4>2
    <3>5. ASSUME NEW b \in Atom, NEW j \in DOMAIN extras'[b], NEW k \in DOMAIN extras'[b],
                 j <= k
          PROVE  extras'[b][j] <= extras'[b][k]
      <4>1. CASE b # to \/ (j \in DOMAIN extras[to] /\ k \in DOMAIN extras[to])
        BY <3>2, <3>3, <3>5, <4>1 DEF ExtrasSound
      <4>2. CASE b = to /\ k = Len(extras[to]) + 1
        BY <3>3, <3>4, <4>2
      <4>3. CASE b = to /\ j = Len(extras[to]) + 1 /\ k \in DOMAIN extras[to]
        BY <3>3, <3>5, <4>3
      <4>4. QED
        BY <3>3, <3>5, <4>1, <4>2, <4>3
    <3>6. ASSUME NEW x \in Scanned', Asymmetric(x[1], Neighbor(x[1], x[2]))
          PROVE  Occurs(x[1], extras'[Neighbor(x[1], x[2])])
      <4>1. CASE x \in Scanned
        <5>1. Neighbor(x[1], x[2]) \in Atom
          BY <2>1, <4>1, BondScanned, BondType DEF Typed, TypeOK
        <5>2. Occurs(x[1], extras[Neighbor(x[1], x[2])])
          BY <3>6, <4>1 DEF ExtrasSound
        <5>3. QED
          BY <3>2, <3>3, <5>1, <5>2 DEF Occurs
      <4>2. CASE x = <<atom, slot>>
        BY <3>3, <4>2 DEF Occurs
      <4>3. QED
        BY <2>2, <3>6, <4>1, <4>2
    <3>7. QED
      BY <1>0, <2>1, <3>4, <3>5, <3>6 DEF ExtrasSound, Occurs
  <2>5. CASE SkipInside \/ CountBond \/ LinkClusters \/ LeaveUnlinked
    <3>1. UNCHANGED extras /\ input.cluster[Neighbor(atom, slot)] # NoCluster
      BY <2>1, <2>5 DEF SkipInside, CountBond, LinkClusters, LeaveUnlinked, AtBond, Crosses
    <3>2. \A x \in Scanned' : x \in Scanned \/ ~Asymmetric(x[1], Neighbor(x[1], x[2]))
      BY <2>2, <3>1 DEF Asymmetric
    <3>3. QED
      BY <1>0, <2>1, <3>1, <3>2 DEF ExtrasSound, Occurs
  <2>6. QED
    BY <1>2, <2>4, <2>5 DEF BondStep
<1>3. QED
  BY <1>1, <1>2 DEF Next, Other, BondStep

\* After the scan the extras of b are the clustered atoms that list b.
LEMMA ExtrasComplete ==
    ASSUME Typed, ExtrasSound, pc # "scan", NEW a \in Atom, NEW b \in Atom, Asymmetric(a, b)
    PROVE  Occurs(a, extras[b])
<1>1. PICK k \in DOMAIN input.neighbors[a] : input.neighbors[a][k] = b
  BY DEF Asymmetric, Occurs
<1>2. <<a, k>> \in Scanned
  BY <1>1 DEF Scanned, Bond
<1>3. Neighbor(a, k) = b
  BY <1>1 DEF Neighbor
<1>4. QED
  BY <1>2, <1>3 DEF ExtrasSound

----------------------------------------------------------------------------
(* Filtering *)

Rising(seq) == \A j, k \in DOMAIN seq : j < k => seq[j] < seq[k]

\* What is kept for b lists b, and b does not list it.
Fresh(b) ==
    \A k \in DOMAIN filtered[b] :
        Asymmetric(filtered[b][k], b) /\ ~Occurs(filtered[b][k], input.neighbors[b])

\* The extras of the current atom before the current one are listed, and those
\* kept are among them.
Halfway ==
    /\ \A j \in DOMAIN extras[atom] : j < slot =>
          AlreadyPresent(extras[atom][j], atom)
    /\ \A k \in DOMAIN filtered[atom] : \E j \in DOMAIN extras[atom] :
          j < slot /\ extras[atom][j] = filtered[atom][k]

\* Who lists b is in its list, or the list is full of earlier atoms.
Complete(b) ==
    /\ Len(input.neighbors[b]) + Len(filtered[b]) <= MaxNeighbors
    /\ \A a \in Atom : Asymmetric(a, b) =>
          \/ Occurs(a, input.neighbors[b])
          \/ Occurs(a, filtered[b])
          \/ /\ Len(input.neighbors[b]) + Len(filtered[b]) = MaxNeighbors
             /\ \A k \in DOMAIN filtered[b] : filtered[b][k] < a

FilterSound ==
    /\ pc = "scan" => filtered = Nothing
    /\ pc \in {"append", "done"} => \A b \in Atom : Fresh(b) /\ Rising(filtered[b])
    /\ pc = "append" =>
          /\ \A b \in Atom : b < atom => Complete(b)
          /\ \A b \in Atom : b > atom => filtered[b] = <<>>
          /\ atom \in Atom => Halfway
    /\ pc = "done" =>
          /\ \A b \in Atom : Complete(b)
          /\ neighbors = [b \in Atom |-> input.neighbors[b] \o filtered[b]]

\* The lists that tell Fresh and Complete are those the call found.
LEMMA FilterFixed ==
    ASSUME UNCHANGED input, NEW b, filtered'[b] = filtered[b]
    PROVE  Fresh(b)' = Fresh(b) /\ Complete(b)' = Complete(b)
BY DEF Fresh, Complete, Asymmetric, Occurs

\* An extra is kept behind those kept before, and they are earlier atoms.
LEMMA KeepSound ==
    ASSUME Typed, ExtrasSound, FilterSound, KeepExtra
    PROVE  /\ \A b \in Atom : b # atom => filtered'[b] = filtered[b]
           /\ \A b \in Atom : b = atom => Fresh(b)' /\ Rising(filtered'[b])
           /\ Halfway'
<1> DEFINE F == filtered[atom]
           e == extras[atom][slot]
<1>1. /\ pc = "append" /\ atom \in Atom /\ UNCHANGED <<input, extras, neighbors, atom>>
      /\ slot <= Len(extras[atom]) /\ slot' = slot + 1
      /\ ~Occurs(e, neighbors[atom]) /\ ~Occurs(e, F)
      /\ slot \in Nat \ {0} /\ neighbors[atom] = input.neighbors[atom]
  BY DEF KeepExtra, Appending, NextSlot, AlreadyPresent, Typed, TypeOK, ListsKept
<1>2. F \in Seq(Atom) /\ extras[atom] \in Seq(Atom)
  BY <1>1 DEF Typed, TypeOK
<1>3. e \in Atom /\ slot \in DOMAIN extras[atom]
  BY <1>1, <1>2
<1>4. /\ filtered'[atom] = Append(F, e)
      /\ \A b \in Atom : b # atom => filtered'[b] = filtered[b]
  BY <1>1 DEF KeepExtra, Typed, TypeOK
<1>5. /\ DOMAIN filtered'[atom] = DOMAIN F \cup {Len(F) + 1}
      /\ \A k \in DOMAIN F : filtered'[atom][k] = F[k] /\ k <= Len(F) /\ k \in Int
      /\ filtered'[atom][Len(F) + 1] = e
      /\ Len(F) \in Nat
  BY <1>2, <1>3, <1>4
<1>6. Fresh(atom) /\ Rising(F) /\ Halfway
  BY <1>1 DEF FilterSound
<1>7. Asymmetric(e, atom)
  BY <1>1, <1>3 DEF ExtrasSound
<1>8. ASSUME NEW b \in Atom, b = atom PROVE Fresh(b)'
  BY <1>1, <1>5, <1>6, <1>7, <1>8 DEF Fresh, Asymmetric, Occurs
<1>9. ASSUME NEW k \in DOMAIN F PROVE F[k] < e
  <2>1. PICK j \in DOMAIN extras[atom] : j < slot /\ extras[atom][j] = F[k]
    BY <1>6 DEF Halfway
  <2>2. F[k] <= e
    BY <1>1, <1>3, <2>1 DEF ExtrasSound
  <2>3. F[k] # e /\ F[k] \in Atom
    BY <1>1, <1>2 DEF Occurs
  <2>4. QED
    BY <1>3, <2>2, <2>3 DEF Atom
<1>10. Rising(filtered'[atom])
  BY <1>5, <1>6, <1>9 DEF Rising
<1>11. Halfway'
  <2>1. ASSUME NEW j \in DOMAIN extras[atom], j < slot + 1
        PROVE  Occurs(extras[atom][j], neighbors[atom])
               \/ Occurs(extras[atom][j], filtered'[atom])
    <3>1. CASE j < slot
      BY <1>5, <1>6, <3>1 DEF Halfway, AlreadyPresent, Occurs
    <3>2. CASE j = slot
      BY <1>5, <3>2 DEF Occurs
    <3>3. QED
      BY <1>1, <1>2, <2>1, <3>1, <3>2
  <2>2. ASSUME NEW k \in DOMAIN filtered'[atom]
        PROVE  \E j \in DOMAIN extras[atom] :
                  j < slot + 1 /\ extras[atom][j] = filtered'[atom][k]
    <3>1. CASE k \in DOMAIN F
      <4>1. PICK j \in DOMAIN extras[atom] : j < slot /\ extras[atom][j] = F[k]
        BY <1>6, <3>1 DEF Halfway
      <4>2. j \in Int
        BY <1>2, <4>1
      <4>3. QED
        BY <1>1, <1>5, <3>1, <4>1, <4>2
    <3>2. CASE k = Len(F) + 1
      BY <1>1, <1>3, <1>5, <3>2
    <3>3. QED
      BY <1>5, <2>2, <3>1, <3>2
  <2>3. QED
    BY <1>1, <2>1, <2>2 DEF Halfway, AlreadyPresent, Occurs
<1>12. QED
  BY <1>4, <1>8, <1>10, <1>11

\* Cutting a sequence to the room that is left beside a length.
LEMMA Cut ==
    ASSUME NEW S, NEW s \in Seq(S), NEW L \in Nat, NEW M \in Nat, L <= M,
           NEW t, t = IF Len(s) > M - L THEN SubSeq(s, 1, M - L) ELSE s
    PROVE  /\ t \in Seq(S) /\ L + Len(t) <= M
           /\ \A k \in DOMAIN t : k \in DOMAIN s /\ t[k] = s[k]
           /\ \A i \in DOMAIN s : i \notin DOMAIN t =>
                 L + Len(t) = M /\ \A k \in DOMAIN t : k < i
<1>1. M - L \in Nat /\ Len(s) \in Nat /\ DOMAIN s = 1 .. Len(s)
  OBVIOUS
<1>2. CASE Len(s) > M - L
  <2>1. t = SubSeq(s, 1, M - L)
    BY <1>2
  <2>2. Len(t) = M - L /\ t \in Seq(S) /\ DOMAIN t = 1 .. M - L
    BY <1>1, <1>2, <2>1
  <2>3. \A k \in 1 .. M - L : t[k] = s[k] /\ k \in 1 .. Len(s)
    BY <1>1, <1>2, <2>1
  <2>4. \A i \in 1 .. Len(s) : i \notin 1 .. M - L => \A k \in 1 .. M - L : k < i
    BY <1>1
  <2>5. QED
    BY <1>1, <2>2, <2>3, <2>4
<1>3. CASE ~(Len(s) > M - L)
  <2>1. t = s /\ L + Len(s) <= M
    BY <1>1, <1>3
  <2>2. QED
    BY <2>1
<1>4. QED
  BY <1>2, <1>3

\* What is kept of an atom's extras fits into its list, and if an extra is
\* missing then the list is full of earlier atoms.
LEMMA TrimSound ==
    ASSUME Typed, ExtrasSound, FilterSound, TrimExtras
    PROVE  /\ \A b \in Atom : b # atom => filtered'[b] = filtered[b]
           /\ \A b \in Atom : b = atom => Fresh(b)' /\ Rising(filtered'[b]) /\ Complete(b)'
<1> DEFINE F == filtered[atom]
           G == filtered'[atom]
           L == Len(input.neighbors[atom])
<1>1. /\ pc = "append" /\ atom \in Atom /\ UNCHANGED <<input, extras, neighbors>>
      /\ slot > Len(extras[atom]) /\ neighbors[atom] = input.neighbors[atom]
      /\ Len(neighbors[atom]) <= MaxNeighbors
  BY DEF TrimExtras, Appending, Typed, TypeOK, ListsKept
<1>2. /\ F \in Seq(Atom) /\ extras[atom] \in Seq(Atom) /\ slot \in Nat
      /\ L \in Nat /\ MaxNeighbors \in Nat /\ L <= MaxNeighbors
  BY <1>1, InputType, ConnectionAssumption DEF Typed, TypeOK
<1>3. /\ G = Trimmed(atom)
      /\ \A b \in Atom : b # atom => filtered'[b] = filtered[b]
  BY <1>1 DEF TrimExtras, Typed, TypeOK
<1>4. /\ G \in Seq(Atom) /\ L + Len(G) <= MaxNeighbors
      /\ \A k \in DOMAIN G : k \in DOMAIN F /\ G[k] = F[k]
      /\ \A i \in DOMAIN F : i \notin DOMAIN G =>
            L + Len(G) = MaxNeighbors /\ \A k \in DOMAIN G : k < i
  <2>1. G = IF Len(F) > MaxNeighbors - L THEN SubSeq(F, 1, MaxNeighbors - L) ELSE F
    BY <1>1, <1>3 DEF Trimmed, AvailableSlots
  <2> HIDE DEF F, G, L
  <2>2. QED
    BY <1>2, <2>1, Cut
<1>5. Fresh(atom) /\ Rising(F) /\ Halfway
  BY <1>1 DEF FilterSound
<1>6. ASSUME NEW b \in Atom, b = atom PROVE Fresh(b)'
  BY <1>1, <1>4, <1>5, <1>6 DEF Fresh, Asymmetric, Occurs
<1>7. Rising(G)
  BY <1>4, <1>5 DEF Rising
<1>8. ASSUME NEW a \in Atom, Asymmetric(a, atom)
      PROVE  \/ Occurs(a, input.neighbors[atom])
             \/ Occurs(a, G)
             \/ /\ L + Len(G) = MaxNeighbors
                /\ \A k \in DOMAIN G : G[k] < a
  <2>1. Occurs(a, extras[atom])
    BY <1>1, <1>8, ExtrasComplete
  <2>2. PICK j \in DOMAIN extras[atom] : extras[atom][j] = a
    BY <2>1 DEF Occurs
  <2>3. j < slot
    BY <1>1, <1>2
  <2>4. Occurs(a, input.neighbors[atom]) \/ Occurs(a, F)
    BY <1>1, <1>5, <2>2, <2>3 DEF Halfway, AlreadyPresent
  <2>5. ASSUME NEW i \in DOMAIN F, F[i] = a, i \notin DOMAIN G
        PROVE  /\ L + Len(G) = MaxNeighbors
               /\ \A k \in DOMAIN G : G[k] < a
    <3>3. L + Len(G) = MaxNeighbors /\ \A k \in DOMAIN G : k < i
      BY <1>4, <2>5
    <3>4. ASSUME NEW k \in DOMAIN G PROVE G[k] < a
      <4>1. k \in DOMAIN F /\ k < i /\ G[k] = F[k]
        BY <1>4, <3>3
      <4>2. F[k] < F[i]
        BY <1>5, <4>1 DEF Rising
      <4>3. QED
        BY <2>5, <4>1, <4>2
    <3>5. QED
      BY <3>3, <3>4
  <2>6. QED
    BY <1>4, <2>4, <2>5 DEF Occurs
<1>9. ASSUME NEW b \in Atom, b = atom PROVE Complete(b)'
  BY <1>1, <1>4, <1>8, <1>9 DEF Complete, Asymmetric, Occurs
<1>10. QED
  BY <1>3, <1>6, <1>7, <1>9

\* Nothing is filtered before the scan is over.
LEMMA FilterInit == Init => FilterSound
BY DEF Init, FilterSound

\* Every step keeps the filtered extras sound.
LEMMA FilterStep == Typed /\ ExtrasSound /\ FilterSound /\ [Next]_vars => FilterSound'
<1> SUFFICES ASSUME Typed, ExtrasSound, FilterSound, [Next]_vars PROVE FilterSound'
  OBVIOUS
<1>0. /\ atom \in 1 .. NumAtoms + 1 /\ NumAtoms \in Nat /\ slot \in Nat \ {0}
      /\ pc \in {"scan", "append", "done", "failed"}
  BY ConnectionAssumption DEF Typed, TypeOK
<1>1. CASE BondStep \/ NextAtom
  BY <1>1 DEF BondStep, SkipInside, RememberExtra, CountBond, LinkClusters,
              LeaveUnlinked, AtBond, ScanOn, NextAtom, FilterSound, Nothing
<1>2. CASE StartAppending
  <2>1. /\ pc' = "append" /\ atom' = 1 /\ slot' = 1 /\ filtered' = Nothing
        /\ UNCHANGED <<input, extras>>
    BY <1>2 DEF StartAppending, FilterSound
  <2>2. \A b \in Atom : filtered'[b] = <<>>
    BY <2>1 DEF Nothing
  <2>3. \A b \in Atom : Fresh(b)' /\ Rising(filtered'[b]) /\ ~(b < 1)
    BY <2>2 DEF Fresh, Rising, Atom
  <2>4. 1 \in Atom => Halfway'
    <3>1. \A b \in Atom : \A j \in DOMAIN extras[b] : ~(j < 1)
      BY DEF Typed, TypeOK
    <3>2. QED
      BY <2>1, <2>2, <3>1 DEF Halfway
  <2>5. QED
    BY <2>1, <2>2, <2>3, <2>4 DEF FilterSound
<1>3. CASE BaseOverflow
  BY <1>3 DEF BaseOverflow, FilterSound
<1>4. CASE DropExtra
  <2>1. /\ pc = "append" /\ pc' = "append" /\ atom \in Atom
        /\ UNCHANGED <<input, extras, neighbors, filtered, atom>>
        /\ slot' = slot + 1 /\ AlreadyPresent(extras[atom][slot], atom)
    BY <1>4 DEF DropExtra, Appending, NextSlot
  <2>2. Halfway'
    <3>1. Halfway
      BY <2>1 DEF FilterSound
    <3>2. DOMAIN extras[atom] \subseteq Int
      BY <2>1 DEF Typed, TypeOK
    <3>3. \A j \in DOMAIN extras[atom] : j < slot + 1 => j < slot \/ j = slot
      BY <1>0, <3>2
    <3>4. \A j \in DOMAIN extras[atom] : j < slot => j < slot + 1
      BY <1>0, <3>2
    <3>5. QED
      BY <2>1, <3>1, <3>3, <3>4 DEF Halfway, AlreadyPresent, Occurs
  <2>3. QED
    BY <2>1, <2>2, FilterFixed DEF FilterSound
<1>5. CASE KeepExtra
  <2>1. /\ pc = "append" /\ pc' = "append" /\ UNCHANGED <<input, atom>>
        /\ atom \in Atom
    BY <1>5 DEF KeepExtra, Appending
  <2>2. /\ \A b \in Atom : b # atom => filtered'[b] = filtered[b]
        /\ \A b \in Atom : b = atom => Fresh(b)' /\ Rising(filtered'[b])
        /\ Halfway'
    BY <1>5, KeepSound
  <2>3. \A b \in Atom : b < atom \/ b > atom => b # atom
    BY <1>0 DEF Atom
  <2>4. QED
    BY <2>1, <2>2, <2>3, FilterFixed DEF FilterSound
<1>6. CASE TrimExtras
  <2>1. /\ pc = "append" /\ pc' = "append" /\ UNCHANGED <<input, extras>>
        /\ atom \in Atom /\ atom' = atom + 1 /\ slot' = 1
    BY <1>6 DEF TrimExtras, Appending
  <2>2. /\ \A b \in Atom : b # atom => filtered'[b] = filtered[b]
        /\ \A b \in Atom : b = atom => Fresh(b)' /\ Rising(filtered'[b]) /\ Complete(b)'
    BY <1>6, TrimSound
  <2>3. ASSUME NEW b \in Atom
        PROVE  /\ Fresh(b)' /\ Rising(filtered'[b])
               /\ b < atom + 1 => Complete(b)'
               /\ b > atom => filtered'[b] = <<>>
    <3>1. CASE b = atom
      BY <1>0, <2>2, <3>1
    <3>2. CASE b # atom
      BY <1>0, <2>1, <2>2, <3>2, FilterFixed DEF FilterSound, Atom
    <3>3. QED
      BY <3>1, <3>2
  <2>4. ASSUME atom + 1 \in Atom PROVE Halfway'
    <3>1. filtered'[atom + 1] = <<>>
      BY <1>0, <2>3, <2>4
    <3>2. \A j \in DOMAIN extras[atom + 1] : ~(j < 1)
      BY <2>4 DEF Typed, TypeOK
    <3>3. QED
      BY <2>1, <3>1, <3>2 DEF Halfway
  <2>5. \A b \in Atom : b > atom + 1 => b > atom
    BY <1>0 DEF Atom
  <2>6. QED
    BY <2>1, <2>3, <2>4, <2>5 DEF FilterSound
<1>7. CASE ReplaceLists
  <2>1. /\ pc = "append" /\ atom \notin Atom /\ pc' = "done"
        /\ UNCHANGED <<input, filtered>>
        /\ neighbors' = [b \in Atom |-> input.neighbors[b] \o filtered[b]]
    BY <1>7 DEF ReplaceLists, Typed, ListsKept
  <2>2. \A b \in Atom : b < atom
    BY <1>0, <2>1 DEF Atom
  <2>3. QED
    BY <2>1, <2>2, FilterFixed DEF FilterSound
<1>8. CASE UNCHANGED vars
  <2>1. Halfway' <=> Halfway
    BY <1>8 DEF vars, Halfway, AlreadyPresent, Occurs
  <2>2. QED
    BY <1>8, <2>1, FilterFixed DEF vars, FilterSound
<1>9. QED
  BY <1>1, <1>2, <1>3, <1>4, <1>5, <1>6, <1>7, <1>8 DEF Next, BondStep

\* The inductive invariant of the neighbour lists.
ListsInv == Typed /\ ExtrasSound /\ FilterSound

\* It holds in every state of the call.
LEMMA ListsInvCorrect == Spec => []ListsInv
<1>1. Init => ListsInv
  BY TypeInit, ExtrasInit, FilterInit DEF ListsInv
<1>2. ListsInv /\ [Next]_vars => ListsInv'
  BY TypeStep, ExtrasStep, FilterStep DEF ListsInv
<1>3. QED
  BY <1>1, <1>2, PTL DEF Spec

\* A list that was replaced is the old one and then what was kept.
LEMMA Replaced ==
    ASSUME ListsInv, pc = "done", NEW b \in Atom, NEW L, L = Len(input.neighbors[b])
    PROVE  /\ L \in Nat /\ Len(filtered[b]) \in Nat
           /\ Len(neighbors[b]) = L + Len(filtered[b])
           /\ \A k \in DOMAIN input.neighbors[b] :
                 k \in DOMAIN neighbors[b] /\ neighbors[b][k] = input.neighbors[b][k]
           /\ \A k \in DOMAIN filtered[b] :
                 L + k \in DOMAIN neighbors[b] /\ neighbors[b][L + k] = filtered[b][k]
           /\ \A k \in DOMAIN neighbors[b] : k > L =>
                 k - L \in DOMAIN filtered[b] /\ neighbors[b][k] = filtered[b][k - L]
           /\ \A k \in DOMAIN neighbors[b] : k \in Int /\ (k > L \/ k \in DOMAIN input.neighbors[b])
<1>1. input.neighbors[b] \in Seq(Atom) /\ filtered[b] \in Seq(Atom)
  BY InputType DEF ListsInv, Typed, TypeOK
<1>2. neighbors[b] = input.neighbors[b] \o filtered[b]
  BY DEF ListsInv, FilterSound
<1>3. PICK s, t, u :
          /\ s \in Seq(Atom) /\ t \in Seq(Atom)
          /\ s = input.neighbors[b] /\ t = filtered[b] /\ u = neighbors[b] /\ u = s \o t
  BY <1>1, <1>2
<1>4. /\ Len(s) \in Nat /\ Len(t) \in Nat /\ Len(u) = Len(s) + Len(t)
      /\ \A k \in DOMAIN s : k \in DOMAIN u /\ u[k] = s[k]
      /\ \A k \in DOMAIN t : Len(s) + k \in DOMAIN u /\ u[Len(s) + k] = t[k]
      /\ \A k \in DOMAIN u : k > Len(s) => k - Len(s) \in DOMAIN t /\ u[k] = t[k - Len(s)]
      /\ \A k \in DOMAIN u : k \in Int /\ (k > Len(s) \/ k \in DOMAIN s)
  <2>0. u = s \o t /\ s \in Seq(Atom) /\ t \in Seq(Atom)
    BY <1>3
  <2>1. /\ Len(s) \in Nat /\ Len(t) \in Nat /\ Len(u) = Len(s) + Len(t)
        /\ DOMAIN s = 1 .. Len(s) /\ DOMAIN t = 1 .. Len(t) /\ DOMAIN u = 1 .. Len(u)
    BY <2>0
  <2>2. \A k \in 1 .. Len(s) : u[k] = s[k]
    BY <2>0, <2>1
  <2>3. \A k \in 1 .. Len(t) : u[Len(s) + k] = t[k]
    BY <2>0, <2>1
  <2>4. \A k \in 1 .. Len(u) : k > Len(s) =>
            k - Len(s) \in 1 .. Len(t) /\ k = Len(s) + (k - Len(s))
    BY <2>1
  <2>5. \A k \in 1 .. Len(u) : k > Len(s) => u[k] = t[k - Len(s)]
    BY <2>3, <2>4
  <2>6. QED
    BY <2>1, <2>2, <2>3, <2>4, <2>5
<1>5. QED
  BY <1>3, <1>4, Zenon

\* Who is without a cluster lists the clustered atoms that list it, up to
\* MAX_NEIGHBORS and in the order of the scan.
THEOREM ReverseAdjacencyCorrect == Spec => []ReverseAdjacency
<1>1. ListsInv => ReverseAdjacency
  <2> SUFFICES ASSUME ListsInv, pc = "done", NEW a \in Atom, NEW b \in Atom,
                      Asymmetric(a, b), ~Occurs(a, neighbors[b])
               PROVE  /\ Len(neighbors[b]) = MaxNeighbors
                      /\ \A k \in DOMAIN neighbors[b] :
                            k > Len(input.neighbors[b]) => neighbors[b][k] < a
    BY DEF ReverseAdjacency
  <2>1. PICK L : L = Len(input.neighbors[b])
    OBVIOUS
  <2>2. /\ Len(neighbors[b]) = L + Len(filtered[b])
        /\ ~Occurs(a, input.neighbors[b]) /\ ~Occurs(a, filtered[b])
    <3>1. Len(neighbors[b]) = L + Len(filtered[b])
      BY <2>1, Replaced
    <3>2. ~Occurs(a, input.neighbors[b])
      BY <2>1, Replaced DEF Occurs
    <3>3. ~Occurs(a, filtered[b])
      BY <2>1, Replaced DEF Occurs
    <3>4. QED
      BY <3>1, <3>2, <3>3
  <2>3. L + Len(filtered[b]) = MaxNeighbors /\ \A k \in DOMAIN filtered[b] : filtered[b][k] < a
    BY <2>1, <2>2 DEF ListsInv, FilterSound, Complete
  <2>4. \A k \in DOMAIN neighbors[b] : k > L => neighbors[b][k] < a
    BY <2>1, <2>3, Replaced
  <2>5. QED
    BY <2>1, <2>2, <2>3, <2>4
<1>2. QED
  BY <1>1, ListsInvCorrect, PTL

\* What is appended is new, wanted and there once, and no list outgrows
\* MAX_NEIGHBORS.
THEOREM ListsExtendedCorrect == Spec => []ListsExtended
<1>1. ListsInv => ListsExtended
  <2> SUFFICES ASSUME ListsInv, pc = "done", NEW b \in Atom
               PROVE  /\ Len(neighbors[b]) \in Len(input.neighbors[b]) .. MaxNeighbors
                      /\ \A k \in DOMAIN input.neighbors[b] :
                            neighbors[b][k] = input.neighbors[b][k]
                      /\ \A k \in DOMAIN neighbors[b] : k > Len(input.neighbors[b]) =>
                            /\ Asymmetric(neighbors[b][k], b)
                            /\ \A j \in DOMAIN neighbors[b] :
                                  neighbors[b][j] = neighbors[b][k] => j = k
    BY DEF ListsExtended
  <2>1. PICK L : L = Len(input.neighbors[b])
    OBVIOUS
  <2>2. Complete(b) /\ Fresh(b) /\ Rising(filtered[b])
    BY DEF ListsInv, FilterSound
  <2>3. Len(neighbors[b]) \in L .. MaxNeighbors
    <3>1. L + Len(filtered[b]) <= MaxNeighbors
      BY <2>1, <2>2 DEF Complete
    <3>2. /\ L \in Nat /\ Len(filtered[b]) \in Nat /\ MaxNeighbors \in Nat
          /\ Len(neighbors[b]) = L + Len(filtered[b])
      BY <2>1, Replaced, ConnectionAssumption
    <3>3. QED
      BY <3>1, <3>2
  <2>4. ASSUME NEW k \in DOMAIN neighbors[b], k > L
        PROVE  k - L \in DOMAIN filtered[b] /\ neighbors[b][k] = filtered[b][k - L]
    BY <2>1, <2>4, Replaced
  <2>5. ASSUME NEW k \in DOMAIN neighbors[b], k > L,
               NEW j \in DOMAIN neighbors[b], neighbors[b][j] = neighbors[b][k]
        PROVE  j = k
    <3>1. CASE j > L
      <4>1. /\ k - L \in DOMAIN filtered[b] /\ j - L \in DOMAIN filtered[b]
            /\ filtered[b][j - L] = filtered[b][k - L]
        BY <2>4, <2>5, <3>1
      <4>2. k \in Int /\ j \in Int /\ L \in Int
        BY <2>1, <2>5, Replaced
      <4>3. filtered[b][j - L] \in Int
        <5>1. filtered[b] \in Seq(Atom)
          BY DEF ListsInv, Typed, TypeOK
        <5>2. filtered[b][j - L] \in Atom
          BY <4>1, <5>1
        <5>3. QED
          BY <5>2 DEF Atom
      <4>4. ~(j - L < k - L) /\ ~(k - L < j - L)
        BY <2>2, <4>1, <4>3 DEF Rising
      <4>5. QED
        BY <4>2, <4>4
    <3>2. CASE ~(j > L)
      <4>1. j \in DOMAIN input.neighbors[b]
        BY <2>1, <2>5, <3>2, Replaced
      <4>2. input.neighbors[b][j] = filtered[b][k - L] /\ k - L \in DOMAIN filtered[b]
        BY <2>1, <2>4, <2>5, <4>1, Replaced
      <4>3. QED
        BY <2>2, <4>1, <4>2 DEF Fresh, Occurs
    <3>3. QED
      BY <3>1, <3>2
  <2>6. \A k \in DOMAIN neighbors[b] : k > L => Asymmetric(neighbors[b][k], b)
    BY <2>2, <2>4 DEF Fresh
  <2>7. \A k \in DOMAIN input.neighbors[b] : neighbors[b][k] = input.neighbors[b][k]
    BY <2>1, Replaced
  <2>8. QED
    BY <2>1, <2>3, <2>5, <2>6, <2>7
<1>2. QED
  BY <1>1, ListsInvCorrect, PTL

----------------------------------------------------------------------------
(* The links in the cluster graph *)

\* No more than one link for two clusters: the pairs of reverse transitions
\* are fewer than the pairs of clusters.
LEMMA LinksBounded ==
    ASSUME NEW ls \in Seq(Link),
           \A l \in DOMAIN ls : ls[l].c1 # ls[l].c2,
           \A k, l \in DOMAIN ls : {ls[k].c1, ls[k].c2} = {ls[l].c1, ls[l].c2} => k = l
    PROVE  2 * Len(ls) <= NumClusters * NumClusters
<1>d. PICK D : D = DOMAIN ls
  OBVIOUS
<1> DEFINE Ends == D \X {1, 2}
           f == [e \in Ends |-> IF e[2] = 1 THEN <<ls[e[1]].c1, ls[e[1]].c2>>
                                ELSE <<ls[e[1]].c2, ls[e[1]].c1>>]
<1>0. Len(ls) \in Nat /\ D = 1 .. Len(ls) /\ NumClusters \in Nat
  BY <1>d, ConnectionAssumption
<1>1. \A l \in D : ls[l].c1 \in Cluster /\ ls[l].c2 \in Cluster
  <2>1. \A l \in D : ls[l] \in Link
    BY <1>d
  <2>2. QED
    BY <2>1 DEF Link
<1>2. f \in Injection(Ends, Cluster \X Cluster)
  <2>1. ASSUME NEW e \in Ends PROVE f[e] \in Cluster \X Cluster
    BY <1>1
  <2>2. ASSUME NEW e \in Ends, NEW g \in Ends, f[e] = f[g] PROVE e = g
    <3>0. /\ e[1] \in D /\ e[2] \in {1, 2} /\ e = <<e[1], e[2]>>
          /\ g[1] \in D /\ g[2] \in {1, 2} /\ g = <<g[1], g[2]>>
      OBVIOUS
    <3>1. /\ {ls[e[1]].c1, ls[e[1]].c2} = {f[e][1], f[e][2]}
          /\ {ls[g[1]].c1, ls[g[1]].c2} = {f[g][1], f[g][2]}
          /\ e[2] = 1 => f[e][1] = ls[e[1]].c1
          /\ e[2] = 2 => f[e][1] = ls[e[1]].c2
          /\ g[2] = 1 => f[g][1] = ls[g[1]].c1
          /\ g[2] = 2 => f[g][1] = ls[g[1]].c2
      BY <3>0
    <3> HIDE DEF f
    <3>2. e[1] = g[1]
      BY <1>d, <2>2, <3>0, <3>1
    <3>3. e[2] = g[2]
      BY <1>d, <2>2, <3>0, <3>1, <3>2
    <3>4. QED
      BY <3>0, <3>2, <3>3
  <2> HIDE DEF Ends
  <2>3. f \in [Ends -> Cluster \X Cluster]
    BY <2>1
  <2>4. QED
    BY <2>2, <2>3 DEF Injection, IsInjective
<1>3. IsFiniteSet(D) /\ Cardinality(D) = Len(ls)
  <2>1. 1 \in Int /\ Len(ls) \in Int /\ (1 > Len(ls) <=> Len(ls) = 0)
    BY <1>0
  <2>2. QED
    BY <1>0, <2>1, FS_Interval
<1>4. IsFiniteSet(Cluster) /\ Cardinality(Cluster) = NumClusters
  <2>1. 1 \in Int /\ NumClusters \in Int /\ (1 > NumClusters <=> NumClusters = 0)
    BY <1>0
  <2>2. QED
    BY <1>0, <2>1, FS_Interval DEF Cluster
<1>5. IsFiniteSet({1, 2}) /\ Cardinality({1, 2}) = 2
  <2>1. IsFiniteSet({1}) /\ Cardinality({1}) = 1
    BY FS_Singleton
  <2>2. IsFiniteSet({1} \cup {2}) /\ Cardinality({1} \cup {2}) = Cardinality({1}) + 1
    <3>1. 2 \notin {1}
      OBVIOUS
    <3>2. QED
      BY <2>1, <3>1, FS_AddElement
  <2>3. {1, 2} = {1} \cup {2}
    OBVIOUS
  <2>4. QED
    BY <2>1, <2>2, <2>3
<1>6. IsFiniteSet(Ends) /\ Cardinality(Ends) = Len(ls) * 2
  <2>1. IsFiniteSet(D \X {1, 2}) /\ Cardinality(D \X {1, 2}) = Cardinality(D) * Cardinality({1, 2})
    BY <1>3, <1>5, FS_Product
  <2>2. QED
    BY <1>3, <1>5, <2>1
<1>7. IsFiniteSet(Cluster \X Cluster) /\ Cardinality(Cluster \X Cluster) = NumClusters * NumClusters
  BY <1>4, FS_Product
<1> HIDE DEF Ends, f
<1>8. Len(ls) * 2 <= NumClusters * NumClusters
  BY <1>2, <1>6, <1>7, FS_Injection
<1>9. QED
  BY <1>0, <1>8

\* The greatest of a set of numbers comes last.
LEMMA InOrderGrows ==
    ASSUME NEW S, S \subseteq Nat, IsFiniteSet(S), NEW m \in Nat, \A s \in S : s < m,
           \A k \in DOMAIN InOrder(S) : InOrder(S)[k] \in S
    PROVE  /\ InOrder(S) \in Seq(Nat) /\ Len(InOrder(S)) \in Nat
           /\ DOMAIN InOrder(S) = 1 .. Len(InOrder(S))
           /\ InOrder(S \cup {m}) = Append(InOrder(S), m)
           /\ \A k \in DOMAIN InOrder(S \cup {m}) : InOrder(S \cup {m})[k] \in S \cup {m}
<1> DEFINE n == Cardinality(S)
           U == S \cup {m}
           Under(X, k) == {t \in X : Cardinality({r \in X : r < t}) = k - 1}
<1>0. n \in Nat /\ m \notin S
  BY FS_CardinalityType
<1>1. IsFiniteSet(U) /\ Cardinality(U) = n + 1
  BY <1>0, FS_AddElement
<1>2. \A t \in S : {r \in U : r < t} = {r \in S : r < t}
  OBVIOUS
<1>3. {r \in U : r < m} = S
  <2>1. ~(m < m)
    OBVIOUS
  <2>2. QED
    BY <2>1
<1>4. ASSUME NEW k \in 1 .. n PROVE Nth(U, k) = Nth(S, k)
  <2>1. Under(U, k) = Under(S, k)
    <3>1. Cardinality({r \in U : r < m}) # k - 1
      BY <1>0, <1>3
    <3>2. QED
      BY <1>2, <3>1
  <2>2. /\ Nth(U, k) = CHOOSE s \in Under(U, k) : TRUE
        /\ Nth(S, k) = CHOOSE s \in Under(S, k) : TRUE
    BY DEF Nth
  <2>3. QED
    BY <2>1, <2>2
<1>5. Nth(U, n + 1) = m
  <2>1. ASSUME NEW t \in S PROVE Cardinality({r \in U : r < t}) # n
    <3>1. IsFiniteSet({r \in S : r < t}) /\ {r \in S : r < t} \subseteq S
      BY FS_Subset
    <3>2. {r \in S : r < t} # S
      OBVIOUS
    <3>3. Cardinality({r \in S : r < t}) # n
      BY <3>1, <3>2, FS_Subset
    <3>4. QED
      BY <1>2, <3>3
  <2>2. Under(U, n + 1) = {m}
    <3>1. (n + 1) - 1 = n
      BY <1>0
    <3>2. QED
      BY <1>3, <2>1, <3>1
  <2>3. Nth(U, n + 1) = CHOOSE s \in Under(U, n + 1) : TRUE
    BY DEF Nth
  <2>4. QED
    BY <2>2, <2>3
<1>6. /\ InOrder(S) = [k \in 1 .. n |-> Nth(S, k)]
      /\ InOrder(U) = [k \in 1 .. n + 1 |-> Nth(U, k)]
  BY <1>1 DEF InOrder
<1>7. InOrder(S) \in Seq(Nat) /\ Len(InOrder(S)) = n /\ DOMAIN InOrder(S) = 1 .. n
  <2>1. InOrder(S) \in [1 .. n -> Nat]
    BY <1>6
  <2>2. QED
    BY <1>0, <1>6, <2>1
<1> HIDE DEF n, U, Under
<1>8. InOrder(U) = Append(InOrder(S), m)
  <2> DEFINE as == Append(InOrder(S), m)
  <2>1. /\ as = [k \in 1 .. n + 1 |-> as[k]]
        /\ \A k \in 1 .. n : as[k] = InOrder(S)[k]
        /\ as[n + 1] = m
    <3>1. as \in Seq(Nat) /\ Len(as) = n + 1
      BY <1>0, <1>7
    <3>2. as = [k \in 1 .. n + 1 |-> as[k]]
      <4>1. as \in [1 .. Len(as) -> Nat]
        BY <3>1, LenProperties
      <4>2. QED
        BY <3>1, <4>1
    <3>3. \A k \in 1 .. n : as[k] = InOrder(S)[k]
      BY <1>0, <1>7
    <3>4. as[n + 1] = m
      BY <1>0, <1>7
    <3>5. QED
      BY <3>2, <3>3, <3>4
  <2>2. \A k \in 1 .. n + 1 : InOrder(U)[k] = as[k]
    <3>1. \A k \in 1 .. n : InOrder(U)[k] = as[k]
      BY <1>0, <1>4, <1>6, <2>1
    <3>2. InOrder(U)[n + 1] = as[n + 1]
      BY <1>0, <1>5, <1>6, <2>1
    <3>3. \A k \in 1 .. n + 1 : k \in 1 .. n \/ k = n + 1
      BY <1>0
    <3>4. QED
      BY <3>1, <3>2, <3>3
  <2> HIDE DEF as
  <2>3. InOrder(U) = as
    BY <1>6, <2>1, <2>2
  <2>4. QED
    BY <2>3 DEF as
<1>9. \A k \in DOMAIN InOrder(U) : InOrder(U)[k] \in U
  <2>1. \A k \in 1 .. n : InOrder(U)[k] \in S
    BY <1>0, <1>4, <1>6, <1>7
  <2>2. InOrder(U)[n + 1] = m
    BY <1>0, <1>5, <1>6
  <2>3. DOMAIN InOrder(U) = 1 .. n + 1 /\ \A k \in 1 .. n + 1 : k \in 1 .. n \/ k = n + 1
    BY <1>0, <1>6
  <2>4. QED
    BY <2>1, <2>2, <2>3 DEF U
<1>10. QED
  BY <1>0, <1>7, <1>8, <1>9 DEF U

\* What a pair of reverse transitions is made from.
LEMMA PoolFacts ==
    ASSUME Typed
    PROVE  /\ Len(links) \in Nat /\ DOMAIN links = 1 .. Len(links)
           /\ DOMAIN Pool = 1 .. 2 * Len(links) /\ Len(Pool) = 2 * Len(links)
           /\ Pool \in Seq({Pool[t] : t \in DOMAIN Pool})
           /\ \A t \in DOMAIN Pool :
                 /\ Pool[t].distance = 1 /\ Pool[t].reverse # t
                 /\ \E l \in DOMAIN links :
                       {Pool[t].c1, Pool[t].c2} = {links[l].c1 + 1, links[l].c2 + 1}
<1>1. Len(links) \in Nat /\ DOMAIN links = 1 .. Len(links)
  BY DEF Typed, TypeOK
<1>2. DOMAIN Pool = 1 .. 2 * Len(links)
  BY DEF Pool
<1>3. Pool \in Seq({Pool[t] : t \in DOMAIN Pool}) /\ Len(Pool) = 2 * Len(links)
  <2>1. PICK n \in Nat : n = 2 * Len(links)
    BY <1>1
  <2>2. Pool \in [1 .. n -> {Pool[t] : t \in DOMAIN Pool}]
    <3>1. Pool = [t \in 1 .. n |-> Pool[t]]
      BY <2>1 DEF Pool
    <3>2. QED
      BY <1>2, <2>1, <3>1
  <2>3. QED
    BY <2>1, <2>2
<1>4. ASSUME NEW t \in DOMAIN Pool
      PROVE  /\ Pool[t].distance = 1 /\ Pool[t].reverse # t
             /\ \E l \in DOMAIN links :
                   {Pool[t].c1, Pool[t].c2} = {links[l].c1 + 1, links[l].c2 + 1}
  <2>1. t \in 1 .. 2 * Len(links) /\ (t + 1) \div 2 \in 1 .. Len(links)
    BY <1>1, <1>2
  <2>2. PICK l : l = links[(t + 1) \div 2]
    OBVIOUS
  <2>3. Pool[t] = IF t % 2 = 1
                  THEN [c1 |-> l.c1 + 1, c2 |-> l.c2 + 1, tm |-> l.tm,
                        reverse |-> t + 1, distance |-> 1]
                  ELSE [c1 |-> l.c2 + 1, c2 |-> l.c1 + 1, tm |-> Inv(l.tm),
                        reverse |-> t - 1, distance |-> 1]
    BY <2>1, <2>2 DEF Pool
  <2>4. Pool[t].distance = 1 /\ Pool[t].reverse # t
    BY <2>1, <2>3
  <2>5. {Pool[t].c1, Pool[t].c2} = {l.c1 + 1, l.c2 + 1}
    BY <2>3
  <2>6. QED
    BY <1>1, <2>1, <2>2, <2>4, <2>5
<1>5. QED
  BY <1>1, <1>2, <1>3, <1>4

\* Links that lead to the same clusters as before have the same transitions.
LEMMA PoolKept ==
    ASSUME DOMAIN links' = DOMAIN links, Len(links') = Len(links),
           \A l \in DOMAIN links : /\ links'[l].c1 = links[l].c1 /\ links'[l].c2 = links[l].c2
                                   /\ links'[l].tm = links[l].tm,
           Typed
    PROVE  UNCHANGED Pool
<1>1. Len(links) \in Nat /\ DOMAIN links = 1 .. Len(links)
  BY PoolFacts
<1>2. ASSUME NEW p \in 1 .. 2 * Len(links) PROVE Pool'[p] = Pool[p]
  <2>1. (p + 1) \div 2 \in DOMAIN links
    BY <1>1
  <2>2. PICK l \in DOMAIN links : l = (p + 1) \div 2
    BY <2>1
  <2>3. /\ Pool[p] = IF p % 2 = 1
                     THEN [c1 |-> links[l].c1 + 1, c2 |-> links[l].c2 + 1, tm |-> links[l].tm,
                           reverse |-> p + 1, distance |-> 1]
                     ELSE [c1 |-> links[l].c2 + 1, c2 |-> links[l].c1 + 1, tm |-> Inv(links[l].tm),
                           reverse |-> p - 1, distance |-> 1]
        /\ Pool'[p] = IF p % 2 = 1
                      THEN [c1 |-> links'[l].c1 + 1, c2 |-> links'[l].c2 + 1, tm |-> links'[l].tm,
                            reverse |-> p + 1, distance |-> 1]
                      ELSE [c1 |-> links'[l].c2 + 1, c2 |-> links'[l].c1 + 1, tm |-> Inv(links'[l].tm),
                            reverse |-> p - 1, distance |-> 1]
    BY <2>2 DEF Pool
  <2>4. QED
    BY <2>2, <2>3
<1>3. Pool = [p \in 1 .. 2 * Len(links) |-> Pool[p]] /\ Pool' = [p \in 1 .. 2 * Len(links) |-> Pool'[p]]
  BY DEF Pool
<1>4. QED
  BY <1>2, <1>3

\* The transitions of a new link come last.
LEMMA PoolGrows ==
    ASSUME Typed, LinkClusters
    PROVE  LET n == Len(Pool)
               tm == Misorientation(atom, slot)
           IN  Pool' = Pool \o <<[c1 |-> Here + 1, c2 |-> There + 1, tm |-> tm,
                                  reverse |-> n + 2, distance |-> 1],
                                 [c1 |-> There + 1, c2 |-> Here + 1, tm |-> Inv(tm),
                                  reverse |-> n + 1, distance |-> 1]>>
<1>1. PICK m : m = Len(links)
  OBVIOUS
<1>2. PICK n : n = Len(Pool)
  OBVIOUS
<1>3. PICK ls : ls = links'
  OBVIOUS
<1>4. PICK f : f = [c1 |-> Here + 1, c2 |-> There + 1, tm |-> Misorientation(atom, slot),
                    reverse |-> n + 2, distance |-> 1]
  OBVIOUS
<1>5. PICK b : b = [c1 |-> There + 1, c2 |-> Here + 1, tm |-> Inv(Misorientation(atom, slot)),
                    reverse |-> n + 1, distance |-> 1]
  OBVIOUS
<1>6. /\ m \in Nat /\ n \in Nat /\ n = 2 * m /\ DOMAIN links = 1 .. m
      /\ Pool \in Seq({Pool[t] : t \in DOMAIN Pool}) /\ DOMAIN Pool = 1 .. n
  BY <1>1, <1>2, PoolFacts
<1>7. /\ \A k \in 1 .. m : ls[k] = links[k]
      /\ ls[m + 1] = [c1 |-> Here, c2 |-> There, tm |-> Misorientation(atom, slot), area |-> 1]
      /\ Len(ls) = m + 1
  <2>1. ls = Append(links, [c1 |-> Here, c2 |-> There, tm |-> Misorientation(atom, slot), area |-> InitialArea])
        /\ links \in Seq(Link)
    BY <1>3 DEF LinkClusters, Typed, TypeOK
  <2>2. Len(ls) = m + 1
    BY <1>1, <2>1
  <2>3. QED
    BY <1>1, <1>3, <1>6, <2>2, LinkStep
<1>8. Pool' = [p \in 1 .. n + 2 |->
                 LET l == ls[(p + 1) \div 2]
                 IN  IF p % 2 = 1
                     THEN [c1 |-> l.c1 + 1, c2 |-> l.c2 + 1, tm |-> l.tm,
                           reverse |-> p + 1, distance |-> 1]
                     ELSE [c1 |-> l.c2 + 1, c2 |-> l.c1 + 1, tm |-> Inv(l.tm),
                           reverse |-> p - 1, distance |-> 1]]
  <2>1. 2 * Len(ls) = n + 2
    BY <1>6, <1>7
  <2>2. QED
    BY <1>3, <2>1 DEF Pool
<1>9. ASSUME NEW p \in 1 .. n PROVE Pool'[p] = Pool[p]
  <2>1. p \in 1 .. n + 2 /\ (p + 1) \div 2 \in 1 .. m /\ p \in 1 .. 2 * Len(links)
    BY <1>1, <1>6
  <2>2. ls[(p + 1) \div 2] = links[(p + 1) \div 2]
    BY <1>7, <2>1
  <2>3. Pool[p] = LET l == links[(p + 1) \div 2]
                  IN  IF p % 2 = 1
                      THEN [c1 |-> l.c1 + 1, c2 |-> l.c2 + 1, tm |-> l.tm,
                            reverse |-> p + 1, distance |-> 1]
                      ELSE [c1 |-> l.c2 + 1, c2 |-> l.c1 + 1, tm |-> Inv(l.tm),
                            reverse |-> p - 1, distance |-> 1]
    BY <2>1 DEF Pool
  <2>4. QED
    BY <1>8, <2>1, <2>2, <2>3
<1>10. Pool'[n + 1] = f
  <2>1. n + 1 \in 1 .. n + 2 /\ ((n + 1) + 1) \div 2 = m + 1 /\ (n + 1) % 2 = 1 /\ (n + 1) + 1 = n + 2
    BY <1>6
  <2>2. QED
    BY <1>4, <1>7, <1>8, <2>1
<1>11. Pool'[n + 2] = b
  <2>1. n + 2 \in 1 .. n + 2 /\ ((n + 2) + 1) \div 2 = m + 1 /\ (n + 2) % 2 = 0 /\ (n + 2) - 1 = n + 1
    BY <1>6
  <2>2. QED
    BY <1>5, <1>7, <1>8, <2>1
<1>12. Pool' = [p \in 1 .. n + 2 |-> Pool'[p]]
  BY <1>8
<1>13. Pool' = Pool \o <<f, b>>
  <2>1. PICK qs : qs = Pool \o <<f, b>>
    OBVIOUS
  <2>2. /\ qs = [p \in 1 .. n + 2 |-> qs[p]]
        /\ \A p \in 1 .. n : qs[p] = Pool[p]
        /\ qs[n + 1] = f /\ qs[n + 2] = b
    <3> DEFINE S == {Pool[t] : t \in DOMAIN Pool} \cup {f, b}
    <3>1. Pool \in Seq(S) /\ <<f, b>> \in Seq(S) /\ Len(<<f, b>>) = 2 /\ Len(Pool) = n
      <4>1. Pool \in [1 .. n -> S]
        BY <1>6
      <4>2. QED
        BY <1>2, <1>6, <4>1
    <3> HIDE DEF S
    <3>2. qs \in Seq(S) /\ Len(qs) = n + 2
      BY <2>1, <3>1, ConcatProperties
    <3>3. qs \in [1 .. n + 2 -> S]
      BY <3>2, LenProperties
    <3>4. \A p \in 1 .. n + 2 : qs[p] = IF p <= n THEN Pool[p] ELSE <<f, b>>[p - n]
      BY <2>1, <3>1, <3>2, ConcatProperties
    <3>5. (n + 1) - n = 1 /\ (n + 2) - n = 2 /\ ~(n + 1 <= n) /\ ~(n + 2 <= n)
      BY <1>6
    <3>6. \A p \in 1 .. n : p \in 1 .. n + 2 /\ p <= n
      BY <1>6
    <3>7. n + 1 \in 1 .. n + 2 /\ n + 2 \in 1 .. n + 2
      BY <1>6
    <3>8. QED
      BY <3>3, <3>4, <3>5, <3>6, <3>7
  <2>3. \A p \in 1 .. n + 2 : p \in 1 .. n \/ p = n + 1 \/ p = n + 2
    BY <1>6
  <2>4. \A p \in 1 .. n + 2 : Pool'[p] = qs[p]
    BY <1>9, <1>10, <1>11, <2>2, <2>3
  <2>5. QED
    BY <1>12, <2>1, <2>2, <2>4
<1>14. QED
  BY <1>2, <1>4, <1>5, <1>13

\* A transition as near as all others of a list goes behind them.
LEMMA InsertedLast ==
    ASSUME NEW ts, NEW list \in Seq(Nat), NEW t \in Nat, ts[t].distance = 1,
           \A i \in DOMAIN list : ts[list[i]].distance = 1
    PROVE  Graph!Inserted(ts, t, list) = Append(list, t)
<1> DEFINE n == Len(list)
<1>1. n \in Nat /\ DOMAIN list = 1 .. n
  BY LenProperties
<1>2. {i \in DOMAIN list : ts[list[i]].distance <= ts[t].distance} = 1 .. n
  <2>1. 1 <= 1
    OBVIOUS
  <2>2. \A i \in DOMAIN list : ts[list[i]].distance <= ts[t].distance
    BY <2>1
  <2>3. QED
    BY <1>1, <2>2
<1>3. Cardinality(1 .. n) = n
  <2>1. 1 \in Int /\ n \in Int /\ (1 > n <=> n = 0)
    BY <1>1
  <2>2. QED
    BY <1>1, <2>1, FS_Interval
<1>4. Graph!Inserted(ts, t, list) = Graph!InsertAt(list, n + 1, t)
  <2>1. Graph!Inserted(ts, t, list)
           = Graph!InsertAt(list, Cardinality({i \in DOMAIN list : ts[list[i]].distance <= ts[t].distance}) + 1, t)
    BY DEF Graph!Inserted, Graph!Cardinality, Cardinality
  <2>2. QED
    BY <1>2, <1>3, <2>1
<1>5. Graph!InsertAt(list, n + 1, t) = SubSeq(list, 1, n) \o <<t>> \o SubSeq(list, n + 1, n)
  <2>1. (n + 1) - 1 = n
    BY <1>1
  <2>2. QED
    BY <2>1 DEF Graph!InsertAt
<1>6. SubSeq(list, 1, n) = list
  BY SubSeqFull
<1>7. SubSeq(list, n + 1, n) = <<>>
  <2>1. n + 1 \in Int /\ n \in Int /\ n < n + 1
    BY <1>1
  <2>2. QED
    BY <2>1, SubSeqEmpty
<1>8. Append(list, t) = list \o <<t>> /\ list \o <<t>> \in Seq(Nat)
  <2>1. <<t>> \in Seq(Nat)
    OBVIOUS
  <2>2. QED
    BY <2>1, AppendIsConcat, ConcatProperties
<1>9. (list \o <<t>>) \o <<>> = list \o <<t>>
  BY <1>8, ConcatEmptySeq
<1>10. QED
  BY <1>4, <1>5, <1>6, <1>7, <1>8, <1>9

\* The lists of the graph hold the transitions of their clusters.
ListsSound ==
    \A p \in 1 .. NumClusters + 1 : \A k \in DOMAIN InOrder(Leaving(p)) :
        InOrder(Leaving(p))[k] \in Leaving(p)

LinkedInv == Typed /\ LinksExact /\ ListsSound

\* A link joins two clusters, and no others join the same.
LEMMA LinksApart ==
    ASSUME Typed, LinksExact
    PROVE  /\ \A l \in DOMAIN links : /\ links[l].c1 \in Cluster /\ links[l].c2 \in Cluster
                                      /\ links[l].c1 # links[l].c2
           /\ \A k, l \in DOMAIN links :
                 {links[k].c1, links[k].c2} = {links[l].c1, links[l].c2} => k = l
<1>1. \A l \in DOMAIN links : links[l].c1 \in Cluster /\ links[l].c2 \in Cluster
  <2>1. \A l \in DOMAIN links : links[l] \in Link
    BY DEF Typed, TypeOK
  <2>2. QED
    BY <2>1 DEF Link
<1>2. ASSUME NEW l \in DOMAIN links, links[l].c1 = links[l].c2 PROVE FALSE
  <2>1. PICK c \in Cluster : c = links[l].c1
    BY <1>1
  <2>2. l \in LinksBetween(c, c)
    BY <1>2, <2>1 DEF LinksBetween
  <2>3. PICK x \in Scanned : Joins(x, c, c)
    BY <2>2 DEF LinksExact
  <2>4. QED
    BY <2>3 DEF Joins, Crosses
<1>3. ASSUME NEW k \in DOMAIN links, NEW l \in DOMAIN links,
             {links[k].c1, links[k].c2} = {links[l].c1, links[l].c2}
      PROVE  k = l
  <2>1. PICK c \in Cluster, d \in Cluster : c = links[l].c1 /\ d = links[l].c2
    BY <1>1
  <2>2. k \in LinksBetween(c, d) /\ l \in LinksBetween(c, d)
    BY <1>3, <2>1 DEF LinksBetween
  <2>3. QED
    BY <2>2 DEF LinksExact
<1>4. QED
  BY <1>1, <1>2, <1>3

\* What the graph knows of the clusters that are linked: no way from one to
\* the other yet.
LEMMA NoneYet ==
    ASSUME LinkedInv, LinkClusters
    PROVE  /\ Here + 1 \in 2 .. NumClusters + 1 /\ There + 1 \in 2 .. NumClusters + 1
           /\ Here # There /\ Misorientation(atom, slot) \in Tm
           /\ \A t \in Leaving(Here + 1) : Pool[t].c2 # There + 1
<1>1. /\ Here \in Cluster /\ There \in Cluster /\ Here # There
      /\ Misorientation(atom, slot) \in Tm /\ LinksBetween(Here, There) = {}
  <2>1. Typed /\ BondStep
    BY DEF LinkedInv, BondStep
  <2>2. Here \in Cluster /\ There \in Cluster \cup {NoCluster} /\ <<atom, slot>> \in Bond
    BY <2>1, BondLook
  <2>3. atom \in Atom /\ slot \in DOMAIN input.neighbors[atom]
    BY <2>1, <2>2, BondType DEF Typed, TypeOK
  <2>4. Misorientation(atom, slot) \in Tm \cup {NoOverlap}
    BY <2>1, <2>3, MisorientationType DEF Typed, TypeOK
  <2>5. Crosses(atom, slot) /\ Misorientation(atom, slot) # NoOverlap /\ LinksBetween(Here, There) = {}
    BY DEF LinkClusters
  <2>6. QED
    BY <2>2, <2>4, <2>5 DEF Crosses, Here, There
<1>2. ASSUME NEW t \in Leaving(Here + 1), Pool[t].c2 = There + 1 PROVE FALSE
  <2>1. t \in DOMAIN Pool /\ Pool[t].c1 = Here + 1
    BY DEF Leaving
  <2>2. PICK l \in DOMAIN links : {Pool[t].c1, Pool[t].c2} = {links[l].c1 + 1, links[l].c2 + 1}
    BY <2>1, PoolFacts DEF LinkedInv
  <2>3. links[l].c1 \in Cluster /\ links[l].c2 \in Cluster
    BY LinksApart DEF LinkedInv
  <2>4. \A c, d \in Cluster : c \in Int /\ (c + 1 = d + 1 => c = d)
    BY ConnectionAssumption DEF Cluster
  <2>5. {links[l].c1, links[l].c2} = {Here, There}
    BY <1>1, <1>2, <2>1, <2>2, <2>3, <2>4
  <2>6. QED
    BY <1>1, <2>5 DEF LinksBetween
<1>3. \A c \in Cluster : c + 1 \in 2 .. NumClusters + 1
  BY ConnectionAssumption DEF Cluster
<1>4. QED
  BY <1>1, <1>2, <1>3

\* The pool with the transitions of a new link, by the number of each.
LEMMA PoolAfter ==
    ASSUME LinkedInv, LinkClusters
    PROVE  LET n == Len(Pool)
           IN  /\ n \in Nat /\ n = 2 * Len(links) /\ DOMAIN Pool = 1 .. n
               /\ DOMAIN Pool' = 1 .. n + 2 /\ Len(Pool') = n + 2
               /\ \A t \in 1 .. n : Pool'[t] = Pool[t] /\ Pool'[t].distance = 1
               /\ Pool'[n + 1].c1 = Here + 1 /\ Pool'[n + 1].distance = 1
               /\ Pool'[n + 2].c1 = There + 1 /\ Pool'[n + 2].distance = 1
<1>1. PICK n : n = Len(Pool)
  OBVIOUS
<1>2. PICK f : f = [c1 |-> Here + 1, c2 |-> There + 1, tm |-> Misorientation(atom, slot),
                    reverse |-> n + 2, distance |-> 1]
  OBVIOUS
<1>3. PICK b : b = [c1 |-> There + 1, c2 |-> Here + 1, tm |-> Inv(Misorientation(atom, slot)),
                    reverse |-> n + 1, distance |-> 1]
  OBVIOUS
<1>4. /\ n \in Nat /\ n = 2 * Len(links) /\ DOMAIN Pool = 1 .. n
      /\ Pool \in Seq({Pool[t] : t \in DOMAIN Pool})
      /\ \A t \in 1 .. n : Pool[t].distance = 1
  BY <1>1, PoolFacts DEF LinkedInv
<1>5. Pool' = Pool \o <<f, b>>
  BY <1>1, <1>2, <1>3, PoolGrows DEF LinkedInv
<1> DEFINE S == {Pool[t] : t \in DOMAIN Pool} \cup {f, b}
<1>6. Pool \in Seq(S) /\ <<f, b>> \in Seq(S) /\ Len(<<f, b>>) = 2
  <2>1. Pool \in [1 .. n -> S]
    BY <1>4
  <2>2. QED
    BY <1>1, <1>4, <2>1
<1> HIDE DEF S
<1>7. /\ Pool \o <<f, b>> \in Seq(S) /\ Len(Pool \o <<f, b>>) = n + 2
      /\ \A p \in 1 .. n + 2 : (Pool \o <<f, b>>)[p] = IF p <= n THEN Pool[p] ELSE <<f, b>>[p - n]
  BY <1>1, <1>6, ConcatProperties
<1>8. /\ DOMAIN Pool' = 1 .. n + 2 /\ Len(Pool') = n + 2
      /\ \A p \in 1 .. n + 2 : Pool'[p] = IF p <= n THEN Pool[p] ELSE <<f, b>>[p - n]
  <2>1. PICK qs : qs = Pool \o <<f, b>>
    OBVIOUS
  <2>2. DOMAIN qs = 1 .. n + 2
    BY <1>7, <2>1, LenProperties
  <2>3. QED
    BY <1>5, <1>7, <2>1, <2>2
<1>9. \A t \in 1 .. n : Pool'[t] = Pool[t]
  <2>1. \A t \in 1 .. n : t \in 1 .. n + 2 /\ t <= n
    BY <1>4
  <2>2. QED
    BY <1>8, <2>1
<1>10. Pool'[n + 1] = f /\ Pool'[n + 2] = b
  <2>1. /\ n + 1 \in 1 .. n + 2 /\ n + 2 \in 1 .. n + 2 /\ ~(n + 1 <= n) /\ ~(n + 2 <= n)
        /\ (n + 1) - n = 1 /\ (n + 2) - n = 2
    BY <1>4
  <2>2. QED
    BY <1>8, <2>1
<1>11. QED
  BY <1>1, <1>2, <1>3, <1>4, <1>8, <1>9, <1>10

\* The list of each of the two clusters gets one transition, at its end.
LEMMA ListsGrow ==
    ASSUME LinkedInv, LinkClusters, NEW p \in 1 .. NumClusters + 1
    PROVE  LET new == IF p = Here + 1 THEN Len(Pool) + 1 ELSE Len(Pool) + 2
               list == InOrder(Leaving(p))
           IN  /\ list \in Seq(Nat) /\ DOMAIN list = 1 .. Len(list)
               /\ \A k \in DOMAIN list : list[k] \in Leaving(p)
               /\ InOrder(Leaving(p)') = IF p \in {Here + 1, There + 1} THEN Append(list, new) ELSE list
               /\ \A k \in DOMAIN InOrder(Leaving(p)') : InOrder(Leaving(p)')[k] \in Leaving(p)'
<1>1. PICK n : n = Len(Pool)
  OBVIOUS
<1>2. PICK new : new = IF p = Here + 1 THEN n + 1 ELSE n + 2
  OBVIOUS
<1>3. PICK S : S = Leaving(p)
  OBVIOUS
<1>4. PICK U : U = Leaving(p)'
  OBVIOUS
<1>5. /\ n \in Nat /\ DOMAIN Pool = 1 .. n /\ DOMAIN Pool' = 1 .. n + 2
      /\ \A t \in 1 .. n : Pool'[t] = Pool[t]
      /\ Pool'[n + 1].c1 = Here + 1 /\ Pool'[n + 2].c1 = There + 1
  BY <1>1, PoolAfter
<1>6. Here + 1 # There + 1
  <2>1. Here \in Int /\ There \in Int /\ Here # There
    <3>1. Here + 1 \in 2 .. NumClusters + 1 /\ There + 1 \in 2 .. NumClusters + 1 /\ Here # There
      BY NoneYet
    <3>2. Here \in Cluster /\ There \in Cluster \cup {NoCluster}
      BY BondLook DEF LinkedInv, BondStep
    <3>3. QED
      BY <3>1, <3>2, ConnectionAssumption DEF Cluster, NoCluster
  <2>2. QED
    BY <2>1
<1>7. S \subseteq 1 .. n /\ S = {t \in 1 .. n : Pool[t].c1 = p}
  BY <1>3, <1>5 DEF Leaving
<1>8. U = {t \in 1 .. n + 2 : Pool'[t].c1 = p}
  BY <1>4, <1>5 DEF Leaving
<1>9. U = IF p \in {Here + 1, There + 1} THEN S \cup {new} ELSE S
  <2>1. \A t \in 1 .. n + 2 : t \in 1 .. n \/ t = n + 1 \/ t = n + 2
    BY <1>5
  <2>2. 1 .. n \subseteq 1 .. n + 2 /\ n + 1 \in 1 .. n + 2 /\ n + 2 \in 1 .. n + 2
    BY <1>5
  <2>3. \A t \in 1 .. n : Pool'[t].c1 = Pool[t].c1
    BY <1>5
  <2>4. CASE p = Here + 1
    BY <1>2, <1>5, <1>6, <1>7, <1>8, <2>1, <2>2, <2>3, <2>4
  <2>5. CASE p = There + 1
    BY <1>2, <1>5, <1>6, <1>7, <1>8, <2>1, <2>2, <2>3, <2>5
  <2>6. CASE p \notin {Here + 1, There + 1}
    BY <1>2, <1>5, <1>7, <1>8, <2>1, <2>2, <2>3, <2>6
  <2>7. QED
    BY <2>4, <2>5, <2>6
<1>10. /\ S \subseteq Nat /\ IsFiniteSet(S) /\ new \in Nat /\ \A s \in S : s < new
       /\ \A k \in DOMAIN InOrder(S) : InOrder(S)[k] \in S
  <2>1. IsFiniteSet(1 .. n)
    <3>1. 1 \in Int /\ n \in Int
      BY <1>5
    <3>2. QED
      BY <3>1, FS_Interval
  <2>2. IsFiniteSet(S)
    BY <1>7, <2>1, FS_Subset
  <2>3. new \in Nat /\ n < new /\ \A s \in 1 .. n : s < new /\ s \in Nat
    BY <1>2, <1>5
  <2>4. QED
    BY <1>3, <1>7, <2>2, <2>3 DEF LinkedInv, ListsSound
<1>11. /\ InOrder(S) \in Seq(Nat) /\ DOMAIN InOrder(S) = 1 .. Len(InOrder(S))
       /\ InOrder(S \cup {new}) = Append(InOrder(S), new)
       /\ \A k \in DOMAIN InOrder(S \cup {new}) : InOrder(S \cup {new})[k] \in S \cup {new}
  BY <1>10, InOrderGrows
<1>12. /\ InOrder(U) = IF p \in {Here + 1, There + 1} THEN Append(InOrder(S), new) ELSE InOrder(S)
       /\ \A k \in DOMAIN InOrder(U) : InOrder(U)[k] \in U
  BY <1>9, <1>10, <1>11
<1>13. QED
  BY <1>1, <1>2, <1>3, <1>4, <1>10, <1>11, <1>12

\* The lists of the graph, for every cluster.
Lists == [p \in 1 .. NumClusters + 1 |-> InOrder(Leaving(p))]

\* A search for a transition that is not there finds none.
LEMMA NoneFound ==
    ASSUME LinkedInv, LinkClusters
    PROVE  LET a == Here + 1
               b == There + 1
               tm == Misorientation(atom, slot)
           IN  Graph!FirstTo(a, b) = 0 /\ Graph!ExistingTransition(a, b, tm) = 0
<1>1. PICK a \in 2 .. NumClusters + 1, b \in 2 .. NumClusters + 1 : a = Here + 1 /\ b = There + 1
  BY NoneYet
<1>2. PICK list : list = InOrder(Leaving(a))
  OBVIOUS
<1>3. PICK tm : tm = Misorientation(atom, slot)
  OBVIOUS
<1>a. a \in 1 .. NumClusters + 1 /\ Lists[a] = list /\ a # b
  <2>1. a \in 1 .. NumClusters + 1
    BY ConnectionAssumption
  <2>2. Here \in Int /\ There \in Int /\ Here # There
    <3>1. Here # There
      BY NoneYet
    <3>2. Here \in Cluster /\ There \in Cluster \cup {NoCluster}
      BY BondLook DEF LinkedInv, BondStep
    <3>3. QED
      BY <3>1, <3>2, ConnectionAssumption DEF Cluster, NoCluster
  <2>3. QED
    BY <1>1, <1>2, <2>1, <2>2 DEF Lists
<1>4. DOMAIN list = 1 .. Len(list) /\ \A k \in DOMAIN list : Pool[list[k]].c2 # b
  <2>1. DOMAIN list = 1 .. Len(list) /\ \A k \in DOMAIN list : list[k] \in Leaving(a)
    BY <1>2, <1>a, ListsGrow
  <2>2. QED
    BY <1>1, <2>1, NoneYet
<1>5. /\ {k \in 1 .. Len(list) : Pool[list[k]].c2 = b} = {}
      /\ {k \in 1 .. Len(list) : Pool[list[k]].c2 = b /\ Pool[list[k]].tm = tm} = {}
  BY <1>4
<1>6. Graph!FirstTo(a, b)
         = LET I == {k \in 1 .. Len(list) : Pool[list[k]].c2 = b}
               i == IF I # {} THEN Graph!Min(I) ELSE 0
           IN  IF i = 0 THEN 0 ELSE list[i]
  BY <1>a DEF Graph!FirstTo, Graph!SelectInSeq, Graph!T, Graph!Null, Lists
<1>7. Graph!ExistingTransition(a, b, tm)
         = LET I == {k \in 1 .. Len(list) : Pool[list[k]].c2 = b /\ Pool[list[k]].tm = tm}
               i == IF I # {} THEN Graph!Min(I) ELSE 0
           IN  IF i = 0 THEN 0 ELSE list[i]
  BY <1>a DEF Graph!ExistingTransition, Graph!SelectInSeq, Graph!T, Graph!Null, Lists
<1>8. QED
  BY <1>1, <1>3, <1>5, <1>6, <1>7

\* Linking adds a pair of reverse transitions to the graph.
LEMMA PairCreated ==
    ASSUME LinkedInv, LinkClusters
    PROVE  Graph!AddTransitionPair(Here + 1, There + 1, Misorientation(atom, slot), 1)
<1>1. PICK a \in 2 .. NumClusters + 1, b \in 2 .. NumClusters + 1 : a = Here + 1 /\ b = There + 1
  BY NoneYet
<1>2. PICK n : n = Len(Pool)
  OBVIOUS
<1>3. PICK tm : tm = Misorientation(atom, slot)
  OBVIOUS
<1>4. PICK qs : qs = Pool'
  OBVIOUS
<1>5. PICK old : old = Lists
  OBVIOUS
<1>6. /\ n \in Nat /\ n = 2 * Len(links) /\ \A t \in 1 .. n : qs[t].distance = 1
      /\ qs[n + 1].distance = 1 /\ qs[n + 2].distance = 1 /\ DOMAIN Pool = 1 .. n
  BY <1>2, <1>4, PoolAfter
<1>7. a # b
  <2>1. Here # There
    BY NoneYet
  <2>2. Here \in Cluster /\ There \in Cluster \cup {NoCluster}
    BY BondLook DEF LinkedInv, BondStep
  <2>3. QED
    BY <1>1, <2>1, <2>2, ConnectionAssumption DEF Cluster, NoCluster
<1>8. qs = Pool \o <<[c1 |-> a, c2 |-> b, tm |-> tm, reverse |-> n + 2, distance |-> 1],
                     [c1 |-> b, c2 |-> a, tm |-> Inv(tm), reverse |-> n + 1, distance |-> 1]>>
  BY <1>1, <1>2, <1>3, <1>4, PoolGrows DEF LinkedInv
<1>9. ASSUME NEW p \in 1 .. NumClusters + 1
      PROVE  /\ p \in {a, b} => /\ Graph!Inserted(qs, n + 1, old[p]) = Append(old[p], n + 1)
                                /\ Graph!Inserted(qs, n + 2, old[p]) = Append(old[p], n + 2)
             /\ Lists'[p] = IF p = a THEN Append(old[p], n + 1)
                            ELSE IF p = b THEN Append(old[p], n + 2) ELSE old[p]
  <2>1. old[p] = InOrder(Leaving(p)) /\ Lists'[p] = InOrder(Leaving(p)')
    BY <1>5 DEF Lists
  <2>2. /\ old[p] \in Seq(Nat) /\ \A k \in DOMAIN old[p] : old[p][k] \in Leaving(p)
        /\ Lists'[p] = IF p = a THEN Append(old[p], n + 1)
                       ELSE IF p = b THEN Append(old[p], n + 2) ELSE old[p]
    BY <1>1, <1>2, <2>1, ListsGrow
  <2>3. \A k \in DOMAIN old[p] : qs[old[p][k]].distance = 1
    BY <1>6, <2>2 DEF Leaving
  <2>4. n + 1 \in Nat /\ n + 2 \in Nat
    BY <1>6
  <2>5. QED
    BY <1>6, <2>2, <2>3, <2>4, InsertedLast
<1>10. a \in 1 .. NumClusters + 1 /\ b \in 1 .. NumClusters + 1
  BY ConnectionAssumption
<1>11. Lists' = LET first == [old EXCEPT ![a] = Graph!Inserted(qs, n + 1, @)]
                IN  [first EXCEPT ![b] = Graph!Inserted(qs, n + 2, @)]
  <2>1. PICK ia : ia = Graph!Inserted(qs, n + 1, old[a])
    OBVIOUS
  <2>2. PICK ib : ib = Graph!Inserted(qs, n + 2, old[b])
    OBVIOUS
  <2>3. old = [p \in 1 .. NumClusters + 1 |-> old[p]] /\ Lists' = [p \in 1 .. NumClusters + 1 |-> Lists'[p]]
    BY <1>5 DEF Lists
  <2>4. ASSUME NEW p \in 1 .. NumClusters + 1
        PROVE  Lists'[p] = IF p = a THEN ia ELSE IF p = b THEN ib ELSE old[p]
    BY <1>9, <2>1, <2>2
  <2>5. [old EXCEPT ![a] = ia][b] = old[b]
    BY <1>7, <1>10, <2>3
  <2>6. Lists' = [[old EXCEPT ![a] = ia] EXCEPT ![b] = ib]
    BY <1>7, <1>10, <2>3, <2>4
  <2>7. QED
    BY <2>1, <2>2, <2>5, <2>6
<1>12. [l \in DOMAIN links' |-> 2 * l - 1] = Append([l \in DOMAIN links |-> 2 * l - 1], n + 1)
  <2>1. PICK m : m = Len(links)
    OBVIOUS
  <2>2. m \in Nat /\ DOMAIN links = 1 .. m /\ n = 2 * m /\ DOMAIN links' = 1 .. m + 1
    <3>1. m \in Nat /\ DOMAIN links = 1 .. m
      BY <2>1, PoolFacts DEF LinkedInv
    <3>2. DOMAIN links' = DOMAIN links \cup {m + 1}
      BY <2>1, LinkStep DEF LinkedInv
    <3>3. (1 .. m) \cup {m + 1} = 1 .. m + 1
      BY <3>1
    <3>4. QED
      BY <1>6, <2>1, <3>1, <3>2, <3>3
  <2>3. PICK s : s = [l \in 1 .. m |-> 2 * l - 1]
    OBVIOUS
  <2>4. s \in Seq(Nat) /\ Len(s) = m
    <3>1. s \in [1 .. m -> Nat]
      BY <2>2, <2>3
    <3>2. QED
      BY <2>2, <3>1
  <2>5. PICK u : u = Append(s, n + 1)
    OBVIOUS
  <2>6. /\ u \in Seq(Nat) /\ Len(u) = m + 1 /\ u[m + 1] = n + 1
        /\ \A l \in 1 .. m : u[l] = s[l]
    <3>1. n + 1 \in Nat
      BY <1>6
    <3>2. QED
      BY <2>4, <2>5, <3>1, AppendProperties
  <2>7. u \in [1 .. m + 1 -> Nat]
    BY <2>6, LenProperties
  <2>8. \A l \in 1 .. m + 1 : u[l] = 2 * l - 1
    <3>1. \A l \in 1 .. m + 1 : l \in 1 .. m \/ l = m + 1
      BY <2>2
    <3>2. n + 1 = 2 * (m + 1) - 1
      BY <2>2
    <3>3. \A l \in 1 .. m : u[l] = 2 * l - 1
      BY <2>3, <2>6
    <3>4. QED
      BY <2>6, <3>1, <3>2, <3>3
  <2>9. u = [l \in 1 .. m + 1 |-> 2 * l - 1]
    BY <2>7, <2>8
  <2>10. QED
    BY <2>2, <2>3, <2>5, <2>9
<1>13. Graph!CacheAfter(1) = {} /\ Graph!ReverseTm(tm) = Inv(tm)
  BY DEF Graph!CacheAfter, Graph!ReverseTm
<1>14. Graph!AddTransitionPair(a, b, tm, 1)
  BY <1>2, <1>4, <1>5, <1>8, <1>11, <1>12, <1>13 DEF Graph!AddTransitionPair, Lists
<1>15. QED
  BY <1>1, <1>3, <1>14

\* Linking two clusters is one call of the graph.
LEMMA LinkConnects ==
    ASSUME LinkedInv, LinkClusters, Typed', LinksExact'
    PROVE  \E a, b \in Graph!Pointers, tm \in Tm : Graph!Connect(a, b, tm)
<1>1. PICK a \in 2 .. NumClusters + 1, b \in 2 .. NumClusters + 1 : a = Here + 1 /\ b = There + 1
  BY NoneYet
<1>2. PICK tm \in Tm : tm = Misorientation(atom, slot)
  BY NoneYet
<1>3. a # b
  <2>1. Here # There
    BY NoneYet
  <2>2. Here \in Cluster /\ There \in Cluster \cup {NoCluster}
    BY BondLook DEF LinkedInv, BondStep
  <2>3. QED
    BY <1>1, <2>1, <2>2, ConnectionAssumption DEF Cluster, NoCluster
<1>4. Graph!FirstTo(a, b) = 0 /\ Graph!ExistingTransition(a, b, tm) = 0
  BY <1>1, <1>2, NoneFound
<1>5. Graph!CreateClusterTransition(a, b, tm, 1)
  <2>1. Graph!AddTransitionPair(a, b, tm, 1)
    BY <1>1, <1>2, PairCreated
  <2>2. QED
    BY <1>3, <1>4, <2>1 DEF Graph!CreateClusterTransition, Graph!Null
<1>6. Graph!Created(a, b, tm) = Len(Pool) + 1
  BY <1>4 DEF Graph!Created, Graph!Null
<1>7. Len(Pool) \in Nat /\ Len(Pool') = Len(Pool) + 2 /\ links' # <<>> /\ Len(Pool') = 2 * Len(links')
  <2>1. Len(Pool) \in Nat /\ Len(Pool') = Len(Pool) + 2
    BY PoolAfter
  <2>2. links \in Seq(Link) /\ Len(links') = Len(links) + 1 /\ links' # <<>>
    <3>1. PICK e : links' = Append(links, e)
      BY DEF LinkClusters
    <3>2. links \in Seq(Link)
      BY DEF LinkedInv, Typed, TypeOK
    <3>3. Len(links') = Len(links) + 1
      BY <3>1, <3>2
    <3>4. Len(links') # 0
      BY <3>2, <3>3
    <3>5. QED
      BY <3>2, <3>3, <3>4
  <2>3. Len(Pool) = 2 * Len(links) /\ Len(links) \in Nat
    BY PoolFacts DEF LinkedInv
  <2>4. QED
    BY <2>1, <2>2, <2>3
<1>8. Len(Pool') <= NumClusters * NumClusters
  <2>1. PICK ls : ls = links'
    OBVIOUS
  <2>2. ls \in Seq(Link)
    BY <2>1 DEF Typed, TypeOK
  <2>3. \A l \in DOMAIN ls : ls[l].c1 # ls[l].c2
    <3>1. \A l \in DOMAIN links : links[l].c1 # links[l].c2
      BY LinksApart DEF LinkedInv
    <3>2. /\ DOMAIN ls = DOMAIN links \cup {Len(links) + 1}
          /\ \A k \in DOMAIN links : ls[k] = links[k]
          /\ ls[Len(links) + 1].c1 = Here /\ ls[Len(links) + 1].c2 = There
      BY <2>1, LinkStep DEF LinkedInv
    <3>3. Here # There
      BY NoneYet
    <3>4. \A l \in DOMAIN links : ls[l].c1 # ls[l].c2
      BY <3>1, <3>2
    <3>5. \A l \in DOMAIN ls : l \in DOMAIN links \/ l = Len(links) + 1
      BY <3>2
    <3>6. QED
      BY <3>2, <3>3, <3>4, <3>5
  <2>4. ASSUME NEW k \in DOMAIN ls, NEW l \in DOMAIN ls,
               {ls[k].c1, ls[k].c2} = {ls[l].c1, ls[l].c2}
        PROVE  k = l
    <3>1. ls[l] \in Link
      BY <2>2
    <3>2. PICK c \in Cluster, d \in Cluster : c = ls[l].c1 /\ d = ls[l].c2
      BY <3>1 DEF Link
    <3>3. k \in LinksBetween(c, d)' /\ l \in LinksBetween(c, d)'
      BY <2>1, <2>4, <3>2 DEF LinksBetween
    <3>4. \A i, j \in LinksBetween(c, d)' : i = j
      BY DEF LinksExact
    <3>5. QED
      BY <3>3, <3>4
  <2>5. 2 * Len(ls) <= NumClusters * NumClusters
    BY <2>2, <2>3, <2>4, LinksBounded
  <2>6. QED
    BY <1>7, <2>1, <2>5
<1>9. Graph!Connect(a, b, tm)
  <2>1. (IF links' = <<>> THEN 0 ELSE Len(Pool') - 1) = Len(Pool) + 1
    BY <1>7
  <2>2. QED
    BY <1>3, <1>4, <1>5, <1>6, <1>8, <2>1 DEF Graph!Connect, Graph!Null, Graph!Created
<1>10. a \in Graph!Pointers /\ b \in Graph!Pointers
  <2>1. Len([p \in 1 .. NumClusters + 1 |-> p - 1]) = NumClusters + 1
    <3>1. NumClusters + 1 \in Nat
      BY ConnectionAssumption
    <3>2. [p \in 1 .. NumClusters + 1 |-> p - 1] \in [1 .. NumClusters + 1 -> Int]
      BY <3>1
    <3>3. QED
      BY <3>1, <3>2
  <2>2. QED
    BY <2>1 DEF Graph!Pointers
<1>11. QED
  BY <1>9, <1>10

\* Whatever leaves the ends and matrices of the links alone leaves the graph alone.
LEMMA GraphKept ==
    ASSUME Typed, UNCHANGED Pool, DOMAIN links' = DOMAIN links, links' = <<>> <=> links = <<>>
    PROVE  UNCHANGED Graph!vars /\ \A p : Leaving(p)' = Leaving(p)
<1>1. \A p : Leaving(p)' = Leaving(p)
  BY DEF Leaving
<1>2. UNCHANGED Lists
  BY <1>1 DEF Lists
<1>3. QED
  BY <1>1, <1>2 DEF Graph!vars, Lists

\* Every other step leaves the graph alone.
LEMMA OtherKeepsGraph ==
    ASSUME Typed, [Next]_vars, ~LinkClusters
    PROVE  UNCHANGED Graph!vars /\ \A p : Leaving(p)' = Leaving(p)
<1>1. CASE CountBond
  <2>1. PICK l \in LinksBetween(Here, There) :
              /\ DOMAIN links' = DOMAIN links /\ l \in DOMAIN links
              /\ links'[l] = [links[l] EXCEPT !.area = @ + 1]
              /\ \A k \in DOMAIN links : k # l => links'[k] = links[k]
              /\ links' = [links EXCEPT ![l].area = @ + 1]
    BY <1>1, CountStep
  <2>2. links \in Seq(Link) /\ links[l] \in Link
    BY <2>1 DEF Typed, TypeOK
  <2>3. \A k \in DOMAIN links : /\ links'[k].c1 = links[k].c1 /\ links'[k].c2 = links[k].c2
                                /\ links'[k].tm = links[k].tm
    BY <2>1, <2>2 DEF Link
  <2>4. Len(links') = Len(links) /\ (links' = <<>> <=> links = <<>>)
    BY <2>1, <2>2
  <2>5. UNCHANGED Pool
    BY <2>1, <2>3, <2>4, PoolKept
  <2>6. QED
    BY <2>1, <2>4, <2>5, GraphKept
<1>2. CASE ~CountBond
  <2>1. UNCHANGED links
    BY <1>2 DEF Next, vars, NextAtom, SkipInside, RememberExtra, LeaveUnlinked, StartAppending,
                BaseOverflow, DropExtra, KeepExtra, TrimExtras, ReplaceLists
  <2>2. UNCHANGED Pool
    BY <2>1 DEF Pool
  <2>3. QED
    BY <2>1, <2>2, GraphKept
<1>3. QED
  BY <1>1, <1>2

\* Before the scan the graph has no transitions.
LEMMA LinkedInit == Init => LinkedInv
<1> SUFFICES ASSUME Init PROVE LinkedInv
  OBVIOUS
<1>1. Typed /\ LinksExact
  BY TypeInit, LinksInit
<1>2. Len(links) = 0
  BY DEF Init
<1>3. DOMAIN Pool = {}
  <2>1. 1 .. 2 * 0 = {}
    OBVIOUS
  <2>2. QED
    BY <1>1, <1>2, <2>1, PoolFacts
<1>4. \A p : Leaving(p) = {}
  BY <1>3 DEF Leaving
<1>5. DOMAIN InOrder({}) = {}
  <2>1. Cardinality({}) = 0 /\ 1 .. 0 = {}
    BY FS_EmptySet
  <2>2. QED
    BY <2>1 DEF InOrder
<1>6. QED
  BY <1>1, <1>4, <1>5 DEF LinkedInv, ListsSound

\* Each step keeps the lists of the graph in step with its pool.
LEMMA LinkedStep == LinkedInv /\ [Next]_vars => LinkedInv'
<1> SUFFICES ASSUME LinkedInv, [Next]_vars PROVE LinkedInv'
  OBVIOUS
<1>1. Typed' /\ LinksExact'
  BY TypeStep, LinksStep DEF LinkedInv
<1>2. CASE LinkClusters
  <2>1. \A p \in 1 .. NumClusters + 1 :
            \A k \in DOMAIN InOrder(Leaving(p)') : InOrder(Leaving(p)')[k] \in Leaving(p)'
    BY <1>2, ListsGrow
  <2>2. QED
    BY <1>1, <2>1 DEF LinkedInv, ListsSound
<1>3. CASE ~LinkClusters
  <2>1. \A p : Leaving(p)' = Leaving(p)
    BY <1>3, OtherKeepsGraph DEF LinkedInv
  <2>2. QED
    BY <1>1, <2>1 DEF LinkedInv, ListsSound
<1>4. QED
  BY <1>2, <1>3

\* Every step links two clusters by one call of the graph or leaves it alone.
THEOREM ConnectsGraphCorrect == Spec => ConnectsGraph
<1> DEFINE Connected == \E a, b \in Graph!Pointers, tm \in Tm : Graph!Connect(a, b, tm)
<1>1. LinkedInv /\ [Next]_vars => [Connected]_(Graph!vars)
  <2> SUFFICES ASSUME LinkedInv, [Next]_vars PROVE [Connected]_(Graph!vars)
    OBVIOUS
  <2>1. CASE LinkClusters
    <3>1. Typed' /\ LinksExact'
      BY TypeStep, LinksStep DEF LinkedInv
    <3>2. Connected
      BY <2>1, <3>1, LinkConnects
    <3> HIDE DEF Connected
    <3>3. QED
      BY <3>2
  <2>2. CASE ~LinkClusters
    <3>1. UNCHANGED Graph!vars
      BY <2>2, OtherKeepsGraph DEF LinkedInv
    <3> HIDE DEF Connected
    <3>2. QED
      BY <3>1
  <2>3. QED
    BY <2>1, <2>2
<1>2. QED
  BY <1>1, LinkedInit, LinkedStep, PTL DEF Spec, ConnectsGraph

=============================================================================
