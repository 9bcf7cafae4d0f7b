------------------------ MODULE ClusterGrowthProofs ------------------------
(***************************************************************************)
(* Cluster growth keeps its promises for any atoms, neighbour lists, masks *)
(* and group of symmetries, and so does the choice of symmetries before    *)
(* and after it.                                                           *)
(*                                                                         *)
(* The inductive invariant IInv adds to the properties what connects the   *)
(* worklist with the clusters (WorklistSound), what became of the seeds    *)
(* (SettledSound), how orientations and transformations belong together    *)
(* (Oriented), and the order in which the atoms of each cluster were found *)
(* (OrderSound).                                                           *)
(*                                                                         *)
(* That chosen symmetries are carried from initial ones (ChoiceSound) is   *)
(* kept step by step.  That the export sees a cluster as it was built needs*)
(* more: the choice takes the atoms of a cluster without masks in the very *)
(* order in which the build found them (ReplaySound, from OrderSound of    *)
(* the build), over the same bonds.                                        *)
(***************************************************************************)
EXTENDS SymmetryChoice, FiniteSetTheorems, WellFoundedInduction, TLAPS

\* Between two seeds the worklist is empty; during growth it and the current
\* atom belong to the growing cluster.
WorklistSound ==
    /\ pc \in {"seeds", "done"} => atomsToVisit = <<>>
    /\ pc \in {"visit", "neighbors"} =>
          \A k \in DOMAIN atomsToVisit : atomClusters[atomsToVisit[k]] = Growing
    /\ pc = "neighbors" => atomClusters[current] = Growing

----------------------------------------------------------------------------
(* Types *)

\* The input, its masks, neighbour lists and bonds have their types.
LEMMA InputType ==
    ASSUME TypeOK, NEW a \in Atom
    PROVE  /\ input \in Input
           /\ input.type \in [Atom -> Types \cup {Other}]
           /\ input.symmetry \in [Atom -> Tm \cup {NoSymmetry}]
           /\ input.allowed[a] \subseteq Tm
           /\ input.neighbors[a] \in Seq(Atom)
           /\ input.bond[a] \in Seq(Tm \cup {NoOverlap})
           /\ Len(input.bond[a]) = Len(input.neighbors[a])
BY GrowthAssumption DEF TypeOK, Input

\* A seed starts with a symmetry permutation.
LEMMA InitialSymmetryType ==
    ASSUME TypeOK, NEW a \in Atom
    PROVE  InitialSymmetries(a) \subseteq Tm
BY InputType DEF InitialSymmetries

\* The slot that grow looks at holds an atom.
LEMMA NeighborType ==
    ASSUME TypeOK, NEW a \in Atom, NEW n \in DOMAIN input.neighbors[a]
    PROVE  /\ Neighbor(a, n) \in Atom
           /\ input.bond[a][n] \in Tm \cup {NoOverlap}
<1>1. /\ input.neighbors[a] \in Seq(Atom)
      /\ input.bond[a] \in Seq(Tm \cup {NoOverlap})
      /\ Len(input.bond[a]) = Len(input.neighbors[a])
  BY InputType
<1>2. QED
  BY <1>1 DEF Neighbor

\* The neighbour that Assign labels, and its symmetry.
LEMMA AssignedType ==
    ASSUME TypeOK, pc = "neighbors", neighborIndex <= Len(input.neighbors[current]),
           Continues(current, neighborIndex)
    PROVE  /\ neighborIndex \in DOMAIN input.neighbors[current]
           /\ Neighbor(current, neighborIndex) \in Atom
           /\ NewSymmetry(current, neighborIndex) \in Tm
<1>1. current \in Atom /\ neighborIndex \in DOMAIN input.neighbors[current]
  <2>1. current \in Atom /\ neighborIndex \in Nat \ {0}
    BY DEF TypeOK
  <2>2. input.neighbors[current] \in Seq(Atom)
    BY <2>1, InputType
  <2>3. QED
    BY <2>1, <2>2
<1>2. Neighbor(current, neighborIndex) \in Atom
  BY <1>1, NeighborType
<1>3. input.allowed[Neighbor(current, neighborIndex)] \subseteq Tm
  BY <1>2, InputType
<1>4. CarriedAlong(current, neighborIndex) \in Tm
  BY <1>3 DEF Continues, AllowedSymmetries
<1>5. QED
  BY <1>1, <1>2, <1>4 DEF NewSymmetry

\* The types hold when the build starts.
LEMMA TypeInit == Init => TypeOK
<1> SUFFICES ASSUME Init PROVE TypeOK
  OBVIOUS
<1>1. input \in Input
  BY GrowthAssumption DEF Init
<1>2. /\ structureTypes \in [Atom -> Types \cup {Other}]
      /\ atomSymmetry \in [Atom -> Tm \cup {NoSymmetry}]
  BY <1>1 DEF Init, Input
<1>3. 1 \in Atom /\ 1 \in 1 .. NumAtoms + 1
  BY GrowthAssumption DEF Atom
<1>4. QED
  BY <1>2, <1>3 DEF Init, TypeOK, NoCluster

\* Every step of the build keeps the types.
LEMMA TypeStep == TypeOK /\ [Next]_vars => TypeOK'
<1> SUFFICES ASSUME TypeOK, [Next]_vars PROVE TypeOK'
  OBVIOUS
<1>1. CASE SkipSeed
  BY <1>1, GrowthAssumption DEF SkipSeed, TypeOK, NextSeed, Atom
<1>2. CASE RejectSeed
  <2>1. seed' \in 1 .. NumAtoms + 1
    BY <1>2, GrowthAssumption DEF RejectSeed, NextSeed, Atom
  <2>2. structureTypes' \in [Atom -> Types \cup {Other}]
    BY <1>2 DEF RejectSeed, WithoutStructure, TypeOK
  <2>3. QED
    BY <1>2, <2>1, <2>2 DEF RejectSeed, TypeOK
<1>3. CASE StartCluster
  <2>1. PICK s \in InitialSymmetries(seed) : atomSymmetry' = [atomSymmetry EXCEPT ![seed] = s]
    BY <1>3 DEF StartCluster
  <2>2. s \in Tm /\ seed \in Atom
    BY <1>3, <2>1, InitialSymmetryType DEF StartCluster
  <2>3. /\ atomSymmetry' \in [Atom -> Tm \cup {NoSymmetry}]
        /\ \A a \in Atom : atomSymmetry'[a] = IF a = seed THEN s ELSE atomSymmetry[a]
    BY <2>1, <2>2 DEF TypeOK
  <2>4. structureTypes[seed] \in Types
    BY <1>3, <2>2 DEF StartCluster, AlreadyProcessed, TypeOK
  <2>5. clusters' \in Seq(Cluster) /\ Len(clusters') = Len(clusters) + 1 /\ clusters' # <<>>
    <3> DEFINE new == [structure |-> structureTypes[seed], atomCount |-> 1,
                       symmetryTransformation |-> Id, orientation |-> Id]
    <3>1. new \in Cluster
      BY <2>4, GroupAxioms DEF Cluster
    <3>2. clusters \in Seq(Cluster) /\ clusters' = Append(clusters, new)
      BY <1>3 DEF StartCluster, TypeOK
    <3> HIDE DEF new
    <3>3. QED
      BY <3>1, <3>2
  <2>6. /\ atomClusters' \in [Atom -> 0 .. Len(clusters')]
        /\ \A a \in Atom : a # seed => atomClusters'[a] = atomClusters[a]
    <3>1. Len(clusters) \in Nat
      BY DEF TypeOK
    <3>2. QED
      BY <1>3, <2>2, <2>5, <3>1 DEF StartCluster, TypeOK
  <2>7. atomsToVisit' \in Seq(Atom)
    BY <1>3, <2>2 DEF StartCluster
  <2>8. QED
    BY <1>3, <2>2, <2>3, <2>5, <2>6, <2>7 DEF StartCluster, TypeOK
<1>4. CASE VisitNext
  <2>1. atomsToVisit' \in Seq(Atom) /\ current' \in Atom
    BY <1>4 DEF VisitNext, TypeOK
  <2>2. QED
    BY <1>4, <2>1 DEF VisitNext, TypeOK, FirstNeighbor
<1>5. CASE Assign
  <2> DEFINE b == Neighbor(current, neighborIndex)
             s == NewSymmetry(current, neighborIndex)
  <2>1. b \in Atom /\ s \in Tm
    BY <1>5, AssignedType DEF Assign
  <2> HIDE DEF b, s
  <2>2. /\ atomClusters' = [atomClusters EXCEPT ![b] = Growing]
        /\ atomSymmetry' = [atomSymmetry EXCEPT ![b] = s]
        /\ atomsToVisit' = Append(atomsToVisit, b)
        /\ clusters' = [clusters EXCEPT ![Growing].atomCount = @ + 1]
        /\ neighborIndex' = neighborIndex + 1
        /\ UNCHANGED <<input, structureTypes, pc, seed, current>>
        /\ pc = "neighbors"
    BY <1>5 DEF Assign, b, s
  <2>3. Len(clusters) \in Nat /\ Growing \in DOMAIN clusters
    BY <2>2 DEF TypeOK, Growing
  <2>4. clusters' \in Seq(Cluster) /\ Len(clusters') = Len(clusters) /\ clusters' # <<>>
    <3>1. clusters[Growing] \in Cluster
      BY <2>3 DEF TypeOK
    <3>2. [clusters[Growing] EXCEPT !.atomCount = @ + 1] \in Cluster
      BY <3>1 DEF Cluster
    <3>3. QED
      BY <2>2, <2>3, <3>2 DEF TypeOK
  <2>5. atomClusters' \in [Atom -> 0 .. Len(clusters')]
    BY <2>1, <2>2, <2>3, <2>4 DEF TypeOK, Growing
  <2>6. /\ atomSymmetry' \in [Atom -> Tm \cup {NoSymmetry}]
        /\ \A a \in Atom : atomClusters'[a] # NoCluster => atomSymmetry'[a] \in Tm
    BY <2>1, <2>2 DEF TypeOK
  <2>7. atomsToVisit' \in Seq(Atom)
    BY <2>1, <2>2 DEF TypeOK
  <2>8. QED
    BY <2>2, <2>4, <2>5, <2>6, <2>7 DEF TypeOK
<1>6. CASE LeaveOut
  BY <1>6 DEF LeaveOut, TypeOK
<1>7. CASE EndNeighbors
  BY <1>7 DEF EndNeighbors, TypeOK
<1>8. CASE CloseCluster
  <2>1. seed' \in 1 .. NumAtoms + 1
    BY <1>8, GrowthAssumption DEF CloseCluster, NextSeed, TypeOK, Atom
  <2>2. PICK t \in Tm :
            clusters' = [clusters EXCEPT ![Growing] =
                            [@ EXCEPT !.symmetryTransformation = t, !.orientation = Inv(t)]]
    BY <1>8, GroupAxioms DEF CloseCluster, PreferredTransformations
  <2>3. clusters' \in Seq(Cluster) /\ Len(clusters') = Len(clusters)
    <3>1. Growing \in DOMAIN clusters /\ clusters[Growing] \in Cluster
      BY <1>8 DEF CloseCluster, TypeOK, Growing
    <3>2. Inv(t) \in Tm
      BY GroupAxioms
    <3>3. [clusters[Growing] EXCEPT !.symmetryTransformation = t, !.orientation = Inv(t)]
             \in Cluster
      BY <3>1, <3>2 DEF Cluster
    <3>4. QED
      BY <2>2, <3>1, <3>3 DEF TypeOK
  <2>4. QED
    BY <1>8, <2>1, <2>3 DEF CloseCluster, TypeOK
<1>9. CASE ReorientAtomsToAlign
  <2>1. \A a \in Atom : atomClusters[a] # NoCluster =>
            SymmetryInverseProduct(atomSymmetry[a], Transformation(a)) \in Tm
    <3> SUFFICES ASSUME NEW a \in Atom, atomClusters[a] # NoCluster
                 PROVE  SymmetryInverseProduct(atomSymmetry[a], Transformation(a)) \in Tm
      OBVIOUS
    <3>1. atomClusters[a] \in DOMAIN clusters /\ atomSymmetry[a] \in Tm
      BY DEF TypeOK, NoCluster
    <3>2. clusters[atomClusters[a]] \in Cluster
      BY <3>1 DEF TypeOK
    <3>3. Transformation(a) \in Tm
      BY <3>2 DEF Transformation, Cluster
    <3>4. QED
      BY <3>1, <3>3, GroupAxioms DEF SymmetryInverseProduct
  <2>2. /\ atomSymmetry' \in [Atom -> Tm \cup {NoSymmetry}]
        /\ \A a \in Atom : atomClusters[a] # NoCluster => atomSymmetry'[a] \in Tm
    BY <1>9, <2>1 DEF ReorientAtomsToAlign, TypeOK
  <2>3. QED
    BY <1>9, <2>2 DEF ReorientAtomsToAlign, TypeOK
<1>10. CASE UNCHANGED vars
  BY <1>10 DEF vars, TypeOK
<1>11. QED
  BY <1>1, <1>2, <1>3, <1>4, <1>5, <1>6, <1>7, <1>8, <1>9, <1>10 DEF Next

\* TypeOK holds in every reachable state.
THEOREM TypeCorrect == Spec => []TypeOK
BY TypeInit, TypeStep, PTL DEF Spec

----------------------------------------------------------------------------
(* What the two assigning actions change                                   *)

\* A new cluster has one atom, its seed, and is the last of the list.
LEMMA StartEffect ==
    ASSUME TypeOK, StartCluster
    PROVE  /\ seed \in Atom /\ atomClusters[seed] = NoCluster
           /\ DOMAIN clusters = 1 .. Len(clusters) /\ Len(clusters) \in Nat
           /\ DOMAIN clusters' = 1 .. Len(clusters) + 1
           /\ Len(clusters') = Len(clusters) + 1
           /\ \A c \in DOMAIN clusters : clusters'[c] = clusters[c]
           /\ clusters'[Len(clusters) + 1].atomCount = 1
           /\ atomClusters'[seed] = Len(clusters) + 1
           /\ \A a \in Atom : a # seed => /\ atomClusters'[a] = atomClusters[a]
                                         /\ atomSymmetry'[a] = atomSymmetry[a]
<1> DEFINE new == [structure |-> structureTypes[seed], atomCount |-> 1,
                   symmetryTransformation |-> Id, orientation |-> Id]
<1>1. /\ seed \in Atom /\ atomClusters[seed] = NoCluster
      /\ clusters \in Seq(Cluster) /\ clusters' = Append(clusters, new)
      /\ new.atomCount = 1
  BY DEF StartCluster, AlreadyProcessed, TypeOK
<1> HIDE DEF new
<1>2. /\ DOMAIN clusters = 1 .. Len(clusters) /\ Len(clusters) \in Nat
      /\ DOMAIN clusters' = 1 .. Len(clusters) + 1
      /\ Len(clusters') = Len(clusters) + 1
      /\ \A c \in DOMAIN clusters : clusters'[c] = clusters[c]
      /\ clusters'[Len(clusters) + 1] = new
  BY <1>1
<1>3. /\ atomClusters'[seed] = Len(clusters) + 1
      /\ \A a \in Atom : a # seed => atomClusters'[a] = atomClusters[a]
  BY <1>1 DEF StartCluster, TypeOK
<1>4. \A a \in Atom : a # seed => atomSymmetry'[a] = atomSymmetry[a]
  BY <1>1 DEF StartCluster, TypeOK
<1>5. QED
  BY <1>1, <1>2, <1>3, <1>4

\* An assigned neighbour had no cluster, gets the growing one and the symmetry
\* its bond implies, and is to be visited.
LEMMA AssignEffect ==
    ASSUME TypeOK, WorklistSound, Assign,
           NEW b, b = Neighbor(current, neighborIndex)
    PROVE  /\ b \in Atom /\ b # current /\ atomClusters[b] = NoCluster
           /\ current \in Atom /\ atomClusters[current] = Growing
           /\ neighborIndex \in DOMAIN input.neighbors[current]
           /\ input.bond[current][neighborIndex] # NoOverlap
           /\ Growing \in DOMAIN clusters /\ DOMAIN clusters' = DOMAIN clusters
           /\ Len(clusters') = Len(clusters)
           /\ \A c \in DOMAIN clusters :
                 /\ clusters'[c].structure = clusters[c].structure
                 /\ clusters'[c].atomCount =
                       clusters[c].atomCount + (IF c = Growing THEN 1 ELSE 0)
           /\ atomClusters'[b] = Growing
           /\ atomSymmetry'[b] = CarriedAlong(current, neighborIndex)
           /\ \A a \in Atom : a # b => /\ atomClusters'[a] = atomClusters[a]
                                      /\ atomSymmetry'[a] = atomSymmetry[a]
<1>1. /\ neighborIndex \in DOMAIN input.neighbors[current]
      /\ b \in Atom
  BY AssignedType DEF Assign
<1>2. /\ b # current /\ atomClusters[b] = NoCluster
      /\ current \in Atom /\ atomClusters[current] = Growing
      /\ input.bond[current][neighborIndex] # NoOverlap
  BY DEF Assign, Free, Continues, WorklistSound, TypeOK
<1>3. clusters \in Seq(Cluster) /\ Growing \in DOMAIN clusters
  BY DEF Assign, TypeOK, Growing
<1>4. clusters' = [clusters EXCEPT ![Growing].atomCount = @ + 1]
  BY DEF Assign
<1>5. /\ DOMAIN clusters' = DOMAIN clusters /\ Len(clusters') = Len(clusters)
      /\ \A c \in DOMAIN clusters : c # Growing => clusters'[c] = clusters[c]
      /\ clusters'[Growing] = [clusters[Growing] EXCEPT !.atomCount = @ + 1]
  BY <1>3, <1>4
<1>6. \A c \in DOMAIN clusters :
         /\ clusters'[c].structure = clusters[c].structure
         /\ clusters'[c].atomCount = clusters[c].atomCount + (IF c = Growing THEN 1 ELSE 0)
  <2>1. \A c \in DOMAIN clusters : clusters[c] \in Cluster
    BY <1>3
  <2>2. QED
    BY <1>3, <1>5, <2>1 DEF Cluster
<1>7. /\ atomClusters'[b] = Growing
      /\ atomSymmetry'[b] = CarriedAlong(current, neighborIndex)
      /\ \A a \in Atom : a # b => /\ atomClusters'[a] = atomClusters[a]
                                  /\ atomSymmetry'[a] = atomSymmetry[a]
  BY <1>1 DEF Assign, NewSymmetry, TypeOK
<1>8. QED
  BY <1>1, <1>2, <1>3, <1>5, <1>6, <1>7

\* Every step keeps the worklist inside the growing cluster.
LEMMA WorklistStep == TypeOK /\ WorklistSound /\ [Next]_vars => WorklistSound'
<1> SUFFICES ASSUME TypeOK, WorklistSound, [Next]_vars PROVE WorklistSound'
  OBVIOUS
<1>1. CASE SkipSeed
  BY <1>1 DEF SkipSeed, WorklistSound, Growing
<1>2. CASE RejectSeed
  BY <1>2 DEF RejectSeed, WorklistSound, Growing
<1>3. CASE StartCluster
  <2>1. /\ atomClusters'[seed] = Len(clusters')
        /\ atomsToVisit' = <<seed>> /\ pc' = "visit"
    BY <1>3, StartEffect DEF StartCluster
  <2>2. QED
    BY <2>1 DEF WorklistSound, Growing
<1>4. CASE VisitNext
  <2>1. /\ \A k \in DOMAIN atomsToVisit : atomClusters[atomsToVisit[k]] = Growing
        /\ atomsToVisit \in Seq(Atom) /\ atomsToVisit # <<>>
        /\ current' = Head(atomsToVisit) /\ atomsToVisit' = Tail(atomsToVisit)
        /\ pc' = "neighbors" /\ UNCHANGED <<atomClusters, clusters>>
    BY <1>4 DEF VisitNext, WorklistSound, TypeOK
  <2>2. /\ current' = atomsToVisit[1] /\ 1 \in DOMAIN atomsToVisit
        /\ \A k \in DOMAIN atomsToVisit' :
              k + 1 \in DOMAIN atomsToVisit /\ atomsToVisit'[k] = atomsToVisit[k + 1]
    BY <2>1
  <2>3. QED
    BY <2>1, <2>2 DEF WorklistSound, Growing
<1>5. CASE Assign
  <2> DEFINE b == Neighbor(current, neighborIndex)
  <2>1. /\ b \in Atom /\ b # current
        /\ atomClusters'[b] = Growing /\ Growing' = Growing
        /\ \A a \in Atom : a # b => atomClusters'[a] = atomClusters[a]
        /\ atomClusters[current] = Growing /\ current \in Atom
    BY <1>5, AssignEffect DEF Growing
  <2>2. /\ pc = "neighbors" /\ pc' = "neighbors" /\ current' = current
        /\ atomsToVisit' = Append(atomsToVisit, b)
    BY <1>5 DEF Assign
  <2> HIDE DEF b
  <2>3. atomsToVisit \in Seq(Atom)
    BY DEF TypeOK
  <2>4. \A k \in DOMAIN atomsToVisit : atomClusters[atomsToVisit[k]] = Growing
    BY <2>2 DEF WorklistSound
  <2>5. \A k \in DOMAIN atomsToVisit' : atomClusters'[atomsToVisit'[k]] = Growing
    <3> SUFFICES ASSUME NEW k \in DOMAIN atomsToVisit'
                 PROVE  atomClusters'[atomsToVisit'[k]] = Growing
      OBVIOUS
    <3>1. CASE k = Len(atomsToVisit) + 1
      BY <2>1, <2>2, <2>3, <3>1
    <3>2. CASE k # Len(atomsToVisit) + 1
      <4>1. k \in DOMAIN atomsToVisit /\ atomsToVisit'[k] = atomsToVisit[k]
            /\ atomsToVisit[k] \in Atom
        BY <2>1, <2>2, <2>3, <3>2
      <4>2. QED
        BY <2>1, <2>4, <4>1
    <3>3. QED
      BY <3>1, <3>2
  <2>6. QED
    BY <2>1, <2>2, <2>5 DEF WorklistSound
<1>6. CASE LeaveOut
  BY <1>6 DEF LeaveOut, WorklistSound, Growing
<1>7. CASE EndNeighbors
  BY <1>7 DEF EndNeighbors, WorklistSound, Growing
<1>8. CASE CloseCluster
  BY <1>8 DEF CloseCluster, WorklistSound
<1>9. CASE ReorientAtomsToAlign
  BY <1>9 DEF ReorientAtomsToAlign, WorklistSound
<1>10. CASE UNCHANGED vars
  BY <1>10 DEF vars, WorklistSound, Growing
<1>11. QED
  BY <1>1, <1>2, <1>3, <1>4, <1>5, <1>6, <1>7, <1>8, <1>9, <1>10 DEF Next

----------------------------------------------------------------------------
(* The atom counts                                                         *)

\* The atoms of a cluster can be counted.
LEMMA MembersFinite ==
    ASSUME NEW c
    PROVE  IsFiniteSet(Members(c))
<1>1. IsFiniteSet(Atom)
  BY FS_Interval, GrowthAssumption DEF Atom
<1>2. Members(c) \subseteq Atom
  BY DEF Members
<1>3. QED
  BY <1>1, <1>2, FS_Subset

\* Every step that labels an atom counts it, and no other step counts.
LEMMA AtomCountStep ==
    TypeOK /\ WorklistSound /\ AtomCountExact /\ [Next]_vars => AtomCountExact'
<1> SUFFICES ASSUME TypeOK, WorklistSound, AtomCountExact, [Next]_vars
             PROVE  AtomCountExact'
  OBVIOUS
<1>1. CASE StartCluster
  <2> SUFFICES ASSUME NEW c \in DOMAIN clusters'
               PROVE  clusters'[c].atomCount = Cardinality(Members(c)')
    BY DEF AtomCountExact
  <2>1. CASE c \in DOMAIN clusters
    <3>1. c # Len(clusters) + 1 /\ clusters'[c] = clusters[c] /\ c # NoCluster
      BY <1>1, <2>1, StartEffect DEF NoCluster
    <3>2. Members(c)' = Members(c)
      BY <1>1, <3>1, StartEffect DEF Members
    <3>3. QED
      BY <2>1, <3>1, <3>2 DEF AtomCountExact
  <2>2. CASE c \notin DOMAIN clusters
    <3>1. c = Len(clusters) + 1 /\ clusters'[c].atomCount = 1
      BY <1>1, <2>2, StartEffect
    <3>2. \A a \in Atom : atomClusters[a] # c
      BY <2>2, <3>1 DEF TypeOK
    <3>3. Members(c)' = {seed}
      BY <1>1, <3>1, <3>2, StartEffect DEF Members
    <3>4. QED
      BY <3>1, <3>3, FS_Singleton
  <2>3. QED
    BY <2>1, <2>2
<1>2. CASE Assign
  <2> DEFINE b == Neighbor(current, neighborIndex)
  <2> SUFFICES ASSUME NEW c \in DOMAIN clusters'
               PROVE  clusters'[c].atomCount = Cardinality(Members(c)')
    BY DEF AtomCountExact
  <2>1. /\ b \in Atom /\ atomClusters[b] = NoCluster /\ atomClusters'[b] = Growing
        /\ \A a \in Atom : a # b => atomClusters'[a] = atomClusters[a]
        /\ c \in DOMAIN clusters /\ c # NoCluster
        /\ clusters'[c].atomCount = clusters[c].atomCount + (IF c = Growing THEN 1 ELSE 0)
        /\ clusters[c].atomCount = Cardinality(Members(c))
    <3>1. c \in DOMAIN clusters /\ clusters \in Seq(Cluster)
      BY <1>2, AssignEffect DEF TypeOK
    <3>2. QED
      BY <1>2, <3>1, AssignEffect DEF NoCluster, AtomCountExact
  <2> HIDE DEF b
  <2>2. CASE c = Growing
    <3>1. Members(c)' = Members(c) \cup {b} /\ b \notin Members(c)
      BY <2>1, <2>2 DEF Members
    <3>2. Cardinality(Members(c) \cup {b}) = Cardinality(Members(c)) + 1
      BY <3>1, MembersFinite, FS_AddElement
    <3>3. QED
      BY <2>1, <2>2, <3>1, <3>2
  <2>3. CASE c # Growing
    <3>1. Members(c)' = Members(c)
      BY <2>1, <2>3 DEF Members
    <3>2. Cardinality(Members(c)) \in Nat
      BY MembersFinite, FS_CardinalityType
    <3>3. QED
      BY <2>1, <2>3, <3>1, <3>2
  <2>4. QED
    BY <2>2, <2>3
<1>3. CASE CloseCluster
  <2>1. /\ UNCHANGED atomClusters /\ DOMAIN clusters' = DOMAIN clusters
        /\ \A c \in DOMAIN clusters : clusters'[c].atomCount = clusters[c].atomCount
    <3>1. PICK t \in Tm :
              clusters' = [clusters EXCEPT ![Growing] =
                              [@ EXCEPT !.symmetryTransformation = t, !.orientation = Inv(t)]]
      BY <1>3, GroupAxioms DEF CloseCluster, PreferredTransformations
    <3>2. \A c \in DOMAIN clusters : clusters[c] \in Cluster
      BY DEF TypeOK
    <3>3. QED
      BY <1>3, <3>1, <3>2 DEF CloseCluster, Cluster
  <2>2. QED
    BY <2>1 DEF AtomCountExact, Members
<1>4. CASE UNCHANGED <<atomClusters, clusters>>
  BY <1>4 DEF AtomCountExact, Members
<1>5. QED
  BY <1>1, <1>2, <1>3, <1>4
     DEF Next, SkipSeed, RejectSeed, VisitNext, LeaveOut, EndNeighbors,
         ReorientAtomsToAlign, vars

----------------------------------------------------------------------------
(* One crystal per cluster                                                 *)

\* The transformation of the reorientation acts from the left, so it carries a
\* bond's relation between two symmetries over to the new ones.
LEMMA TurnedAlike ==
    ASSUME NEW t \in Tm, NEW s \in Tm, NEW x \in Tm
    PROVE  SymmetryInverseProduct(Mul(s, x), t) = Mul(SymmetryInverseProduct(s, t), x)
BY GroupAxioms DEF SymmetryInverseProduct

\* A new atom is reached over a bond that carries its symmetry, and later steps
\* leave the bonds between the atoms of a cluster as they are.
LEMMA SymmetryCarriedStep ==
    TypeOK /\ WorklistSound /\ SymmetryCarried /\ [Next]_vars => SymmetryCarried'
<1> SUFFICES ASSUME TypeOK, WorklistSound, SymmetryCarried, [Next]_vars,
                    NEW c \in DOMAIN clusters'
             PROVE  (\E root \in Members(c) :
                        \A S \in SUBSET (Members(c) \ {root}) :
                            S # {} => \E a \in Members(c) \ S, b \in S :
                                         \E n \in DOMAIN input.neighbors[a] :
                                             Carries(a, n, b))'
  BY DEF SymmetryCarried
<1>1. CASE StartCluster
  <2>1. CASE c \in DOMAIN clusters
    <3>1. c # NoCluster /\ c # Len(clusters) + 1
      BY <1>1, <2>1, StartEffect DEF NoCluster
    <3>2. Members(c)' = Members(c) /\ \A a \in Members(c) : atomSymmetry'[a] = atomSymmetry[a]
      BY <1>1, <3>1, StartEffect DEF Members
    <3>3. \A a, b \in Members(c) : \A n : Carries(a, n, b) => Carries(a, n, b)'
      BY <1>1, <3>2 DEF Carries, CarriedAlong, Neighbor, StartCluster
    <3>4. input' = input
      BY <1>1 DEF StartCluster
    <3>5. PICK root \in Members(c) :
              \A S \in SUBSET (Members(c) \ {root}) :
                  S # {} => \E a \in Members(c) \ S, b \in S :
                               \E n \in DOMAIN input.neighbors[a] : Carries(a, n, b)
      BY <2>1 DEF SymmetryCarried
    <3>6. \A S \in SUBSET (Members(c) \ {root}) :
              S # {} => \E a \in Members(c) \ S, b \in S :
                           \E n \in DOMAIN input.neighbors[a] : Carries(a, n, b)'
      BY <3>3, <3>5
    <3>7. QED
      BY <3>2, <3>4, <3>5, <3>6
  <2>2. CASE c \notin DOMAIN clusters
    <3>1. c = Len(clusters) + 1
      BY <1>1, <2>2, StartEffect
    <3>2. \A a \in Atom : atomClusters[a] # c
      BY <1>1, <3>1, StartEffect DEF TypeOK
    <3>3. Members(c)' = {seed}
      BY <1>1, <3>1, <3>2, StartEffect DEF Members
    <3>4. QED
      BY <3>3
  <2>3. QED
    BY <2>1, <2>2
<1>2. CASE Assign
  <2>0. PICK d, e, k : d = Neighbor(current, neighborIndex) /\ e = current /\ k = neighborIndex
    OBVIOUS
  <2>1. /\ d \in Atom /\ d # e /\ atomClusters[d] = NoCluster
        /\ atomClusters'[d] = Growing
        /\ d = Neighbor(e, k) /\ atomSymmetry'[d] = CarriedAlong(e, k)
        /\ e \in Atom /\ atomClusters[e] = Growing
        /\ k \in DOMAIN input.neighbors[e] /\ input.bond[e][k] # NoOverlap
        /\ \A a \in Atom : a # d => /\ atomClusters'[a] = atomClusters[a]
                                   /\ atomSymmetry'[a] = atomSymmetry[a]
        /\ c \in DOMAIN clusters /\ c # NoCluster
    <3>1. c \in DOMAIN clusters /\ clusters \in Seq(Cluster)
      BY <1>2, AssignEffect DEF TypeOK
    <3>2. QED
      BY <1>2, <2>0, <3>1, AssignEffect DEF NoCluster
  <2>2. input' = input
    BY <1>2 DEF Assign
  <2>3. Carries(e, k, d)'
    BY <2>1, <2>2 DEF Carries, CarriedAlong, Neighbor
  <2>4. \A a, b \in Members(c) : \A n : Carries(a, n, b) => Carries(a, n, b)'
    <3>1. \A a \in Members(c) : a # d /\ atomSymmetry'[a] = atomSymmetry[a]
      BY <2>1 DEF Members
    <3>2. QED
      BY <2>2, <3>1 DEF Carries, CarriedAlong, Neighbor
  <2>5. PICK root \in Members(c) :
            \A S \in SUBSET (Members(c) \ {root}) :
                S # {} => \E a \in Members(c) \ S, b \in S :
                             \E n \in DOMAIN input.neighbors[a] : Carries(a, n, b)
    BY <2>1 DEF SymmetryCarried
  <2>6. /\ Members(c) \subseteq Members(c)' /\ Members(c)' \subseteq Members(c) \cup {d}
        /\ d \notin Members(c)
        /\ d \in Members(c)' => e \in Members(c)
    BY <2>1 DEF Members
  <2>7. ASSUME NEW S \in SUBSET (Members(c)' \ {root}), S # {}
        PROVE  \E a \in Members(c)' \ S, b \in S :
                  \E n \in DOMAIN input.neighbors[a] : Carries(a, n, b)'
    <3>1. CASE S \ {d} # {}
      <4>1. S \ {d} \in SUBSET (Members(c) \ {root})
        BY <2>6
      <4>2. PICK a \in Members(c) \ (S \ {d}), b \in S \ {d} :
                \E n \in DOMAIN input.neighbors[a] : Carries(a, n, b)
        BY <2>5, <3>1, <4>1
      <4>3. a \in Members(c) /\ b \in Members(c) /\ a \notin S /\ a \in Members(c)'
        BY <2>6, <4>1, <4>2
      <4>4. QED
        BY <2>4, <4>2, <4>3
    <3>2. CASE S \ {d} = {}
      <4>1. d \in S /\ e \notin S /\ e \in Members(c)'
        BY <2>1, <2>6, <2>7, <3>2
      <4>2. QED
        BY <2>1, <2>3, <4>1
    <3>3. QED
      BY <3>1, <3>2
  <2>8. QED
    BY <2>2, <2>5, <2>6, <2>7
<1>3. CASE ReorientAtomsToAlign
  <2>1. /\ input' = input /\ atomClusters' = atomClusters /\ clusters' = clusters
        /\ Members(c)' = Members(c) /\ c \in DOMAIN clusters
    BY <1>3 DEF ReorientAtomsToAlign, Members
  <2>2. c # NoCluster /\ clusters[c] \in Cluster
    BY <2>1 DEF TypeOK, NoCluster
  <2> DEFINE t == clusters[c].symmetryTransformation
  <2>3. t \in Tm
    BY <2>2 DEF Cluster
  <2>4. ASSUME NEW a \in Members(c)
        PROVE  /\ a \in Atom /\ atomSymmetry[a] \in Tm /\ Transformation(a) = t
               /\ atomSymmetry'[a] = SymmetryInverseProduct(atomSymmetry[a], t)
    <3>1. a \in Atom /\ atomClusters[a] = c
      BY DEF Members
    <3>2. atomSymmetry[a] \in Tm /\ atomSymmetry[a] # NoSymmetry
      BY <2>2, <3>1, GrowthAssumption DEF TypeOK, NoSymmetry
    <3>3. QED
      BY <1>3, <2>2, <3>1, <3>2 DEF ReorientAtomsToAlign, Transformation
  <2> HIDE DEF t
  <2>5. ASSUME NEW a \in Members(c), NEW b \in Members(c),
               NEW n \in DOMAIN input.neighbors[a], Carries(a, n, b)
        PROVE  Carries(a, n, b)'
    <3>1. input.bond[a][n] \in Tm
      BY <2>4, <2>5, NeighborType DEF Carries
    <3>2. atomSymmetry[b] = Mul(atomSymmetry[a], input.bond[a][n])
      BY <2>5 DEF Carries, CarriedAlong
    <3>3. atomSymmetry'[b] = Mul(atomSymmetry'[a], input.bond[a][n])
      BY <2>3, <2>4, <3>1, <3>2, TurnedAlike
    <3>4. QED
      BY <2>1, <2>5, <3>3 DEF Carries, CarriedAlong, Neighbor
  <2>6. PICK root \in Members(c) :
            \A S \in SUBSET (Members(c) \ {root}) :
                S # {} => \E a \in Members(c) \ S, b \in S :
                             \E n \in DOMAIN input.neighbors[a] : Carries(a, n, b)
    BY <2>1 DEF SymmetryCarried
  <2>7. \A S \in SUBSET (Members(c) \ {root}) :
            S # {} => \E a \in Members(c) \ S, b \in S :
                         \E n \in DOMAIN input.neighbors[a] : Carries(a, n, b)'
    BY <2>5, <2>6
  <2>8. QED
    BY <2>1, <2>6, <2>7
<1>4. CASE /\ UNCHANGED <<input, atomClusters, atomSymmetry>>
           /\ DOMAIN clusters' = DOMAIN clusters
  BY <1>4 DEF SymmetryCarried, Members, Carries, CarriedAlong, Neighbor
<1>5. CASE CloseCluster
  <2>1. DOMAIN clusters' = DOMAIN clusters
    BY <1>5 DEF CloseCluster
  <2>2. QED
    BY <1>4, <1>5, <2>1 DEF CloseCluster
<1>6. QED
  BY <1>1, <1>2, <1>3, <1>4, <1>5
     DEF Next, SkipSeed, RejectSeed, VisitNext, LeaveOut, EndNeighbors, vars

----------------------------------------------------------------------------
(* Growth misses nothing                                                   *)

\* What Exhaustive says of one slot.
Answered(a, n) ==
    Continues(a, n) => atomClusters[Neighbor(a, n)] \in 1 .. atomClusters[a]

\* A slot that was answered stays answered while labels are only given to
\* unlabelled atoms and the atom, its cluster's type and the types remain.
LEMMA AnsweredStays ==
    ASSUME TypeOK, NEW a \in Atom, NEW n \in DOMAIN input.neighbors[a],
           Answered(a, n), UNCHANGED <<input, structureTypes>>,
           atomClusters'[a] = atomClusters[a], atomSymmetry'[a] = atomSymmetry[a],
           Structure(a)' = Structure(a),
           \A b \in Atom : atomClusters[b] # NoCluster => atomClusters'[b] = atomClusters[b]
    PROVE  Answered(a, n)'
<1>1. Neighbor(a, n) \in Atom /\ Neighbor(a, n)' = Neighbor(a, n)
  BY NeighborType DEF Neighbor
<1>2. Continues(a, n)' => Continues(a, n)
  BY <1>1 DEF Continues, CarriedAlong, AllowedSymmetries, Handled
<1>3. QED
  BY <1>1, <1>2 DEF Answered, NoCluster

\* Slots tried before a step that neither visits an atom nor moves on.
LEMMA TriedSlots ==
    ASSUME TypeOK, NEW a \in Atom, NEW n \in Tried(a)
    PROVE  /\ atomClusters[a] # NoCluster
           /\ atomClusters[a] \in DOMAIN clusters
           /\ \A k \in DOMAIN atomsToVisit : atomsToVisit[k] # a
BY DEF Tried, TypeOK, NoCluster

\* The current atom has not looked past its neighbours.
SlotSound ==
    pc = "neighbors" => neighborIndex \in 1 .. Len(input.neighbors[current]) + 1

\* Every step keeps the neighbour index within one of the neighbour list.
LEMMA SlotStep == TypeOK /\ SlotSound /\ [Next]_vars => SlotSound'
<1> SUFFICES ASSUME TypeOK, SlotSound, [Next]_vars, pc' = "neighbors" PROVE SlotSound'
  BY DEF SlotSound
<1>1. CASE VisitNext
  <2>1. current' \in Atom /\ input' = input
    BY <1>1, TypeStep DEF VisitNext, TypeOK
  <2>2. input.neighbors[current'] \in Seq(Atom)
    BY <2>1, InputType
  <2>3. QED
    BY <1>1, <2>1, <2>2 DEF VisitNext, SlotSound, FirstNeighbor
<1>2. CASE Assign \/ LeaveOut
  <2>1. input.neighbors[current] \in Seq(Atom) /\ neighborIndex \in Nat \ {0}
    BY InputType DEF TypeOK
  <2>2. QED
    BY <1>2, <2>1 DEF Assign, LeaveOut, SlotSound
<1>3. CASE UNCHANGED vars
  BY <1>3 DEF vars, SlotSound
<1>4. QED
  BY <1>1, <1>2, <1>3
     DEF Next, SkipSeed, RejectSeed, StartCluster, EndNeighbors, CloseCluster,
         ReorientAtomsToAlign

\* Slots that were looked at are slots of the neighbour list.
LEMMA TriedInDomain ==
    ASSUME TypeOK, SlotSound, NEW a \in Atom, NEW n \in Tried(a)
    PROVE  n \in DOMAIN input.neighbors[a]
<1>1. input.neighbors[a] \in Seq(Atom) /\ neighborIndex \in Nat \ {0}
  BY InputType DEF TypeOK
<1>2. QED
  BY <1>1 DEF Tried, SlotSound

\* Every slot is answered when it is looked at, and stays answered.
LEMMA ExhaustiveStep ==
    TypeOK /\ WorklistSound /\ SlotSound /\ Exhaustive /\ [Next]_vars => Exhaustive'
<1> SUFFICES ASSUME TypeOK, WorklistSound, SlotSound, Exhaustive, [Next]_vars,
                    TypeOK', SlotSound', pc' # "done",
                    NEW a \in Atom, NEW n \in Tried(a)'
             PROVE  Answered(a, n)'
  BY TypeStep, SlotStep DEF Exhaustive, Answered
<1>1. pc # "done"
  BY DEF Next, SkipSeed, RejectSeed, StartCluster, VisitNext, Assign, LeaveOut,
         EndNeighbors, CloseCluster, ReorientAtomsToAlign, vars
<1>2. ASSUME n \in Tried(a) PROVE Answered(a, n) /\ n \in DOMAIN input.neighbors[a]
  BY <1>1, <1>2, TriedInDomain DEF Exhaustive, Answered
<1>3. CASE SkipSeed \/ CloseCluster
  <2>1. /\ UNCHANGED <<input, structureTypes, atomClusters, atomSymmetry,
                       atomsToVisit, current, neighborIndex>>
        /\ pc' # "neighbors" /\ pc # "neighbors"
    BY <1>3 DEF SkipSeed, CloseCluster
  <2>2. n \in Tried(a)
    BY <2>1 DEF Tried
  <2>3. Structure(a)' = Structure(a)
    <3>1. CASE SkipSeed
      BY <3>1 DEF SkipSeed, Structure
    <3>2. CASE CloseCluster
      <4>1. PICK t \in Tm :
                clusters' = [clusters EXCEPT ![Growing] =
                                [@ EXCEPT !.symmetryTransformation = t, !.orientation = Inv(t)]]
        BY <3>2, GroupAxioms DEF CloseCluster, PreferredTransformations
      <4>2. atomClusters[a] \in DOMAIN clusters /\ clusters[atomClusters[a]] \in Cluster
        BY <2>2, TriedSlots DEF TypeOK
      <4>3. clusters'[atomClusters[a]].structure = clusters[atomClusters[a]].structure
        BY <4>1, <4>2 DEF Cluster
      <4>4. QED
        BY <2>1, <4>3 DEF Structure
    <3>3. QED
      BY <1>3, <3>1, <3>2
  <2>4. QED
    BY <1>2, <2>1, <2>2, <2>3, AnsweredStays
<1>4. CASE RejectSeed
  <2>1. /\ UNCHANGED <<input, atomClusters, atomSymmetry, clusters, pc,
                       atomsToVisit, current, neighborIndex>>
        /\ structureTypes' = [structureTypes EXCEPT ![seed] = Other]
        /\ seed \in Atom /\ atomClusters[seed] = NoCluster
    BY <1>4 DEF RejectSeed, WithoutStructure, AlreadyProcessed
  <2>2. n \in Tried(a)
    BY <2>1 DEF Tried
  <2>3. Structure(a)' = Structure(a) /\ Structure(a) \in Types
    <3>1. clusters[atomClusters[a]] \in Cluster
      BY <2>2, TriedSlots DEF TypeOK
    <3>2. QED
      BY <2>1, <3>1 DEF Structure, Cluster
  <2>4. Neighbor(a, n) \in Atom /\ Neighbor(a, n)' = Neighbor(a, n)
    BY <1>2, <2>1, <2>2, NeighborType DEF Neighbor
  <2>5. ASSUME Continues(a, n)' PROVE Continues(a, n)
    <3>1. structureTypes'[Neighbor(a, n)] # Other
      BY <2>3, <2>4, <2>5, GrowthAssumption DEF Continues
    <3>2. Neighbor(a, n) # seed
      BY <2>1, <3>1 DEF TypeOK
    <3>3. structureTypes'[Neighbor(a, n)] = structureTypes[Neighbor(a, n)]
      BY <2>1, <2>4, <3>2 DEF TypeOK
    <3>4. QED
      BY <2>1, <2>3, <2>4, <2>5, <3>3 DEF Continues, CarriedAlong, AllowedSymmetries, Handled
  <2>6. QED
    BY <1>2, <2>1, <2>2, <2>4, <2>5 DEF Answered
<1>5. CASE StartCluster
  <2>1. a # seed
    BY <1>5 DEF StartCluster, Tried
  <2>2. /\ UNCHANGED <<input, structureTypes, current, neighborIndex>>
        /\ pc # "neighbors" /\ pc' # "neighbors" /\ atomsToVisit = <<>>
        /\ atomClusters'[a] = atomClusters[a] /\ atomSymmetry'[a] = atomSymmetry[a]
    BY <1>5, <2>1, StartEffect DEF StartCluster, WorklistSound
  <2>3. n \in Tried(a)
    BY <2>2 DEF Tried
  <2>4. Structure(a)' = Structure(a)
    BY <1>5, <2>2, <2>3, TriedSlots, StartEffect DEF Structure
  <2>5. \A b \in Atom : atomClusters[b] # NoCluster => atomClusters'[b] = atomClusters[b]
    BY <1>5, StartEffect
  <2>6. QED
    BY <1>2, <2>2, <2>3, <2>4, <2>5, AnsweredStays
<1>6. CASE VisitNext
  <2>1. /\ UNCHANGED <<input, structureTypes, atomClusters, atomSymmetry, clusters>>
        /\ pc = "visit" /\ pc' = "neighbors" /\ neighborIndex' = 1
        /\ atomsToVisit \in Seq(Atom) /\ atomsToVisit # <<>>
        /\ current' = Head(atomsToVisit) /\ atomsToVisit' = Tail(atomsToVisit)
    BY <1>6 DEF VisitNext, FirstNeighbor, TypeOK
  <2>2. a # current'
    BY <2>1 DEF Tried
  <2>3. \A k \in DOMAIN atomsToVisit : atomsToVisit[k] # a
    <3>1. \A k \in DOMAIN atomsToVisit' : atomsToVisit'[k] # a
      BY DEF Tried
    <3>2. ASSUME NEW k \in DOMAIN atomsToVisit, k # 1
          PROVE  k - 1 \in DOMAIN atomsToVisit' /\ atomsToVisit'[k - 1] = atomsToVisit[k]
      BY <2>1, <3>2
    <3>3. atomsToVisit[1] # a
      BY <2>1, <2>2
    <3>4. QED
      BY <3>1, <3>2, <3>3
  <2>4. n \in Tried(a)
    BY <2>1, <2>2, <2>3 DEF Tried
  <2>5. Structure(a)' = Structure(a)
    BY <2>1 DEF Structure
  <2>6. QED
    BY <1>2, <2>1, <2>4, <2>5, AnsweredStays
<1>7. CASE Assign
  <2>0. PICK d, e, k : d = Neighbor(current, neighborIndex) /\ e = current /\ k = neighborIndex
    OBVIOUS
  <2>1. /\ d \in Atom /\ d # e /\ atomClusters[d] = NoCluster
        /\ atomClusters'[d] = Growing /\ d = Neighbor(e, k)
        /\ e \in Atom /\ atomClusters[e] = Growing /\ Growing \in DOMAIN clusters
        /\ \A b \in Atom : b # d => /\ atomClusters'[b] = atomClusters[b]
                                   /\ atomSymmetry'[b] = atomSymmetry[b]
        /\ \A c \in DOMAIN clusters : clusters'[c].structure = clusters[c].structure
    BY <1>7, <2>0, AssignEffect
  <2>2. /\ UNCHANGED <<input, structureTypes, pc, current>>
        /\ pc = "neighbors" /\ neighborIndex' = neighborIndex + 1
        /\ atomsToVisit' = Append(atomsToVisit, d)
        /\ atomsToVisit \in Seq(Atom) /\ neighborIndex \in Nat \ {0}
    BY <1>7, <2>0 DEF Assign, TypeOK
  <2>3. a # d
    <3>1. atomsToVisit'[Len(atomsToVisit) + 1] = d /\ Len(atomsToVisit) + 1 \in DOMAIN atomsToVisit'
      BY <2>1, <2>2
    <3>2. QED
      BY <3>1 DEF Tried
  <2>4. \A j \in DOMAIN atomsToVisit : j \in DOMAIN atomsToVisit' /\ atomsToVisit'[j] = atomsToVisit[j]
    BY <2>1, <2>2
  <2>5. atomClusters'[a] = atomClusters[a] /\ atomSymmetry'[a] = atomSymmetry[a]
    BY <2>1, <2>3
  <2>6. n \in Tried(a) \/ (a = e /\ n = k)
    BY <2>0, <2>2, <2>4, <2>5 DEF Tried
  <2>7. CASE n \in Tried(a)
    <3>1. Structure(a)' = Structure(a)
      BY <2>1, <2>5, <2>7, TriedSlots DEF Structure
    <3>2. \A b \in Atom : atomClusters[b] # NoCluster => atomClusters'[b] = atomClusters[b]
      BY <2>1
    <3>3. QED
      BY <1>2, <2>2, <2>5, <2>7, <3>1, <3>2, AnsweredStays
  <2>8. CASE a = e /\ n = k
    <3>1. atomClusters'[d] = atomClusters'[a] /\ Neighbor(a, n)' = d
      BY <2>1, <2>2, <2>5, <2>8 DEF Neighbor
    <3>2. atomClusters'[a] \in 1 .. atomClusters'[a]
      <4>1. Growing \in Nat \ {0}
        BY <2>1 DEF TypeOK
      <4>2. QED
        BY <2>1, <2>5, <2>8, <4>1
    <3>3. QED
      BY <3>1, <3>2 DEF Answered
  <2>9. QED
    BY <2>6, <2>7, <2>8
<1>8. CASE LeaveOut
  <2>1. /\ UNCHANGED <<input, structureTypes, atomClusters, atomSymmetry, clusters,
                       pc, atomsToVisit, current>>
        /\ pc = "neighbors" /\ neighborIndex' = neighborIndex + 1
        /\ neighborIndex \in Nat \ {0}
        /\ ~(Free(Neighbor(current, neighborIndex)) /\ Continues(current, neighborIndex))
    BY <1>8 DEF LeaveOut, TypeOK
  <2>2. n \in Tried(a) \/ (a = current /\ n = neighborIndex)
    BY <2>1 DEF Tried
  <2>3. Structure(a)' = Structure(a)
    BY <2>1 DEF Structure
  <2>4. n \in DOMAIN input.neighbors[a]
    <3>1. current \in Atom /\ neighborIndex <= Len(input.neighbors[current])
      BY <1>8 DEF LeaveOut, TypeOK
    <3>2. input.neighbors[current] \in Seq(Atom)
      BY <3>1, InputType
    <3>3. QED
      BY <1>2, <2>1, <2>2, <3>1, <3>2
  <2>5. Answered(a, n)
    <3>1. CASE n \in Tried(a)
      BY <1>2, <3>1
    <3>2. CASE a = current /\ n = neighborIndex
      <4>1. Continues(a, n) => atomClusters[Neighbor(a, n)] # NoCluster
        BY <2>1, <3>2 DEF Free
      <4>2. /\ atomClusters[a] = Len(clusters)
            /\ atomClusters[Neighbor(a, n)] \in 0 .. Len(clusters)
        BY <2>1, <2>4, <3>2, NeighborType DEF WorklistSound, Growing, TypeOK
      <4>3. Len(clusters) \in Nat
        BY DEF TypeOK
      <4>4. QED
        BY <4>1, <4>2, <4>3 DEF Answered, NoCluster
    <3>3. QED
      BY <2>2, <3>1, <3>2
  <2>6. QED
    BY <2>1, <2>3, <2>4, <2>5, AnsweredStays
<1>9. CASE EndNeighbors
  <2>1. /\ UNCHANGED <<input, structureTypes, atomClusters, atomSymmetry, clusters,
                       atomsToVisit, current, neighborIndex>>
        /\ pc = "neighbors" /\ pc' = "visit" /\ neighborIndex > Len(input.neighbors[current])
        /\ neighborIndex \in Nat \ {0}
    BY <1>9 DEF EndNeighbors, TypeOK
  <2>2. n \in Tried(a)
    <3>1. input.neighbors[a] \in Seq(Atom)
      BY InputType
    <3>2. QED
      BY <2>1, <3>1 DEF Tried
  <2>3. Structure(a)' = Structure(a)
    BY <2>1 DEF Structure
  <2>4. QED
    BY <1>2, <2>1, <2>2, <2>3, AnsweredStays
<1>10. CASE UNCHANGED vars
  <2>1. n \in Tried(a)
    BY <1>10 DEF vars, Tried
  <2>2. QED
    BY <1>2, <1>10, <2>1
       DEF vars, Answered, Continues, Neighbor, Structure, CarriedAlong,
           AllowedSymmetries, Handled
<1>11. CASE ReorientAtomsToAlign
  BY <1>11 DEF ReorientAtomsToAlign
<1>12. QED
  BY <1>3, <1>4, <1>5, <1>6, <1>7, <1>8, <1>9, <1>10, <1>11 DEF Next

----------------------------------------------------------------------------
(* Least elements and induction *)

\* A set of natural numbers that is not empty has a least element.
LEMMA LeastNatural ==
    ASSUME NEW T, T \subseteq Nat, T # {}
    PROVE  \E m \in T : \A n \in T : m <= n
<1> DEFINE Below == {1 .. n : n \in T}
<1>1. Below \subseteq FiniteSubsetsOf(Nat) /\ Below # {}
  <2>1. \A n \in T : n \in Int /\ 1 .. n \in SUBSET Nat
    OBVIOUS
  <2>2. \A n \in T : IsFiniteSet(1 .. n)
    BY <2>1, FS_Interval
  <2>3. QED
    BY <2>1, <2>2 DEF FiniteSubsetsOf
<1>2. PICK B \in Below : \A C \in Below : <<C, B>> \notin StrictSubsetOrdering(Nat)
  BY <1>1, FS_StrictSubsetOrderingWellFounded, WFMin
<1>3. PICK m \in T : B = 1 .. m
  OBVIOUS
<1>4. ASSUME NEW n \in T, n < m PROVE FALSE
  <2>1. 1 .. n \subseteq 1 .. m /\ m \in 1 .. m /\ m \notin 1 .. n
    BY <1>4
  <2>2. 1 .. n \in SUBSET Nat /\ 1 .. m \in SUBSET Nat /\ 1 .. n # 1 .. m
    BY <2>1
  <2>3. <<1 .. n, 1 .. m>> \in StrictSubsetOrdering(Nat)
    BY <2>1, <2>2 DEF StrictSubsetOrdering
  <2>4. QED
    BY <1>2, <1>3, <2>3
<1>5. QED
  BY <1>4

\* A set that holds 0, and a number if it holds the one before it, holds all
\* numbers up to b.
LEMMA Induction ==
    ASSUME NEW b \in Nat, NEW G, 0 \in G,
           \A n \in 1 .. b : n - 1 \in G => n \in G
    PROVE  0 .. b \subseteq G
<1> DEFINE T == (0 .. b) \ G
<1>1. SUFFICES ASSUME T # {} PROVE FALSE
  OBVIOUS
<1>2. PICK m \in T : \A n \in T : m <= n
  <2>1. T \subseteq Nat
    OBVIOUS
  <2> HIDE DEF T
  <2>2. QED
    BY <1>1, <2>1, LeastNatural
<1>3. m \in 1 .. b /\ m - 1 \in 0 .. b /\ ~(m <= m - 1)
  OBVIOUS
<1>4. m - 1 \in G
  BY <1>2, <1>3
<1>5. QED
  BY <1>3, <1>4

----------------------------------------------------------------------------
(* Every atom is settled                                                   *)

\* An atom in a cluster has the cluster's type.  An atom that lost its type has
\* a mask that allows nothing.
Consistent(a) ==
    /\ atomClusters[a] # NoCluster => structureTypes[a] = Structure(a)
    /\ structureTypes[a] = Other /\ input.type[a] # Other => input.allowed[a] = {}

\* The seeds the loop has passed are done with, the one that grows is labelled.
SettledSound ==
    /\ \A a \in Atom : Consistent(a)
    /\ \A a \in Atom : a < seed => AlreadyProcessed(a)
    /\ pc \in {"visit", "neighbors"} => atomClusters[seed] # NoCluster
    /\ pc = "done" => seed \notin Atom

\* The type that a cluster is grown with is one of a lattice.
LEMMA StructureType ==
    ASSUME TypeOK, NEW a \in Atom, atomClusters[a] # NoCluster
    PROVE  /\ atomClusters[a] \in DOMAIN clusters
           /\ clusters[atomClusters[a]] \in Cluster
           /\ Structure(a) \in Types /\ Structure(a) # Other
<1>1. atomClusters[a] \in DOMAIN clusters
  BY DEF TypeOK, NoCluster
<1>2. clusters[atomClusters[a]] \in Cluster
  BY <1>1 DEF TypeOK
<1>3. QED
  BY <1>1, <1>2, GrowthAssumption DEF Structure, Cluster

\* A seed that no symmetry can be chosen for has a mask that allows none.
LEMMA NoneAllowed ==
    ASSUME TypeOK, NEW a \in Atom, InitialSymmetries(a) = {}
    PROVE  input.allowed[a] = {}
<1>1. input.allowed[a] \subseteq Nat
  BY InputType, GrowthAssumption
<1>2. ASSUME input.allowed[a] # {} PROVE FALSE
  <2>1. PICK m \in input.allowed[a] : \A n \in input.allowed[a] : m <= n
    BY <1>1, <1>2, LeastNatural
  <2>2. QED
    BY <2>1 DEF InitialSymmetries
<1>3. QED
  BY <1>2

\* Every step leaves atoms consistent and settles the seeds it passes.
LEMMA SettledStep ==
    TypeOK /\ WorklistSound /\ SettledSound /\ [Next]_vars => SettledSound'
<1> SUFFICES ASSUME TypeOK, WorklistSound, SettledSound, [Next]_vars
             PROVE  SettledSound'
  OBVIOUS
<1>0. seed \in 1 .. NumAtoms + 1 /\ NumAtoms \in Nat \ {0} /\ Atom = 1 .. NumAtoms
  BY GrowthAssumption DEF TypeOK, Atom
<1>1. CASE SkipSeed
  <2>1. \A a \in Atom : Consistent(a)'
    BY <1>1 DEF SkipSeed, SettledSound, Consistent, Structure
  <2>2. \A a \in Atom : a < seed' => a < seed \/ a = seed
    BY <1>0, <1>1 DEF SkipSeed, NextSeed
  <2>3. QED
    BY <1>1, <2>1, <2>2 DEF SkipSeed, SettledSound, AlreadyProcessed
<1>2. CASE RejectSeed
  <2>1. /\ structureTypes' = [structureTypes EXCEPT ![seed] = Other]
        /\ UNCHANGED <<input, atomClusters, clusters, pc>>
        /\ seed \in Atom /\ atomClusters[seed] = NoCluster
        /\ seed' = seed + 1 /\ pc = "seeds"
    BY <1>2 DEF RejectSeed, WithoutStructure, AlreadyProcessed, NextSeed
  <2>2. input.allowed[seed] = {}
    BY <1>2, <2>1, NoneAllowed DEF RejectSeed
  <2>3. structureTypes'[seed] = Other /\ \A a \in Atom : a # seed => structureTypes'[a] = structureTypes[a]
    BY <2>1 DEF TypeOK
  <2>4. \A a \in Atom : Consistent(a)'
    BY <2>1, <2>2, <2>3 DEF SettledSound, Consistent, Structure
  <2>5. \A a \in Atom : a < seed' => a < seed \/ a = seed
    BY <1>0, <2>1
  <2>6. QED
    BY <2>1, <2>3, <2>4, <2>5 DEF SettledSound, AlreadyProcessed
<1>3. CASE StartCluster
  <2>1. /\ UNCHANGED <<input, structureTypes, seed>> /\ pc' = "visit"
        /\ seed \in Atom /\ atomClusters'[seed] = Len(clusters) + 1
        /\ Len(clusters) \in Nat
        /\ \A a \in Atom : a # seed => atomClusters'[a] = atomClusters[a]
        /\ \A c \in DOMAIN clusters : clusters'[c] = clusters[c]
    BY <1>3, StartEffect DEF StartCluster
  <2>2. clusters'[Len(clusters) + 1].structure = structureTypes[seed]
    <3> DEFINE new == [structure |-> structureTypes[seed], atomCount |-> 1,
                       symmetryTransformation |-> Id, orientation |-> Id]
    <3>1. clusters' = Append(clusters, new) /\ clusters \in Seq(Cluster)
          /\ new.structure = structureTypes[seed]
      BY <1>3 DEF StartCluster, TypeOK
    <3> HIDE DEF new
    <3>2. QED
      BY <3>1
  <2>3. structureTypes[seed] # Other
    BY <1>3 DEF StartCluster, AlreadyProcessed
  <2>4. ASSUME NEW a \in Atom PROVE Consistent(a)'
    <3>1. CASE a = seed
      BY <2>1, <2>2, <2>3, <3>1 DEF Consistent, Structure
    <3>2. CASE a # seed
      <4>1. atomClusters'[a] # NoCluster => clusters'[atomClusters'[a]] = clusters[atomClusters[a]]
        BY <2>1, <3>2, StructureType
      <4>2. QED
        BY <2>1, <3>2, <4>1 DEF Consistent, Structure, SettledSound
    <3>3. QED
      BY <3>1, <3>2
  <2>5. \A a \in Atom : a < seed' => AlreadyProcessed(a)'
    BY <1>0, <2>1 DEF SettledSound, AlreadyProcessed
  <2>6. atomClusters'[seed'] # NoCluster
    BY <2>1 DEF NoCluster
  <2>7. QED
    BY <2>1, <2>4, <2>5, <2>6 DEF SettledSound
<1>4. CASE VisitNext \/ LeaveOut \/ EndNeighbors \/ UNCHANGED vars
  <2>1. /\ UNCHANGED <<input, structureTypes, atomClusters, clusters, seed>>
        /\ pc' \in {"visit", "neighbors"} => pc \in {"visit", "neighbors"}
        /\ pc' = "done" => pc = "done"
    BY <1>4 DEF VisitNext, LeaveOut, EndNeighbors, vars
  <2>2. QED
    BY <2>1 DEF SettledSound, Consistent, Structure, AlreadyProcessed
<1>5. CASE Assign
  <2>0. PICK b : b = Neighbor(current, neighborIndex)
    OBVIOUS
  <2>1. /\ b \in Atom /\ current \in Atom /\ atomClusters[b] = NoCluster
        /\ atomClusters[current] = Growing /\ atomClusters'[b] = Growing
        /\ \A a \in Atom : a # b => atomClusters'[a] = atomClusters[a]
        /\ Growing \in DOMAIN clusters
        /\ \A c \in DOMAIN clusters : clusters'[c].structure = clusters[c].structure
    BY <1>5, <2>0, AssignEffect
  <2>2. /\ UNCHANGED <<input, structureTypes, pc, seed>> /\ pc = "neighbors"
        /\ structureTypes[b] = Structure(current)
    BY <1>5, <2>0 DEF Assign, Continues
  <2>3. Growing # NoCluster
    BY <2>1 DEF TypeOK, NoCluster
  <2>4. ASSUME NEW a \in Atom PROVE Consistent(a)'
    <3>1. CASE a = b
      <4>1. structureTypes[b] # Other
        BY <2>1, <2>2, <2>3, StructureType
      <4>2. Structure(a)' = Structure(current)
        BY <2>1, <3>1 DEF Structure
      <4>3. QED
        BY <2>2, <3>1, <4>1, <4>2 DEF Consistent
    <3>2. CASE a # b
      <4>1. atomClusters'[a] = atomClusters[a]
            /\ (atomClusters[a] # NoCluster => Structure(a)' = Structure(a))
        BY <2>1, <3>2, StructureType DEF Structure
      <4>2. QED
        BY <2>2, <4>1 DEF Consistent, SettledSound
    <3>3. QED
      BY <3>1, <3>2
  <2>5. ASSUME NEW a \in Atom, a < seed' PROVE AlreadyProcessed(a)'
    <3>1. AlreadyProcessed(a)
      BY <2>2, <2>5 DEF SettledSound
    <3>2. QED
      BY <2>1, <2>2, <2>3, <3>1 DEF AlreadyProcessed
  <2>6. atomClusters'[seed'] # NoCluster
    <3>1. atomClusters[seed] # NoCluster /\ seed \in Atom
      BY <2>2 DEF SettledSound, TypeOK
    <3>2. QED
      BY <2>1, <2>2, <2>3, <3>1
  <2>7. QED
    BY <2>2, <2>4, <2>5, <2>6 DEF SettledSound
<1>6. CASE CloseCluster
  <2>1. PICK t \in Tm :
            clusters' = [clusters EXCEPT ![Growing] =
                            [@ EXCEPT !.symmetryTransformation = t, !.orientation = Inv(t)]]
    BY <1>6, GroupAxioms DEF CloseCluster, PreferredTransformations
  <2>2. \A c \in DOMAIN clusters : clusters'[c].structure = clusters[c].structure
    <3>1. \A c \in DOMAIN clusters : clusters[c] \in Cluster
      BY DEF TypeOK
    <3>2. QED
      BY <2>1, <3>1 DEF Cluster
  <2>3. /\ UNCHANGED <<input, structureTypes, atomClusters>>
        /\ seed' = seed + 1 /\ pc' = "seeds" /\ pc = "visit"
    BY <1>6 DEF CloseCluster, NextSeed
  <2>4. ASSUME NEW a \in Atom PROVE Consistent(a)'
    <3>1. atomClusters[a] # NoCluster => Structure(a)' = Structure(a)
      BY <2>2, <2>3, StructureType DEF Structure
    <3>2. QED
      BY <2>3, <3>1 DEF Consistent, SettledSound
  <2>5. ASSUME NEW a \in Atom, a < seed' PROVE AlreadyProcessed(a)'
    <3>1. a < seed \/ a = seed
      BY <1>0, <2>3, <2>5
    <3>2. QED
      BY <2>3, <3>1 DEF AlreadyProcessed, SettledSound
  <2>6. QED
    BY <2>3, <2>4, <2>5 DEF SettledSound
<1>7. CASE ReorientAtomsToAlign
  BY <1>7 DEF ReorientAtomsToAlign, SettledSound, Consistent, Structure, AlreadyProcessed
<1>8. QED
  BY <1>1, <1>2, <1>3, <1>4, <1>5, <1>6, <1>7 DEF Next

\* Once the loop is through, every atom is settled.
LEMMA SettledInEnd == TypeOK /\ SettledSound => EveryAtomSettled
<1> SUFFICES ASSUME TypeOK, SettledSound, pc = "done", NEW a \in Atom
             PROVE  IF structureTypes[a] = Other
                    THEN /\ atomClusters[a] = NoCluster
                         /\ input.type[a] # Other => input.allowed[a] = {}
                    ELSE /\ atomClusters[a] # NoCluster
                         /\ structureTypes[a] = Structure(a)
  BY DEF EveryAtomSettled
<1>1. a < seed
  BY GrowthAssumption DEF SettledSound, TypeOK, Atom
<1>2. AlreadyProcessed(a) /\ Consistent(a)
  BY <1>1 DEF SettledSound
<1>3. QED
  BY <1>2, StructureType DEF AlreadyProcessed, Consistent

----------------------------------------------------------------------------
(* Orientations and symmetries turn together                               *)

\* Where a product is the identity, a factor is the inverse of the other.
LEMMA SelfInverse ==
    ASSUME NEW t \in Tm, Mul(t, t) = Id
    PROVE  Inv(t) = t
<1>1. Mul(Mul(Inv(t), t), t) = Mul(Inv(t), Mul(t, t))
  BY GroupAxioms
<1>2. QED
  BY <1>1, GroupAxioms

\* The orientation of a cluster is the inverse of its transformation.
Oriented ==
    \A c \in DOMAIN clusters :
        clusters[c].orientation = Inv(clusters[c].symmetryTransformation)

LEMMA OrientedStep == TypeOK /\ WorklistSound /\ Oriented /\ [Next]_vars => Oriented'
<1> SUFFICES ASSUME TypeOK, WorklistSound, Oriented, [Next]_vars PROVE Oriented'
  OBVIOUS
<1>1. CASE StartCluster
  <2> DEFINE new == [structure |-> structureTypes[seed], atomCount |-> 1,
                     symmetryTransformation |-> Id, orientation |-> Id]
  <2>1. Inv(Id) = Id
    BY SelfInverse, GroupAxioms
  <2>2. clusters \in Seq(Cluster) /\ clusters' = Append(clusters, new)
        /\ new.orientation = Inv(new.symmetryTransformation)
    BY <1>1, <2>1 DEF StartCluster, TypeOK
  <2> HIDE DEF new
  <2>3. QED
    BY <2>2 DEF Oriented
<1>2. CASE Assign
  <2>1. /\ clusters \in Seq(Cluster) /\ Growing \in DOMAIN clusters
        /\ clusters' = [clusters EXCEPT ![Growing].atomCount = @ + 1]
    BY <1>2, AssignEffect DEF Assign, TypeOK
  <2>2. \A c \in DOMAIN clusters : clusters[c] \in Cluster
    BY <2>1
  <2>3. \A c \in DOMAIN clusters :
           /\ clusters'[c].orientation = clusters[c].orientation
           /\ clusters'[c].symmetryTransformation = clusters[c].symmetryTransformation
    BY <2>1, <2>2 DEF Cluster
  <2>4. QED
    BY <2>1, <2>3 DEF Oriented
<1>3. CASE CloseCluster
  <2>1. PICK t \in Tm :
            clusters' = [clusters EXCEPT ![Growing] =
                            [@ EXCEPT !.symmetryTransformation = t, !.orientation = Inv(t)]]
    BY <1>3, GroupAxioms DEF CloseCluster, PreferredTransformations
  <2>2. \A c \in DOMAIN clusters : clusters[c] \in Cluster
    BY DEF TypeOK
  <2>3. QED
    BY <2>1, <2>2 DEF Oriented, Cluster
<1>4. CASE UNCHANGED clusters
  BY <1>4 DEF Oriented
<1>5. QED
  BY <1>1, <1>2, <1>3, <1>4
     DEF Next, SkipSeed, RejectSeed, VisitNext, LeaveOut, EndNeighbors,
         ReorientAtomsToAlign, vars

\* What a transformation that is its own inverse does to orientation and
\* symmetry cancels.
LEMMA FramesStep ==
    ASSUME TypeOK, Oriented, [Next]_vars, pc # "done", pc' = "done",
           NEW a \in Atom, atomClusters[a] # NoCluster,
           Mul(Transformation(a), Transformation(a)) = Id
    PROVE  Mul(clusters[atomClusters[a]].orientation, atomSymmetry'[a]) = atomSymmetry[a]
<1> DEFINE t == Transformation(a)
           s == atomSymmetry[a]
<1>1. ReorientAtomsToAlign
  BY DEF Next, SkipSeed, RejectSeed, StartCluster, VisitNext, Assign, LeaveOut,
         EndNeighbors, CloseCluster, vars
<1>2. s \in Tm /\ s # NoSymmetry
  BY GrowthAssumption DEF TypeOK, NoSymmetry
<1>3. /\ atomClusters[a] \in DOMAIN clusters /\ t \in Tm
      /\ clusters[atomClusters[a]].orientation = Inv(t)
  BY StructureType DEF Oriented, Transformation, Cluster
<1>4. atomSymmetry'[a] = Mul(Inv(t), s)
  BY <1>1, <1>2 DEF ReorientAtomsToAlign, SymmetryInverseProduct
<1> HIDE DEF s, t
<1>5. Inv(t) = t
  BY <1>3, SelfInverse DEF t
<1>6. Mul(t, Mul(t, s)) = Mul(Mul(t, t), s)
  BY <1>2, <1>3, GroupAxioms
<1>7. Mul(t, Mul(t, s)) = s
  BY <1>2, <1>6, GroupAxioms DEF t
<1>8. QED
  BY <1>3, <1>4, <1>5, <1>7 DEF s

----------------------------------------------------------------------------
(* The order in which a cluster grows *)

Earlier(i, n, j, m) == i < j \/ (i = j /\ n < m)

\* Atom order[k] of cluster c, which has m atoms, was found in slot[k] of atom
\* order[from[k]].  The first atom is the least.  Atoms are found in the order of
\* atoms and slots that lead to them, and one with a full mask by the first
\* bond there is.
Discovered(c, m, order, from, slot) ==
    /\ order \in [1 .. m -> Members(c)]
    /\ \A a \in Members(c) : \E k \in 1 .. m : order[k] = a
    /\ \A k, l \in 1 .. m : order[k] = order[l] => k = l
    /\ \A a \in Members(c) : order[1] <= a
    /\ from \in [2 .. m -> 1 .. m] /\ slot \in [2 .. m -> Nat]
    /\ \A k \in 2 .. m : from[k] < k /\ Carries(order[from[k]], slot[k], order[k])
    /\ \A k, l \in 2 .. m : k < l => Earlier(from[k], slot[k], from[l], slot[l])
    /\ \A k \in 2 .. m : input.allowed[order[k]] = Tm =>
          \A i \in 1 .. m : \A n \in DOMAIN input.neighbors[order[i]] :
             Earlier(i, n, from[k], slot[k]) /\ Neighbor(order[i], n) = order[k]
             => input.bond[order[i]][n] = NoOverlap

\* The first v atoms were visited, the others are queued.
Visiting(v, m, order, from, slot) ==
    /\ v \in 0 .. m
    /\ order[1] = seed
    /\ Len(atomsToVisit) = m - v
    /\ \A i \in 1 .. m - v : atomsToVisit[i] = order[v + i]
    /\ pc = "neighbors" => v # 0 /\ current = order[v]
    /\ \A k \in 2 .. m : /\ from[k] <= v
                         /\ pc = "neighbors" /\ from[k] = v => slot[k] < neighborIndex

GrownIn(c, m, order, from, slot) ==
    /\ Discovered(c, m, order, from, slot)
    /\ c = Growing /\ pc \in {"visit", "neighbors"} =>
          \E v \in 0 .. m : Visiting(v, m, order, from, slot)

Grown(c) == \E m \in Nat \ {0} : \E order, from, slot : GrownIn(c, m, order, from, slot)

OrderSound == \A c \in DOMAIN clusters : Grown(c)

\* The order of a cluster is about its atoms and the bonds between them.
LEMMA DiscoveredStays ==
    ASSUME NEW c, NEW m \in Nat \ {0}, NEW order, NEW from, NEW slot,
           Discovered(c, m, order, from, slot),
           input' = input, Members(c)' = Members(c),
           \A a, b \in Members(c) : \A n : Carries(a, n, b) => Carries(a, n, b)'
    PROVE  Discovered(c, m, order, from, slot)'
<1>1. \A k \in 2 .. m : from[k] \in 1 .. m /\ k \in 1 .. m
  BY DEF Discovered
<1>2. \A k \in 2 .. m : Carries(order[from[k]], slot[k], order[k])'
  BY <1>1 DEF Discovered
<1>3. \A a, n : Neighbor(a, n)' = Neighbor(a, n)
  BY DEF Neighbor
<1>4. /\ order \in [1 .. m -> Members(c)']
      /\ \A a \in Members(c)' : (\E k \in 1 .. m : order[k] = a) /\ order[1] <= a
  BY DEF Discovered
<1>5. \A k, l \in 1 .. m : order[k] = order[l] => k = l
  BY DEF Discovered
<1>6. /\ from \in [2 .. m -> 1 .. m] /\ slot \in [2 .. m -> Nat]
      /\ \A k, l \in 2 .. m : k < l => Earlier(from[k], slot[k], from[l], slot[l])
      /\ \A k \in 2 .. m : from[k] < k
  BY DEF Discovered
<1>7. \A k \in 2 .. m : input'.allowed[order[k]] = Tm =>
          \A i \in 1 .. m : \A n \in DOMAIN input'.neighbors[order[i]] :
             Earlier(i, n, from[k], slot[k]) /\ Neighbor(order[i], n)' = order[k]
             => input'.bond[order[i]][n] = NoOverlap
  BY <1>3 DEF Discovered
<1>8. QED
  BY <1>2, <1>4, <1>5, <1>6, <1>7 DEF Discovered

\* A finished cluster keeps its order while its atoms and their symmetries stay.
LEMMA GrownStays ==
    ASSUME NEW c, Grown(c), input' = input, Members(c)' = Members(c),
           \A a, b \in Members(c) : \A n : Carries(a, n, b) => Carries(a, n, b)',
           ~(c = Growing /\ pc \in {"visit", "neighbors"})'
    PROVE  Grown(c)'
<1>m. PICK m \in Nat \ {0} : \E order, from, slot : GrownIn(c, m, order, from, slot)
  BY DEF Grown
<1>1. PICK order, from, slot : Discovered(c, m, order, from, slot)
  BY <1>m DEF GrownIn
<1>2. Discovered(c, m, order, from, slot)'
  BY <1>1, DiscoveredStays
<1>3. QED
  BY <1>2 DEF Grown, GrownIn

\* A step that assigns no atom and no symmetry keeps what there is, if it keeps
\* the place in the growing cluster's order.
LEMMA GrowingStays ==
    ASSUME NEW c, Grown(c), UNCHANGED <<input, atomClusters, atomSymmetry>>,
           \A m \in Nat \ {0} : \A order, from, slot : \A v \in 0 .. m :
               Discovered(c, m, order, from, slot) /\ Visiting(v, m, order, from, slot)
               => \E u \in 0 .. m : Visiting(u, m, order, from, slot)',
           (c = Growing /\ pc \in {"visit", "neighbors"})'
              => c = Growing /\ pc \in {"visit", "neighbors"}
    PROVE  Grown(c)'
<1>m. PICK m \in Nat \ {0} : \E order, from, slot : GrownIn(c, m, order, from, slot)
  BY DEF Grown
<1>1. PICK order, from, slot :
        /\ Discovered(c, m, order, from, slot)
        /\ c = Growing /\ pc \in {"visit", "neighbors"} =>
              \E v \in 0 .. m : Visiting(v, m, order, from, slot)
  BY <1>m DEF GrownIn
<1>2. /\ Members(c)' = Members(c)
      /\ \A a, b \in Members(c) : \A n : Carries(a, n, b) => Carries(a, n, b)'
  BY DEF Members, Carries, Neighbor, CarriedAlong
<1>3. Discovered(c, m, order, from, slot)'
  BY <1>1, <1>2, DiscoveredStays
<1>4. (c = Growing /\ pc \in {"visit", "neighbors"})' =>
        \E u \in 0 .. m : Visiting(u, m, order, from, slot)'
  BY <1>1
<1>5. QED
  BY <1>3, <1>4 DEF Grown, GrownIn

\* Reorientation keeps what bonds carry within a cluster.
LEMMA ReorientedCarries ==
    ASSUME TypeOK, ReorientAtomsToAlign, NEW c \in DOMAIN clusters,
           NEW a \in Members(c), NEW b \in Members(c), NEW n, Carries(a, n, b)
    PROVE  Carries(a, n, b)'
<1> DEFINE t == clusters[c].symmetryTransformation
<1>1. c # NoCluster /\ clusters[c] \in Cluster
  BY DEF TypeOK, NoCluster
<1>2. t \in Tm
  BY <1>1 DEF Cluster
<1>3. ASSUME NEW d \in Members(c)
      PROVE  /\ d \in Atom /\ atomSymmetry[d] \in Tm
             /\ atomSymmetry'[d] = SymmetryInverseProduct(atomSymmetry[d], t)
  <2>1. d \in Atom /\ atomClusters[d] = c
    BY DEF Members
  <2>2. atomSymmetry[d] \in Tm /\ atomSymmetry[d] # NoSymmetry
    BY <1>1, <2>1, GrowthAssumption DEF TypeOK, NoSymmetry
  <2>3. QED
    BY <1>1, <2>1, <2>2 DEF ReorientAtomsToAlign, Transformation
<1> HIDE DEF t
<1>4. n \in DOMAIN input.neighbors[a] /\ input.bond[a][n] \in Tm
  BY <1>3, NeighborType DEF Carries
<1>5. atomSymmetry[b] = Mul(atomSymmetry[a], input.bond[a][n])
  BY DEF Carries, CarriedAlong
<1>6. atomSymmetry'[b] = Mul(atomSymmetry'[a], input.bond[a][n])
  BY <1>2, <1>3, <1>4, <1>5, TurnedAlike
<1>7. input' = input
  BY DEF ReorientAtomsToAlign
<1>8. QED
  BY <1>6, <1>7 DEF Carries, CarriedAlong, Neighbor

\* A slot of a visited atom that Exhaustive answered has no bond to an atom
\* that is free, of the cluster's type, and has a full mask.
LEMMA TriedWithoutBond ==
    ASSUME TypeOK, SlotSound, Exhaustive, pc # "done",
           NEW a \in Atom, NEW n \in Tried(a), NEW b \in Atom, b = Neighbor(a, n),
           atomClusters[b] = NoCluster, structureTypes[b] = Structure(a),
           input.allowed[b] = Tm
    PROVE  input.bond[a][n] = NoOverlap
<1>1. atomClusters[a] # NoCluster /\ atomClusters[a] \in DOMAIN clusters
  BY TriedSlots
<1>2. ~Continues(a, n)
  BY <1>1 DEF Exhaustive, NoCluster
<1>3. b # a
  BY <1>1
<1>4. n \in DOMAIN input.neighbors[a] /\ input.bond[a][n] \in Tm \cup {NoOverlap}
  BY TriedInDomain, NeighborType
<1>5. input.bond[a][n] \in Tm => CarriedAlong(a, n) \in Tm
  BY <1>1, GroupAxioms DEF TypeOK, CarriedAlong
<1>6. AllowedSymmetries(a, b) = Tm
  BY DEF AllowedSymmetries
<1>7. QED
  BY <1>2, <1>3, <1>4, <1>5, <1>6 DEF Continues

----------------------------------------------------------------------------
LEMMA Appended ==
    ASSUME NEW S, NEW s \in Seq(S), NEW b \in S, NEW n \in Nat, Len(s) = n
    PROVE  /\ Len(Append(s, b)) = n + 1 /\ Append(s, b)[n + 1] = b
           /\ \A i \in 1 .. n : Append(s, b)[i] = s[i]
OBVIOUS

\* A new cluster has its seed alone.
LEMMA StartGrown ==
    ASSUME TypeOK, StartCluster, NEW c, c = Len(clusters) + 1
    PROVE  Grown(c)'
<1>1. /\ seed \in Atom /\ c = Growing' /\ seed' = seed /\ input' = input
      /\ atomsToVisit' = <<seed>> /\ pc' = "visit"
  BY StartEffect DEF StartCluster, Growing
<1>2. \A a \in Atom : atomClusters'[a] = c <=> a = seed
  BY StartEffect DEF TypeOK
<1>3. Members(c)' = {seed}
  BY <1>1, <1>2, StartEffect DEF Members
<1>4. PICK order, none : order = [k \in 1 .. 1 |-> seed] /\ none = [k \in 2 .. 1 |-> 0]
  OBVIOUS
<1>5. order[1] = seed /\ \A k \in 1 .. 1 : order[k] = seed
  BY <1>4
<1>6. none \in [2 .. 1 -> 1 .. 1] /\ none \in [2 .. 1 -> Nat] /\ \A k \in 2 .. 1 : FALSE
  BY <1>4
<1>7. order \in [1 .. 1 -> {seed}]
  BY <1>4
<1>8. seed <= seed
  BY <1>1 DEF Atom
<1>9. Discovered(c, 1, order, none, none)'
  BY <1>3, <1>5, <1>6, <1>7, <1>8 DEF Discovered
<1>10. Visiting(0, 1, order, none, none)'
  BY <1>1, <1>5, <1>6 DEF Visiting
<1>11. 0 \in 0 .. 1 /\ 1 \in Nat \ {0}
  OBVIOUS
<1>12. QED
  BY <1>9, <1>10, <1>11 DEF Grown, GrownIn

\* An atom that is assigned comes last in the order of its cluster.
LEMMA AssignGrown ==
    ASSUME TypeOK, WorklistSound, SlotSound, Exhaustive, SettledSound, Assign,
           Grown(Growing)
    PROVE  Grown(Growing)'
<1>0. PICK b, e, q, c : /\ b = Neighbor(current, neighborIndex) /\ e = current
                        /\ q = neighborIndex /\ c = Growing
  OBVIOUS
<1>1. /\ b \in Atom /\ b # e /\ atomClusters[b] = NoCluster
      /\ e \in Atom /\ atomClusters[e] = c /\ c \in DOMAIN clusters
      /\ q \in DOMAIN input.neighbors[e] /\ input.bond[e][q] # NoOverlap
      /\ Len(clusters') = Len(clusters)
      /\ atomClusters'[b] = c /\ atomSymmetry'[b] = CarriedAlong(e, q)
      /\ \A a \in Atom : a # b => /\ atomClusters'[a] = atomClusters[a]
                                 /\ atomSymmetry'[a] = atomSymmetry[a]
  BY <1>0, AssignEffect
<1>2. /\ UNCHANGED <<input, structureTypes, pc, seed, current>> /\ pc = "neighbors"
      /\ atomsToVisit' = Append(atomsToVisit, b) /\ neighborIndex' = q + 1
      /\ structureTypes[b] = Structure(e) /\ q \in Nat \ {0} /\ atomsToVisit \in Seq(Atom)
  BY <1>0 DEF Assign, Continues, TypeOK
<1>m. PICK m \in Nat \ {0} : \E order, from, slot : GrownIn(c, m, order, from, slot)
  BY <1>0, <1>2 DEF Grown, GrownIn
<1>3. PICK order, from, slot :
        /\ Discovered(c, m, order, from, slot)
        /\ \E v \in 0 .. m : Visiting(v, m, order, from, slot)
  BY <1>0, <1>2, <1>m DEF GrownIn
<1>4. PICK v \in 0 .. m : Visiting(v, m, order, from, slot)
  BY <1>3
<1>5. c = Growing' /\ c # NoCluster /\ Growing' = Growing
  BY <1>0, <1>1 DEF Growing, TypeOK, NoCluster
<1>6. Members(c)' = Members(c) \cup {b} /\ b \notin Members(c) /\ Members(c) \subseteq Atom
  BY <1>1, <1>5 DEF Members
<1>7. v \in 1 .. m /\ e = order[v]
  BY <1>0, <1>2, <1>4 DEF Visiting
<1>8. \A k \in 1 .. m : order[k] \in Members(c) /\ order[k] \in Atom /\ order[k] # b
  BY <1>3, <1>6 DEF Discovered
<1>d. PICK order2, from2, slot2 :
        /\ order2 = [k \in 1 .. m + 1 |-> IF k = m + 1 THEN b ELSE order[k]]
        /\ from2 = [k \in 2 .. m + 1 |-> IF k = m + 1 THEN v ELSE from[k]]
        /\ slot2 = [k \in 2 .. m + 1 |-> IF k = m + 1 THEN q ELSE slot[k]]
  OBVIOUS
<1>9. /\ order2 \in [1 .. m + 1 -> Members(c)']
      /\ \A k \in 1 .. m : order2[k] = order[k]
      /\ order2[m + 1] = b
  <2>1. \A k \in 1 .. m + 1 : order2[k] \in Members(c)'
    BY <1>d, <1>6, <1>8
  <2>2. QED
    BY <1>d, <2>1
<1>10. /\ from2 \in [2 .. m + 1 -> 1 .. m + 1] /\ slot2 \in [2 .. m + 1 -> Nat]
       /\ \A k \in 2 .. m : from2[k] = from[k] /\ slot2[k] = slot[k]
       /\ from2[m + 1] = v /\ slot2[m + 1] = q
  <2>1. \A k \in 2 .. m : from[k] \in 1 .. m + 1 /\ slot[k] \in Nat
    BY <1>3 DEF Discovered
  <2>2. v \in 1 .. m + 1
    BY <1>7
  <2>3. \A k \in 2 .. m + 1 : from2[k] \in 1 .. m + 1 /\ slot2[k] \in Nat
    BY <1>d, <1>2, <2>1, <2>2
  <2>4. QED
    BY <1>d, <1>7, <2>3
<1>11. \A k \in 2 .. m : from[k] \in 1 .. m /\ slot[k] \in Nat /\ from[k] < k
  BY <1>3 DEF Discovered
<1>12. \A k \in 1 .. m + 1 : k = m + 1 \/ k \in 1 .. m
  OBVIOUS
<1>13. \A k \in 2 .. m + 1 : k = m + 1 \/ k \in 2 .. m
  OBVIOUS
<1>14. \A a \in Members(c)' : \E k \in 1 .. m + 1 : order2[k] = a
  <2> SUFFICES ASSUME NEW a \in Members(c)' PROVE \E k \in 1 .. m + 1 : order2[k] = a
    OBVIOUS
  <2>1. CASE a = b
    BY <1>9, <2>1
  <2>2. CASE a # b
    <3>1. PICK k \in 1 .. m : order[k] = a
      BY <1>3, <1>6, <2>2 DEF Discovered
    <3>2. QED
      BY <1>9, <3>1
  <2>3. QED
    BY <2>1, <2>2
<1>15. \A k, l \in 1 .. m + 1 : order2[k] = order2[l] => k = l
  BY <1>3, <1>8, <1>9, <1>12 DEF Discovered
<1>16. \A a \in Members(c)' : order2[1] <= a
  <2>1. order2[1] = seed /\ seed \in Atom
    BY <1>2, <1>4, <1>9 DEF Visiting, TypeOK
  <2>2. ~(b < seed)
    <3>1. structureTypes[b] # Other
      BY <1>1, <1>2, <1>5, StructureType
    <3>2. QED
      BY <1>1, <3>1 DEF SettledSound, AlreadyProcessed
  <2>3. seed <= b
    BY <1>1, <2>1, <2>2 DEF Atom
  <2>4. \A a \in Members(c) : order[1] <= a
    BY <1>3 DEF Discovered
  <2>5. QED
    BY <1>4, <1>6, <2>1, <2>3, <2>4 DEF Visiting
<1>17. \A k \in 2 .. m + 1 : from2[k] < k /\ Carries(order2[from2[k]], slot2[k], order2[k])'
  <2> SUFFICES ASSUME NEW k \in 2 .. m + 1
               PROVE  from2[k] < k /\ Carries(order2[from2[k]], slot2[k], order2[k])'
    OBVIOUS
  <2>1. CASE k = m + 1
    <3>1. order2[from2[k]] = e /\ slot2[k] = q /\ order2[k] = b
      BY <1>7, <1>9, <1>10, <2>1
    <3>2. Carries(e, q, b)'
      BY <1>0, <1>1, <1>2 DEF Carries, CarriedAlong, Neighbor
    <3>3. QED
      BY <1>7, <1>10, <2>1, <3>1, <3>2
  <2>2. CASE k \in 2 .. m
    <3>1. /\ order2[from2[k]] = order[from[k]] /\ slot2[k] = slot[k] /\ order2[k] = order[k]
          /\ from2[k] = from[k]
      BY <1>9, <1>10, <1>11, <2>2
    <3>2. Carries(order[from[k]], slot[k], order[k])
      BY <1>3, <2>2 DEF Discovered
    <3>3. order[from[k]] \in Atom \ {b} /\ order[k] \in Atom \ {b}
      BY <1>8, <1>11, <2>2
    <3>4. Carries(order[from[k]], slot[k], order[k])'
      BY <1>1, <1>2, <3>2, <3>3 DEF Carries, CarriedAlong, Neighbor
    <3>5. QED
      BY <1>11, <2>2, <3>1, <3>4
  <2>3. QED
    BY <1>13, <2>1, <2>2
<1>18. \A k, l \in 2 .. m + 1 : k < l => Earlier(from2[k], slot2[k], from2[l], slot2[l])
  <2> SUFFICES ASSUME NEW k \in 2 .. m + 1, NEW l \in 2 .. m + 1, k < l
               PROVE  Earlier(from2[k], slot2[k], from2[l], slot2[l])
    OBVIOUS
  <2>1. k \in 2 .. m
    OBVIOUS
  <2>2. CASE l = m + 1
    <3>1. from[k] <= v /\ (from[k] = v => slot[k] < q)
      BY <1>0, <1>2, <1>4, <2>1 DEF Visiting
    <3>2. from[k] < v \/ from[k] = v
      BY <1>7, <1>11, <2>1, <3>1
    <3>3. QED
      BY <1>10, <2>1, <2>2, <3>1, <3>2 DEF Earlier
  <2>3. CASE l \in 2 .. m
    BY <1>3, <1>10, <2>1, <2>3 DEF Discovered
  <2>4. QED
    BY <1>13, <2>2, <2>3
<1>19. \A k \in 2 .. m + 1 : input.allowed[order2[k]] = Tm =>
          \A i \in 1 .. m + 1 : \A n \in DOMAIN input.neighbors[order2[i]] :
             Earlier(i, n, from2[k], slot2[k]) /\ Neighbor(order2[i], n) = order2[k]
             => input.bond[order2[i]][n] = NoOverlap
  <2> SUFFICES ASSUME NEW k \in 2 .. m + 1, input.allowed[order2[k]] = Tm,
                      NEW i \in 1 .. m + 1, NEW n \in DOMAIN input.neighbors[order2[i]],
                      Earlier(i, n, from2[k], slot2[k]), Neighbor(order2[i], n) = order2[k]
               PROVE  input.bond[order2[i]][n] = NoOverlap
    OBVIOUS
  <2>1. i \in 1 .. m /\ order2[i] = order[i]
    <3>1. from2[k] \in 1 .. m
      BY <1>7, <1>10, <1>11, <1>13
    <3>2. i <= from2[k]
      BY <3>1 DEF Earlier
    <3>3. QED
      BY <1>9, <3>1, <3>2
  <2>2. CASE k \in 2 .. m
    <3>1. order2[k] = order[k] /\ from2[k] = from[k] /\ slot2[k] = slot[k]
      BY <1>9, <1>10, <2>2
    <3>2. QED
      BY <1>3, <2>1, <2>2, <3>1 DEF Discovered
  <2>3. CASE k = m + 1
    <3>1. order2[k] = b /\ (i < v \/ (i = v /\ n < q))
      BY <1>9, <1>10, <2>3 DEF Earlier
    <3>2. order[i] \in Atom /\ atomClusters[order[i]] = c
      BY <1>8, <2>1 DEF Members
    <3>3. \A j \in DOMAIN atomsToVisit : atomsToVisit[j] # order[i]
      <4> SUFFICES ASSUME NEW j \in DOMAIN atomsToVisit PROVE atomsToVisit[j] # order[i]
        OBVIOUS
      <4>1. j \in 1 .. m - v /\ atomsToVisit[j] = order[v + j]
        BY <1>2, <1>4 DEF Visiting
      <4>2. v + j \in 1 .. m /\ v + j # i
        BY <1>7, <2>1, <3>1, <4>1
      <4>3. QED
        BY <1>3, <2>1, <4>1, <4>2 DEF Discovered
    <3>4. n \in Tried(order[i])
      <4>1. input.neighbors[order[i]] \in Seq(Atom) /\ n \in DOMAIN input.neighbors[order[i]]
        BY <2>1, <3>2, InputType
      <4>2. CASE order[i] = e
        <5>1. i = v
          BY <1>3, <1>7, <2>1, <4>2 DEF Discovered
        <5>2. n \in 1 .. q - 1
          BY <1>2, <1>7, <3>1, <4>1, <5>1
        <5>3. QED
          BY <1>0, <1>2, <1>5, <3>2, <3>3, <4>2, <5>2 DEF Tried
      <4>3. CASE order[i] # e
        BY <1>0, <1>5, <3>2, <3>3, <4>1, <4>3 DEF Tried
      <4>4. QED
        BY <4>2, <4>3
    <3>5. structureTypes[b] = Structure(order[i])
      BY <1>1, <1>2, <3>2 DEF Structure
    <3>6. QED
      BY <1>1, <1>2, <2>1, <3>1, <3>2, <3>4, <3>5, TriedWithoutBond
  <2>4. QED
    BY <1>13, <2>2, <2>3
<1>20. Discovered(c, m + 1, order2, from2, slot2)'
  <2>1. \A a, n : Neighbor(a, n)' = Neighbor(a, n)
    BY <1>2 DEF Neighbor
  <2>2. (\A k \in 2 .. m + 1 : input.allowed[order2[k]] = Tm =>
           \A i \in 1 .. m + 1 : \A n \in DOMAIN input.neighbors[order2[i]] :
              Earlier(i, n, from2[k], slot2[k]) /\ Neighbor(order2[i], n) = order2[k]
              => input.bond[order2[i]][n] = NoOverlap)'
    BY <1>2, <1>19, <2>1
  <2>3. QED
    BY <1>9, <1>10, <1>14, <1>15, <1>16, <1>17, <1>18, <2>2 DEF Discovered
<1>21. Visiting(v, m + 1, order2, from2, slot2)'
  <2>1. v \in 0 .. m + 1 /\ order2[1] = seed' /\ current' = order2[v]
    BY <1>0, <1>2, <1>4, <1>7, <1>9 DEF Visiting
  <2>0. Len(atomsToVisit) = m - v /\ \A i \in 1 .. m - v : atomsToVisit[i] = order[v + i]
    BY <1>4 DEF Visiting
  <2>2. /\ Len(atomsToVisit') = m + 1 - v
        /\ atomsToVisit'[m + 1 - v] = b
        /\ \A i \in 1 .. m - v : atomsToVisit'[i] = atomsToVisit[i]
    <3>1. m - v \in Nat
      BY <1>7
    <3>2. (m - v) + 1 = m + 1 - v
      BY <1>7
    <3> DEFINE n == m - v
    <3>3. n \in Nat /\ n + 1 = m + 1 - v /\ Len(atomsToVisit) = n
      BY <2>0, <3>1, <3>2
    <3> HIDE DEF n
    <3>4. /\ Len(atomsToVisit') = n + 1 /\ atomsToVisit'[n + 1] = b
          /\ \A i \in 1 .. n : atomsToVisit'[i] = atomsToVisit[i]
      BY <1>1, <1>2, <3>3, Appended
    <3>5. QED
      BY <3>3, <3>4 DEF n
  <2>3. ASSUME NEW i \in 1 .. m + 1 - v PROVE atomsToVisit'[i] = order2[v + i]
    <3>1. CASE i = m + 1 - v
      BY <1>7, <1>9, <2>2, <3>1
    <3>2. CASE i # m + 1 - v
      <4>1. i \in 1 .. m - v /\ v + i \in 1 .. m
        BY <1>7, <3>2
      <4>2. QED
        BY <1>9, <2>0, <2>2, <4>1
    <3>3. QED
      BY <3>1, <3>2
  <2>4. ASSUME NEW k \in 2 .. m + 1 PROVE from2[k] <= v /\ (from2[k] = v => slot2[k] < q + 1)
    <3>1. CASE k = m + 1
      BY <1>2, <1>7, <1>10, <3>1
    <3>2. CASE k \in 2 .. m
      <4>1. from[k] <= v /\ (from[k] = v => slot[k] < q)
        BY <1>0, <1>2, <1>4, <3>2 DEF Visiting
      <4>2. QED
        BY <1>2, <1>10, <1>11, <3>2, <4>1
    <3>3. QED
      BY <1>13, <3>1, <3>2
  <2>5. v # 0 /\ pc' = "neighbors" /\ neighborIndex' = q + 1
    BY <1>2, <1>7
  <2>6. \A i \in 1 .. (m + 1) - v : atomsToVisit'[i] = order2[v + i]
    BY <2>3
  <2>7. Len(atomsToVisit') = (m + 1) - v
    BY <2>2
  <2>8. \A k \in 2 .. m + 1 : /\ from2[k] <= v
                              /\ pc' = "neighbors" /\ from2[k] = v => slot2[k] < neighborIndex'
    BY <2>4, <2>5
  <2>9. pc' = "neighbors" => v # 0 /\ current' = order2[v]
    BY <2>1, <2>5
  <2> HIDE DEF Visiting
  <2>10. QED
    BY <2>1, <2>6, <2>7, <2>8, <2>9 DEF Visiting
<1>22. m + 1 \in Nat \ {0} /\ v \in 0 .. m + 1
  OBVIOUS
<1>23. Grown(c)'
  BY <1>20, <1>21, <1>22 DEF Grown, GrownIn
<1>24. QED
  BY <1>0, <1>5, <1>23

----------------------------------------------------------------------------
\* The order is kept where nothing grows, and by a step from atom to atom.
LEMMA OrderStep ==
    TypeOK /\ WorklistSound /\ SlotSound /\ Exhaustive /\ SettledSound /\ OrderSound /\ [Next]_vars
    => OrderSound'
<1> SUFFICES ASSUME TypeOK, WorklistSound, SlotSound, Exhaustive, SettledSound, OrderSound,
                    [Next]_vars, NEW c \in DOMAIN clusters'
             PROVE  Grown(c)'
  BY DEF OrderSound
<1>1. CASE SkipSeed \/ RejectSeed
  <2>1. /\ UNCHANGED <<input, atomClusters, atomSymmetry, clusters, pc>> /\ pc = "seeds"
    BY <1>1 DEF SkipSeed, RejectSeed
  <2>2. Grown(c) /\ Members(c)' = Members(c)
        /\ \A a, b \in Members(c) : \A n : Carries(a, n, b) => Carries(a, n, b)'
    BY <2>1 DEF OrderSound, Members, Carries, CarriedAlong, Neighbor
  <2>3. QED
    BY <2>1, <2>2, GrownStays
<1>2. CASE StartCluster
  <2>1. CASE c = Len(clusters) + 1
    BY <1>2, <2>1, StartGrown
  <2>2. CASE c # Len(clusters) + 1
    <3>1. c \in DOMAIN clusters /\ c # Growing' /\ input' = input /\ c \in 1 .. Len(clusters)
      BY <1>2, <2>2, StartEffect DEF StartCluster, Growing
    <3>2. c # 0 /\ c # Len(clusters) + 1
      BY <2>2, <3>1
    <3>3. Members(c)' = Members(c) /\ seed \notin Members(c)
      BY <1>2, <3>2, StartEffect DEF Members, NoCluster
    <3>4. \A a \in Members(c) : atomSymmetry'[a] = atomSymmetry[a]
      BY <1>2, <3>3, StartEffect DEF Members
    <3>5. \A a, b \in Members(c) : \A n : Carries(a, n, b) => Carries(a, n, b)'
      BY <3>1, <3>4 DEF Carries, CarriedAlong, Neighbor
    <3>6. QED
      BY <3>1, <3>3, <3>5, GrownStays DEF OrderSound
  <2>3. QED
    BY <2>1, <2>2
<1>3. CASE VisitNext
  <2>1. /\ UNCHANGED <<input, atomClusters, atomSymmetry, clusters, seed>>
        /\ pc = "visit" /\ pc' = "neighbors" /\ current' = Head(atomsToVisit)
        /\ atomsToVisit' = Tail(atomsToVisit) /\ atomsToVisit # <<>> /\ atomsToVisit \in Seq(Atom)
    BY <1>3 DEF VisitNext, TypeOK
  <2>2. ASSUME NEW m \in Nat \ {0}, NEW order, NEW from, NEW slot, NEW v \in 0 .. m,
               Discovered(c, m, order, from, slot), Visiting(v, m, order, from, slot)
        PROVE  Visiting(v + 1, m, order, from, slot)' /\ v + 1 \in 0 .. m
    <3>1. /\ Len(atomsToVisit) = m - v /\ order[1] = seed
          /\ \A i \in 1 .. m - v : atomsToVisit[i] = order[v + i]
          /\ \A k \in 2 .. m : from[k] <= v
      BY <2>2 DEF Visiting
    <3>2. Len(atomsToVisit) # 0
      BY <2>1
    <3>3. v + 1 \in 1 .. m
      BY <3>1, <3>2
    <3>4. /\ Len(atomsToVisit') = Len(atomsToVisit) - 1
          /\ \A i \in 1 .. Len(atomsToVisit) - 1 : atomsToVisit'[i] = atomsToVisit[i + 1]
          /\ current' = atomsToVisit[1]
      BY <2>1
    <3>5. Len(atomsToVisit') = m - (v + 1) /\ current' = order[v + 1]
      BY <3>1, <3>3, <3>4
    <3>6. \A i \in 1 .. m - (v + 1) : atomsToVisit'[i] = order[(v + 1) + i]
      <4> SUFFICES ASSUME NEW i \in 1 .. m - (v + 1) PROVE atomsToVisit'[i] = order[(v + 1) + i]
        OBVIOUS
      <4>1. i + 1 \in 1 .. m - v /\ i \in 1 .. (m - v) - 1
        BY <3>3
      <4>2. atomsToVisit'[i] = atomsToVisit[i + 1]
        BY <3>1, <3>4, <4>1
      <4>3. v + (i + 1) = (v + 1) + i
        OBVIOUS
      <4>4. QED
        BY <3>1, <4>1, <4>2, <4>3
    <3>7. \A k \in 2 .. m : from[k] \in Nat
      BY <2>2 DEF Discovered
    <3>8. \A k \in 2 .. m : from[k] <= v + 1 /\ from[k] # v + 1
      BY <3>1, <3>7
    <3>9. v + 1 \in 0 .. m /\ v + 1 # 0
      BY <3>3
    <3>10. QED
      BY <2>1, <3>1, <3>5, <3>6, <3>8, <3>9 DEF Visiting
  <2>3. \A m \in Nat \ {0} : \A order, from, slot : \A v \in 0 .. m :
            Discovered(c, m, order, from, slot) /\ Visiting(v, m, order, from, slot)
            => \E u \in 0 .. m : Visiting(u, m, order, from, slot)'
    BY <2>2
  <2>4. (c = Growing /\ pc \in {"visit", "neighbors"})' => c = Growing /\ pc \in {"visit", "neighbors"}
    BY <2>1 DEF Growing
  <2>5. Grown(c)
    BY <2>1 DEF OrderSound
  <2>6. QED
    BY <2>1, <2>3, <2>4, <2>5, GrowingStays
<1>4. CASE Assign
  <2>1. DOMAIN clusters' = DOMAIN clusters /\ Growing' = Growing /\ input' = input
        /\ Growing \in DOMAIN clusters /\ Growing \in Nat /\ Growing # 0
    BY <1>4, AssignEffect DEF Growing, Assign, TypeOK
  <2>2. CASE c = Growing
    <3>1. Grown(Growing)'
      BY <1>4, <2>1, AssignGrown DEF OrderSound
    <3>2. QED
      BY <2>1, <2>2, <3>1
  <2>3. CASE c # Growing
    <3>1. PICK b : b = Neighbor(current, neighborIndex)
      OBVIOUS
    <3>2. /\ b \in Atom /\ atomClusters[b] = 0 /\ atomClusters'[b] = Growing
          /\ \A a \in Atom : a # b => /\ atomClusters'[a] = atomClusters[a]
                                     /\ atomSymmetry'[a] = atomSymmetry[a]
      BY <1>4, <3>1, AssignEffect DEF NoCluster
    <3>3. c # 0
      BY <2>1 DEF TypeOK
    <3>4. Members(c)' = Members(c) /\ b \notin Members(c)
      BY <2>3, <3>2, <3>3 DEF Members
    <3>5. \A a \in Members(c) : atomSymmetry'[a] = atomSymmetry[a]
      BY <3>2, <3>4 DEF Members
    <3>6. \A a, d \in Members(c) : \A n : Carries(a, n, d) => Carries(a, n, d)'
      BY <2>1, <3>5 DEF Carries, CarriedAlong, Neighbor
    <3>7. QED
      BY <2>1, <2>3, <3>4, <3>6, GrownStays DEF OrderSound
  <2>4. QED
    BY <2>2, <2>3
<1>5. CASE LeaveOut
  <2>1. /\ UNCHANGED <<input, atomClusters, atomSymmetry, clusters, pc, seed, atomsToVisit, current>>
        /\ neighborIndex' = neighborIndex + 1 /\ neighborIndex \in Nat
    BY <1>5 DEF LeaveOut, TypeOK
  <2>2. ASSUME NEW m \in Nat \ {0}, NEW order, NEW from, NEW slot, NEW v \in 0 .. m,
               Discovered(c, m, order, from, slot), Visiting(v, m, order, from, slot)
        PROVE  Visiting(v, m, order, from, slot)'
    <3>1. \A k \in 2 .. m : slot[k] \in Nat
      BY <2>2 DEF Discovered
    <3>2. \A k \in 2 .. m : slot[k] < neighborIndex => slot[k] < neighborIndex'
      BY <2>1, <3>1
    <3>3. QED
      BY <2>1, <2>2, <3>2 DEF Visiting
  <2>3. \A m \in Nat \ {0} : \A order, from, slot : \A v \in 0 .. m :
            Discovered(c, m, order, from, slot) /\ Visiting(v, m, order, from, slot)
            => \E u \in 0 .. m : Visiting(u, m, order, from, slot)'
    BY <2>2
  <2>4. (c = Growing /\ pc \in {"visit", "neighbors"})' => c = Growing /\ pc \in {"visit", "neighbors"}
    BY <2>1 DEF Growing
  <2>5. Grown(c)
    BY <2>1 DEF OrderSound
  <2>6. QED
    BY <2>1, <2>3, <2>4, <2>5, GrowingStays
<1>6. CASE EndNeighbors \/ UNCHANGED vars
  <2>1. /\ UNCHANGED <<input, atomClusters, atomSymmetry, clusters, seed, atomsToVisit,
                       current, neighborIndex>>
        /\ pc' = pc \/ (pc = "neighbors" /\ pc' = "visit")
    BY <1>6 DEF EndNeighbors, vars
  <2>2. ASSUME NEW m \in Nat \ {0}, NEW order, NEW from, NEW slot, NEW v \in 0 .. m,
               Discovered(c, m, order, from, slot), Visiting(v, m, order, from, slot)
        PROVE  Visiting(v, m, order, from, slot)'
    BY <2>1, <2>2 DEF Visiting
  <2>3. \A m \in Nat \ {0} : \A order, from, slot : \A v \in 0 .. m :
            Discovered(c, m, order, from, slot) /\ Visiting(v, m, order, from, slot)
            => \E u \in 0 .. m : Visiting(u, m, order, from, slot)'
    BY <2>2
  <2>4. (c = Growing /\ pc \in {"visit", "neighbors"})' => c = Growing /\ pc \in {"visit", "neighbors"}
    BY <2>1 DEF Growing
  <2>5. Grown(c)
    BY <2>1 DEF OrderSound
  <2>6. QED
    BY <2>1, <2>3, <2>4, <2>5, GrowingStays
<1>7. CASE CloseCluster
  <2>1. /\ UNCHANGED <<input, atomClusters, atomSymmetry>> /\ pc' = "seeds"
        /\ DOMAIN clusters' = DOMAIN clusters
    BY <1>7 DEF CloseCluster, TypeOK
  <2>2. Grown(c) /\ Members(c)' = Members(c)
        /\ \A a, b \in Members(c) : \A n : Carries(a, n, b) => Carries(a, n, b)'
    BY <2>1 DEF OrderSound, Members, Carries, CarriedAlong, Neighbor
  <2>3. QED
    BY <2>1, <2>2, GrownStays
<1>8. CASE ReorientAtomsToAlign
  <2>1. /\ UNCHANGED <<input, atomClusters, clusters>> /\ pc' = "done"
    BY <1>8 DEF ReorientAtomsToAlign
  <2>2. Grown(c) /\ Members(c)' = Members(c) /\ c \in DOMAIN clusters
    BY <2>1 DEF OrderSound, Members
  <2>3. \A a, b \in Members(c) : \A n : Carries(a, n, b) => Carries(a, n, b)'
    BY <1>8, <2>2, ReorientedCarries
  <2>4. QED
    BY <2>1, <2>2, <2>3, GrownStays
<1>9. QED
  BY <1>1, <1>2, <1>3, <1>4, <1>5, <1>6, <1>7, <1>8 DEF Next

----------------------------------------------------------------------------
(* The theorems                                                            *)

\* The inductive invariant, on top of TypeOK.
IInv ==
    /\ WorklistSound /\ SlotSound
    /\ AtomCountExact /\ SymmetryCarried /\ Exhaustive
    /\ SettledSound /\ Oriented /\ OrderSound

\* It holds before the first seed, when there are no clusters.
LEMMA InvariantInit == Init => IInv
<1> SUFFICES ASSUME Init PROVE IInv
  OBVIOUS
<1>1. clusters = <<>> /\ DOMAIN clusters = {} /\ pc = "seeds" /\ atomsToVisit = <<>>
  BY DEF Init
<1>2. \A a \in Atom : Tried(a) = {}
  BY DEF Init, Tried
<1>3. SettledSound
  BY GrowthAssumption DEF Init, SettledSound, Consistent, Input, Atom, NoCluster
<1>4. QED
  BY <1>1, <1>2, <1>3
     DEF IInv, WorklistSound, SlotSound, AtomCountExact, SymmetryCarried, Exhaustive,
         Oriented, OrderSound

\* Every step keeps it.
LEMMA InvariantStep == TypeOK /\ IInv /\ [Next]_vars => IInv'
BY WorklistStep, SlotStep, AtomCountStep, SymmetryCarriedStep, ExhaustiveStep,
   SettledStep, OrientedStep, OrderStep DEF IInv

\* Labels, counts, symmetries and the worklist of the growth agree in every
\* reachable state.
THEOREM InvariantCorrect == Spec => []IInv
<1>1. Spec => []TypeOK
  BY TypeCorrect
<1>2. QED
  BY <1>1, InvariantInit, InvariantStep, PTL DEF Spec

\* The atom count of a cluster is the number of its atoms, at every moment.
THEOREM AtomCountCorrect == Spec => []AtomCountExact
<1>1. IInv => AtomCountExact
  BY DEF IInv
<1>2. QED
  BY <1>1, InvariantCorrect, PTL

\* Every cluster is one crystal, connected by bonds that carry its symmetries,
\* during growth and after reorientation.
THEOREM SymmetryCarriedCorrect == Spec => []SymmetryCarried
<1>1. IInv => SymmetryCarried
  BY DEF IInv
<1>2. QED
  BY <1>1, InvariantCorrect, PTL

\* An atom that continues a neighbour's crystal is in the neighbour's cluster
\* or in an earlier one.
THEOREM ExhaustiveCorrect == Spec => []Exhaustive
<1>1. IInv => Exhaustive
  BY DEF IInv
<1>2. QED
  BY <1>1, InvariantCorrect, PTL

\* No step relabels an atom that is in a cluster.
THEOREM AssignedOnceCorrect == Spec => AssignedOnce
<1> DEFINE Once == \A a \in Atom : atomClusters[a] # NoCluster =>
                      /\ atomClusters'[a] = atomClusters[a]
                      /\ structureTypes'[a] = structureTypes[a]
                      /\ pc' # "done" => atomSymmetry'[a] = atomSymmetry[a]
<1>1. TypeOK /\ WorklistSound /\ [Next]_vars => [Once]_vars
  <2> SUFFICES ASSUME TypeOK, WorklistSound, Next PROVE Once
    OBVIOUS
  <2>1. CASE StartCluster
    BY <2>1, StartEffect DEF StartCluster
  <2>2. CASE Assign
    BY <2>2, AssignEffect DEF Assign
  <2>3. CASE RejectSeed
    BY <2>3 DEF RejectSeed, WithoutStructure, AlreadyProcessed, TypeOK
  <2>4. QED
    BY <2>1, <2>2, <2>3
       DEF Next, SkipSeed, VisitNext, LeaveOut, EndNeighbors, CloseCluster,
           ReorientAtomsToAlign
<1> HIDE DEF Once
<1>2. Spec => [][Once]_vars
  <2>1. IInv => WorklistSound
    BY DEF IInv
  <2>2. QED
    BY <1>1, <2>1, TypeCorrect, InvariantCorrect, PTL DEF Spec
<1>3. QED
  BY <1>2 DEF Once, AssignedOnce

\* In the end every atom is in a cluster of its own type, or has lost its type
\* because no symmetry was allowed for it.
THEOREM EveryAtomSettledCorrect == Spec => []EveryAtomSettled
<1>1. TypeOK /\ IInv => EveryAtomSettled
  BY SettledInEnd DEF IInv
<1>2. QED
  BY <1>1, TypeCorrect, InvariantCorrect, PTL

\* Reorientation by a transformation that is its own inverse keeps the frame of
\* every atom.
LEMMA FramesAction ==
    ASSUME TypeOK, IInv, [Next]_vars, pc # "done", pc' = "done",
           NEW a \in Atom, atomClusters[a] # NoCluster,
           Mul(Transformation(a), Transformation(a)) = Id
    PROVE  Mul(clusters[atomClusters[a]].orientation, atomSymmetry'[a]) = atomSymmetry[a]
BY FramesStep DEF IInv

THEOREM FramesKeptCorrect == Spec => FramesKept
<1> DEFINE Frames == pc # "done" /\ pc' = "done" =>
                \A a \in Atom :
                    (atomClusters[a] # NoCluster /\ Mul(Transformation(a), Transformation(a)) = Id)
                    => Mul(clusters[atomClusters[a]].orientation, atomSymmetry'[a]) = atomSymmetry[a]
<1>1. TypeOK /\ IInv /\ [Next]_vars => [Frames]_vars
  BY FramesAction
<1> HIDE DEF Frames
<1>2. Spec => [][Frames]_vars
  BY <1>1, TypeCorrect, InvariantCorrect, PTL DEF Spec
<1>3. QED
  BY <1>2 DEF Frames, FramesKept

----------------------------------------------------------------------------
(* The slots of a set in order *)

\* Sequence s lists the set S in order.
Lists(s, S, p) ==
    /\ s \in [1 .. p -> S]
    /\ \A n \in S : \E i \in 1 .. p : s[i] = n
    /\ \A i, j \in 1 .. p : i < j => s[i] < s[j]

\* It is as long as there are elements.
LEMMA ListsCardinality ==
    ASSUME NEW S, S \subseteq Nat, NEW p \in Nat, NEW s, Lists(s, S, p)
    PROVE  Cardinality(S) = p
<1>1. ASSUME NEW i \in 1 .. p, NEW j \in 1 .. p, s[i] = s[j] PROVE i = j
  <2>1. s[i] \in Nat /\ s[j] \in Nat
    BY DEF Lists
  <2>2. ~(s[i] < s[j]) /\ ~(s[j] < s[i])
    BY <1>1, <2>1
  <2>3. ~(i < j) /\ ~(j < i)
    BY <2>2 DEF Lists
  <2>4. QED
    BY <2>3
<1>2. s \in Bijection(1 .. p, S)
  BY <1>1 DEF Lists, Bijection, Injection, Surjection, IsInjective
<1>3. QED
  BY <1>2, FS_CountingElements DEF ExistsBijection

\* There is one such sequence.
LEMMA ListsUnique ==
    ASSUME NEW S, S \subseteq Nat, NEW p \in Nat, NEW s, NEW t,
           Lists(s, S, p), Lists(t, S, p)
    PROVE  s = t
<1> DEFINE D == {i \in 1 .. p : s[i] # t[i]}
<1>1. SUFFICES ASSUME D # {} PROVE FALSE
  BY DEF Lists
<1>2. PICK i \in D : \A k \in D : i <= k
  <2>1. D \subseteq Nat
    OBVIOUS
  <2> HIDE DEF D
  <2>2. QED
    BY <1>1, <2>1, LeastNatural
<1>3. /\ i \in 1 .. p /\ s[i] # t[i] /\ s[i] \in S /\ t[i] \in S
      /\ s[i] \in Nat /\ t[i] \in Nat
      /\ \A k \in 1 .. p : k < i => s[k] = t[k]
  <2>1. i \in 1 .. p /\ s[i] # t[i]
    OBVIOUS
  <2>2. s[i] \in S /\ t[i] \in S
    BY <2>1 DEF Lists
  <2>3. ASSUME NEW k \in 1 .. p, k < i PROVE s[k] = t[k]
    <3>1. k \notin D
      BY <1>2, <2>1, <2>3
    <3>2. QED
      BY <3>1
  <2> HIDE DEF D
  <2>4. QED
    BY <2>1, <2>2, <2>3
<1>4. ASSUME NEW f, NEW g, Lists(f, S, p), Lists(g, S, p), f[i] < g[i],
             \A k \in 1 .. p : k < i => f[k] = g[k]
      PROVE  FALSE
  <2>1. f[i] \in S /\ f[i] \in Nat
    BY <1>3, <1>4 DEF Lists
  <2>2. PICK j \in 1 .. p : g[j] = f[i]
    BY <1>4, <2>1 DEF Lists
  <2>3. g[i] \in Nat /\ f[j] \in Nat /\ g[j] \in Nat
    BY <1>3, <1>4 DEF Lists
  <2>4. CASE j < i
    <3>1. f[j] < f[i] /\ f[j] = g[j]
      BY <1>3, <1>4, <2>4 DEF Lists
    <3>2. QED
      BY <2>1, <2>2, <3>1
  <2>5. CASE i <= j
    <3>1. i = j \/ g[i] < g[j]
      BY <1>3, <1>4, <2>5 DEF Lists
    <3>2. QED
      BY <1>4, <2>1, <2>2, <2>3, <3>1
  <2>6. QED
    BY <1>3, <2>4, <2>5
<1>5. s[i] < t[i] \/ t[i] < s[i]
  BY <1>3
<1>6. QED
  BY <1>3, <1>4, <1>5

\* The slots of a neighbour list can be put in order.
LEMMA ListsExist ==
    ASSUME NEW m \in Nat, NEW S \in SUBSET (1 .. m)
    PROVE  \E p \in Nat : \E s : Lists(s, S, p)
<1> DEFINE Good(n) == \E p \in Nat : \E s : Lists(s, S \cap (1 .. n), p)
           G == {n \in Nat : Good(n)}
<1>1. 0 \in G
  <2>1. Lists(<<>>, S \cap (1 .. 0), 0)
    BY DEF Lists
  <2>2. QED
    BY <2>1
<1>2. ASSUME NEW n \in 1 .. m, n - 1 \in G PROVE n \in G
  <2>p. PICK p \in Nat : \E s : Lists(s, S \cap (1 .. n - 1), p)
    BY <1>2
  <2>1. PICK s : Lists(s, S \cap (1 .. n - 1), p)
    BY <2>p
  <2>2. CASE n \notin S
    <3>1. S \cap (1 .. n) = S \cap (1 .. n - 1)
      BY <2>2
    <3>2. Lists(s, S \cap (1 .. n), p)
      BY <2>1, <3>1
    <3>3. QED
      BY <3>2
  <2>3. CASE n \in S
    <3> DEFINE t == [i \in 1 .. p + 1 |-> IF i = p + 1 THEN n ELSE s[i]]
    <3>1. \A i \in 1 .. p : t[i] = s[i] /\ s[i] \in S \cap (1 .. n - 1)
      BY <2>1 DEF Lists
    <3>2. t \in [1 .. p + 1 -> S \cap (1 .. n)] /\ t[p + 1] = n
      <4>1. t[p + 1] = n /\ n \in S \cap (1 .. n)
        BY <2>3
      <4>2. \A i \in 1 .. p + 1 : i = p + 1 \/ i \in 1 .. p
        OBVIOUS
      <4>3. \A i \in 1 .. p + 1 : t[i] \in S \cap (1 .. n)
        BY <3>1, <4>1, <4>2
      <4>4. t = [i \in 1 .. p + 1 |-> t[i]]
        OBVIOUS
      <4> HIDE DEF t
      <4>5. QED
        BY <4>1, <4>3, <4>4
    <3> HIDE DEF t
    <3>3. ASSUME NEW k \in S \cap (1 .. n) PROVE \E i \in 1 .. p + 1 : t[i] = k
      <4>1. CASE k = n
        BY <3>2, <4>1
      <4>2. CASE k # n
        <5>1. k \in S \cap (1 .. n - 1)
          BY <4>2
        <5>2. PICK i \in 1 .. p : s[i] = k
          BY <2>1, <5>1 DEF Lists
        <5>3. QED
          BY <3>1, <5>2
      <4>3. QED
        BY <4>1, <4>2
    <3>4. ASSUME NEW i \in 1 .. p + 1, NEW j \in 1 .. p + 1, i < j PROVE t[i] < t[j]
      <4>1. i \in 1 .. p /\ t[i] = s[i] /\ s[i] \in 1 .. n - 1
        BY <3>1, <3>4
      <4>2. CASE j = p + 1
        BY <3>2, <4>1, <4>2
      <4>3. CASE j # p + 1
        <5>1. j \in 1 .. p /\ t[j] = s[j]
          BY <3>1, <4>3
        <5>2. QED
          BY <2>1, <3>4, <4>1, <5>1 DEF Lists
      <4>4. QED
        BY <4>2, <4>3
    <3>5. Lists(t, S \cap (1 .. n), p + 1)
      BY <3>2, <3>3, <3>4 DEF Lists
    <3>6. QED
      BY <3>5
  <2>4. QED
    BY <2>2, <2>3
<1>3. m \in G
  <2>1. m \in 0 .. m
    OBVIOUS
  <2> HIDE DEF G
  <2>2. QED
    BY <1>1, <1>2, <2>1, Induction
<1>4. S \cap (1 .. m) = S
  OBVIOUS
<1>5. QED
  BY <1>3, <1>4

\* InOrder lists the slots of a set, and is what lists them.
LEMMA InOrderLists ==
    ASSUME NEW m \in Nat, NEW S \in SUBSET (1 .. m)
    PROVE  /\ Cardinality(S) \in Nat
           /\ Lists(InOrder(S), S, Cardinality(S))
<1>p. PICK p \in Nat : \E t : Lists(t, S, p)
  BY ListsExist
<1>1. PICK t : Lists(t, S, p)
  BY <1>p
<1>2. Cardinality(S) = p
  <2>1. S \subseteq Nat
    OBVIOUS
  <2>2. QED
    BY <1>1, <2>1, ListsCardinality
<1> DEFINE Good(s) == /\ \A n \in S : \E i \in DOMAIN s : s[i] = n
                      /\ \A i, j \in DOMAIN s : i < j => s[i] < s[j]
<1>3. InOrder(S) = CHOOSE s \in [1 .. Cardinality(S) -> S] : Good(s)
  BY DEF InOrder
<1>4. t \in [1 .. Cardinality(S) -> S] /\ Good(t)
  BY <1>1, <1>2 DEF Lists
<1> HIDE DEF Good
<1>5. InOrder(S) \in [1 .. Cardinality(S) -> S] /\ Good(InOrder(S))
  BY <1>3, <1>4
<1>6. QED
  BY <1>2, <1>5 DEF Lists, Good

LEMMA InOrderIs ==
    ASSUME NEW m \in Nat, NEW S \in SUBSET (1 .. m), NEW p \in Nat, NEW t, Lists(t, S, p)
    PROVE  InOrder(S) = t
<1>1. S \subseteq Nat
  OBVIOUS
<1>2. Cardinality(S) = p
  BY <1>1, ListsCardinality
<1>3. QED
  BY <1>1, <1>2, InOrderLists, ListsUnique

----------------------------------------------------------------------------
(* Choosing symmetries anew: types *)

Chosen(a) == canonicalSymmetry[a] # NoSymmetry

ChoiceTypeOK ==
    /\ call \in {"none", "connected", "clusters"}
    /\ canonicalSymmetry \in [Atom -> Tm \cup {NoSymmetry}]
    /\ choiceSeed \in 1 .. NumAtoms + 1
    /\ choiceQueue \in Seq(Atom)
    /\ call = "none" => canonicalSymmetry = Unchosen /\ choiceQueue = <<>>
    /\ call = "connected" => pc = "seeds" /\ seed = 1
    /\ call = "clusters" => pc = "done"

\* What a choice reads stays as it is while the choice goes on.
LEMMA ChoiceFrame ==
    ASSUME UNCHANGED <<vars, call>>, NEW a
    PROVE  /\ Visited(a)' <=> Visited(a)
           /\ Permitted(a)' = Permitted(a)
           /\ InitialSymmetry(a)' = InitialSymmetry(a)
           /\ \A b : Together(a, b)' <=> Together(a, b)
           /\ \A n : Neighbor(a, n)' = Neighbor(a, n)
<1>1. /\ Visited(a)' <=> Visited(a)
      /\ \A b : Together(a, b)' <=> Together(a, b)
      /\ \A n : Neighbor(a, n)' = Neighbor(a, n)
  BY DEF vars, Visited, Together, Neighbor
<1>2. Permitted(a)' = Permitted(a)
  BY DEF vars, Permitted
<1>3. InitialSymmetry(a)' = InitialSymmetry(a)
  BY <1>2 DEF vars, InitialSymmetry
<1>4. QED
  BY <1>1, <1>2, <1>3

\* A mask always permits something, and an initial symmetry is permitted.
LEMMA InitialPermitted ==
    ASSUME TypeOK, NEW a \in Atom
    PROVE  /\ Permitted(a) \subseteq Tm
           /\ InitialSymmetry(a) \in Permitted(a)
<1>1. Permitted(a) \subseteq Tm /\ Permitted(a) # {}
  BY InputType, GroupAxioms DEF Permitted
<1>2. PICK m \in Permitted(a) : \A u \in Permitted(a) : m <= u
  BY <1>1, GrowthAssumption, LeastNatural
<1>3. (CHOOSE s \in Permitted(a) : \A u \in Permitted(a) : s <= u) \in Permitted(a)
  BY <1>2
<1>4. QED
  BY <1>1, <1>3 DEF InitialSymmetry

LEMMA NoSymmetryApart == NoSymmetry \notin Tm
BY GrowthAssumption DEF NoSymmetry

\* A slot that resolves leads to an atom without a symmetry, and implies one
\* that its mask permits.
LEMMA ResolvingType ==
    ASSUME TypeOK, NEW a \in Atom, NEW n \in ResolvingSlots(a)
    PROVE  /\ n \in DOMAIN input.neighbors[a] /\ Resolves(a, n)
           /\ Neighbor(a, n) \in Atom /\ Neighbor(a, n) # a
           /\ Implied(a, n) \in Tm /\ ~Chosen(Neighbor(a, n))
<1>1. n \in DOMAIN input.neighbors[a] /\ Resolves(a, n)
  BY DEF ResolvingSlots
<1>2. Neighbor(a, n) \in Atom
  BY <1>1, NeighborType
<1>3. QED
  BY <1>1, <1>2, InitialPermitted DEF Resolves, Chosen

\* The p neighbours in the slots s of atom a are queued.
Queued(a, p, s) ==
    /\ Lists(s, ResolvingSlots(a), p)
    /\ choiceQueue' = Tail(choiceQueue) \o [i \in 1 .. p |-> Neighbor(a, s[i])]

\* The head of the queue resolves neighbours that have no symmetry, each by one
\* slot, and these follow in the queue.
LEMMA ResolveEffect ==
    ASSUME TypeOK, ChoiceTypeOK, ResolveNeighbors, NEW a, a = Head(choiceQueue)
    PROVE  /\ a \in Atom
           /\ canonicalSymmetry' \in [Atom -> Tm \cup {NoSymmetry}]
           /\ \A n \in ResolvingSlots(a) : canonicalSymmetry'[Neighbor(a, n)] = Implied(a, n)
           /\ \A b \in Atom :
                 \/ canonicalSymmetry'[b] = canonicalSymmetry[b]
                 \/ ~Chosen(b) /\ \E n \in ResolvingSlots(a) : Neighbor(a, n) = b
           /\ \E p \in Nat : \E s : Queued(a, p, s)
<1> DEFINE R == ResolvingSlots(a)
           By(b) == CHOOSE n \in R : Neighbor(a, n) = b
<1>1. a \in Atom
  BY DEF ChoiceTypeOK, ResolveNeighbors
<1>2. canonicalSymmetry' =
         [b \in Atom |-> IF \E n \in R : Neighbor(a, n) = b THEN Implied(a, By(b))
                         ELSE canonicalSymmetry[b]]
  BY DEF ResolveNeighbors
<1>3. \A n \in R : n \in DOMAIN input.neighbors[a] /\ Resolves(a, n)
                   /\ Neighbor(a, n) \in Atom /\ Implied(a, n) \in Tm /\ ~Chosen(Neighbor(a, n))
  BY <1>1, ResolvingType
<1>4. \A b : (\E n \in R : Neighbor(a, n) = b) => By(b) \in R /\ Neighbor(a, By(b)) = b
  OBVIOUS
<1>5. input.neighbors[a] \in Seq(Atom)
  BY <1>1, InputType
<1>6. ASSUME NEW n \in R, NEW m \in R, Neighbor(a, n) = Neighbor(a, m) PROVE n = m
  <2>1. /\ n \in 1 .. Len(input.neighbors[a]) /\ m \in 1 .. Len(input.neighbors[a])
        /\ Resolves(a, n) /\ Resolves(a, m)
    BY <1>3, <1>5
  <2>2. n \notin 1 .. m - 1 /\ m \notin 1 .. n - 1
    BY <1>6, <2>1 DEF ResolvingSlots
  <2>3. QED
    BY <1>5, <2>1, <2>2
<1>7. \A n \in R : canonicalSymmetry'[Neighbor(a, n)] = Implied(a, n)
  <2> SUFFICES ASSUME NEW n \in R
               PROVE  canonicalSymmetry'[Neighbor(a, n)] = Implied(a, n)
    OBVIOUS
  <2>1. By(Neighbor(a, n)) = n
    BY <1>4, <1>6
  <2> HIDE DEF By, R
  <2>2. QED
    BY <1>2, <1>3, <2>1
<1>8. canonicalSymmetry' \in [Atom -> Tm \cup {NoSymmetry}]
  <2> HIDE DEF By, R
  <2>1. QED
    BY <1>2, <1>3, <1>4 DEF ChoiceTypeOK
<1>9. \A b \in Atom : \/ canonicalSymmetry'[b] = canonicalSymmetry[b]
                      \/ ~Chosen(b) /\ \E n \in R : Neighbor(a, n) = b
  <2> HIDE DEF By, R
  <2>1. QED
    BY <1>2, <1>3
<1>10. \E p \in Nat : \E s : Queued(a, p, s)
  <2>1. R \in SUBSET (1 .. Len(input.neighbors[a])) /\ Len(input.neighbors[a]) \in Nat
    BY <1>3, <1>5
  <2>2. Cardinality(R) \in Nat /\ Lists(InOrder(R), R, Cardinality(R))
    BY <2>1, InOrderLists
  <2>3. DOMAIN InOrder(R) = 1 .. Cardinality(R)
    BY <2>2 DEF Lists
  <2>4. choiceQueue' = Tail(choiceQueue) \o [i \in DOMAIN InOrder(R) |-> Neighbor(a, InOrder(R)[i])]
    BY DEF ResolveNeighbors
  <2>5. Queued(a, Cardinality(R), InOrder(R))
    BY <2>2, <2>3, <2>4 DEF Queued
  <2> HIDE DEF R
  <2>6. QED
    BY <2>2, <2>5
<1> HIDE DEF R
<1>11. QED
  BY <1>1, <1>7, <1>8, <1>9, <1>10 DEF R

----------------------------------------------------------------------------
\* A symmetry an atom would be written with is one of the group.
LEMMA CanonicalType ==
    ASSUME TypeOK, ChoiceTypeOK, NEW a \in Atom
    PROVE  Canonical(a) \in Tm \cup {NoSymmetry}
BY InitialPermitted DEF Canonical, TypeOK, ChoiceTypeOK

\* Choices do not change what the build works on, but for the symmetries a
\* choice among connected atoms leaves before the first seed.
LEMMA BuildFrame ==
    ASSUME ChoiceTypeOK, [ChoiceNext]_choiceVars
    PROVE  \/ [Next]_vars
           \/ /\ WriteSymmetries /\ call = "connected"
<1>1. CASE Build
  BY <1>1 DEF Build
<1>2. CASE \E c \in {"connected", "clusters"} : BeginChoice(c)
  BY <1>2 DEF BeginChoice
<1>3. CASE NextChoiceSeed \/ ResolveNeighbors
  BY <1>3 DEF NextChoiceSeed, ResolveNeighbors
<1>4. CASE WriteSymmetries
  <2>1. CASE call = "connected"
    BY <1>4, <2>1
  <2>2. CASE call # "connected"
    BY <1>4, <2>2 DEF WriteSymmetries, vars
  <2>3. QED
    BY <2>1, <2>2
<1>5. CASE UNCHANGED choiceVars
  BY <1>5 DEF choiceVars
<1>6. QED
  BY <1>1, <1>2, <1>3, <1>4, <1>5 DEF ChoiceNext, ChoiceStep

\* The types of a choice hold when the build starts, and every step keeps them.
LEMMA ChoiceTypeInit == ChoiceInit => ChoiceTypeOK
BY GrowthAssumption DEF ChoiceInit, ChoiceTypeOK, Unchosen

LEMMA ChoiceTypeStep ==
    TypeOK /\ ChoiceTypeOK /\ [ChoiceNext]_choiceVars => ChoiceTypeOK'
<1> SUFFICES ASSUME TypeOK, ChoiceTypeOK, [ChoiceNext]_choiceVars PROVE ChoiceTypeOK'
  OBVIOUS
<1>1. CASE Build
  BY <1>1 DEF Build, choice, ChoiceTypeOK, Unchosen
<1>2. ASSUME NEW c \in {"connected", "clusters"}, BeginChoice(c) PROVE ChoiceTypeOK'
  BY <1>2, GrowthAssumption DEF BeginChoice, vars, ChoiceTypeOK
<1>3. CASE NextChoiceSeed
  <2>1. /\ UNCHANGED <<vars, call>> /\ call # "none"
        /\ choiceSeed \in Atom /\ choiceSeed' = choiceSeed + 1
    BY <1>3 DEF NextChoiceSeed
  <2>2. choiceSeed' \in 1 .. NumAtoms + 1
    BY <2>1, GrowthAssumption DEF Atom
  <2>3. InitialSymmetry(choiceSeed) \in Tm
    BY <2>1, InitialPermitted
  <2>4. canonicalSymmetry' \in [Atom -> Tm \cup {NoSymmetry}] /\ choiceQueue' \in Seq(Atom)
    <3>1. CASE IsSeed(choiceSeed)
      <4>1. /\ canonicalSymmetry' = [canonicalSymmetry EXCEPT ![choiceSeed] = InitialSymmetry(choiceSeed)]
            /\ choiceQueue' = <<choiceSeed>>
        BY <1>3, <3>1 DEF NextChoiceSeed
      <4>2. QED
        BY <2>1, <2>3, <4>1 DEF ChoiceTypeOK
    <3>2. CASE ~IsSeed(choiceSeed)
      BY <1>3, <3>2 DEF NextChoiceSeed, ChoiceTypeOK
    <3>3. QED
      BY <3>1, <3>2
  <2>5. QED
    BY <2>1, <2>2, <2>4 DEF ChoiceTypeOK, vars
<1>4. CASE ResolveNeighbors
  <2>0. PICK a : a = Head(choiceQueue)
    OBVIOUS
  <2>1. UNCHANGED <<vars, call, choiceSeed>> /\ choiceQueue # <<>> /\ call # "none"
    BY <1>4 DEF ResolveNeighbors, ChoiceTypeOK
  <2>2. a \in Atom /\ canonicalSymmetry' \in [Atom -> Tm \cup {NoSymmetry}]
    BY <1>4, <2>0, ResolveEffect
  <2>p. PICK p \in Nat : \E s : Queued(a, p, s)
    BY <1>4, <2>0, ResolveEffect
  <2>3. PICK s : Queued(a, p, s)
    BY <2>p
  <2>4. \A i \in 1 .. p : s[i] \in ResolvingSlots(a)
    BY <2>3 DEF Lists, Queued
  <2>5. \A i \in 1 .. p : Neighbor(a, s[i]) \in Atom
    BY <2>2, <2>4, ResolvingType
  <2>6. [i \in 1 .. p |-> Neighbor(a, s[i])] \in Seq(Atom)
    BY <2>5
  <2>7. Tail(choiceQueue) \in Seq(Atom)
    BY <2>1 DEF ChoiceTypeOK
  <2>8. choiceQueue' \in Seq(Atom)
    BY <2>3, <2>6, <2>7 DEF Queued
  <2>9. QED
    BY <2>1, <2>2, <2>8 DEF ChoiceTypeOK, vars
<1>5. CASE WriteSymmetries
  BY <1>5, NoSymmetryApart DEF WriteSymmetries, Finished, ChoiceTypeOK, Unchosen
<1>6. CASE UNCHANGED choiceVars
  BY <1>6 DEF choiceVars, choice, vars, ChoiceTypeOK, Unchosen
<1>7. QED
  BY <1>1, <1>2, <1>3, <1>4, <1>5, <1>6 DEF ChoiceNext, ChoiceStep

----------------------------------------------------------------------------
(* Symmetries are carried along bonds *)

\* A bond with the symmetries chosen leads into the set S.
LedInto(S) ==
    \E a \in Atom \ S, b \in S : \E n \in DOMAIN input.neighbors[a] :
        /\ Neighbor(a, n) = b /\ Chosen(a) /\ Visited(a) /\ Together(a, b)
        /\ input.bond[a][n] # NoOverlap
        /\ canonicalSymmetry[b] = Implied(a, n)

\* The atoms whose symmetry is not their initial one.
Derived == {a \in Atom : Chosen(a) /\ canonicalSymmetry[a] # InitialSymmetry(a)}

\* The atoms visited that have a symmetry.
Ready == {a \in Atom : Visited(a) /\ Chosen(a)}

\* Queued atoms have a symmetry, atoms the loop has passed have one, and what
\* is not initial was carried along a bond.
ChoiceSound ==
    /\ \A k \in DOMAIN choiceQueue : choiceQueue[k] \in Ready
    /\ call # "none" => \A a \in Atom : a < choiceSeed /\ Visited(a) => Chosen(a)
    /\ \A S \in SUBSET Derived : S # {} => LedInto(S)

\* A bond that leads into a set stays one while the symmetries chosen remain.
LEMMA LedIntoStays ==
    ASSUME UNCHANGED <<vars, call>>, NEW S, S \subseteq Derived, LedInto(S),
           \A a \in Atom : Chosen(a) => canonicalSymmetry'[a] = canonicalSymmetry[a]
    PROVE  LedInto(S)'
<1>0. PICK a \in Atom \ S, b \in S : \E n \in DOMAIN input.neighbors[a] :
        /\ Neighbor(a, n) = b /\ Chosen(a) /\ Visited(a) /\ Together(a, b)
        /\ input.bond[a][n] # NoOverlap
        /\ canonicalSymmetry[b] = Implied(a, n)
  BY DEF LedInto
<1>1. PICK n \in DOMAIN input.neighbors[a] :
        /\ Neighbor(a, n) = b /\ Chosen(a) /\ Visited(a) /\ Together(a, b)
        /\ input.bond[a][n] # NoOverlap
        /\ canonicalSymmetry[b] = Implied(a, n)
  BY <1>0
<1>2. /\ canonicalSymmetry'[a] = canonicalSymmetry[a] /\ canonicalSymmetry'[b] = canonicalSymmetry[b]
      /\ input' = input
  BY <1>1 DEF Derived, vars
<1>3. /\ Neighbor(a, n)' = b /\ Chosen(a)' /\ Visited(a)' /\ Together(a, b)'
      /\ canonicalSymmetry'[b] = Implied(a, n)'
  BY <1>1, <1>2, ChoiceFrame DEF Chosen, Implied
<1>4. QED
  BY <1>1, <1>2, <1>3 DEF LedInto

\* Nothing is chosen between two choices.
LEMMA UnchosenSound ==
    ASSUME canonicalSymmetry = Unchosen, choiceQueue = <<>>,
           call # "none" => choiceSeed = 1
    PROVE  ChoiceSound
<1>1. \A a \in Atom : ~Chosen(a) /\ ~(a < 1)
  BY GrowthAssumption DEF Chosen, Unchosen, Atom
<1>2. Derived = {}
  BY <1>1 DEF Derived
<1>3. QED
  BY <1>1, <1>2 DEF ChoiceSound

LEMMA ChoiceSoundStep ==
    TypeOK /\ ChoiceTypeOK /\ ChoiceSound /\ [ChoiceNext]_choiceVars => ChoiceSound'
<1> SUFFICES ASSUME TypeOK, ChoiceTypeOK, ChoiceSound, [ChoiceNext]_choiceVars
             PROVE  ChoiceSound'
  OBVIOUS
<1>1. CASE Build
  <2>1. /\ call' = "none" /\ canonicalSymmetry' = Unchosen' /\ choiceQueue' = <<>>
    BY <1>1 DEF Build, choice, ChoiceTypeOK, Unchosen
  <2>2. \A a \in Atom : ~Chosen(a)'
    BY <2>1 DEF Chosen, Unchosen
  <2>3. Derived' = {}
    BY <2>2 DEF Derived
  <2>4. QED
    BY <2>1, <2>3 DEF ChoiceSound
<1>2. ASSUME NEW c \in {"connected", "clusters"}, BeginChoice(c) PROVE ChoiceSound'
  <2>1. /\ choiceSeed' = 1 /\ canonicalSymmetry' = Unchosen' /\ choiceQueue' = <<>>
    BY <1>2 DEF BeginChoice, ChoiceTypeOK, Unchosen
  <2>2. \A a \in Atom : ~Chosen(a)' /\ ~(a < 1)
    BY <2>1, GrowthAssumption DEF Chosen, Unchosen, Atom
  <2>3. Derived' = {}
    BY <2>2 DEF Derived
  <2>4. QED
    BY <2>1, <2>2, <2>3 DEF ChoiceSound
<1>3. CASE NextChoiceSeed
  <2>1. /\ UNCHANGED <<vars, call>> /\ call # "none" /\ choiceQueue = <<>>
        /\ choiceSeed \in Atom /\ choiceSeed' = choiceSeed + 1
    BY <1>3 DEF NextChoiceSeed
  <2>2. \A a \in Atom : a < choiceSeed' => a < choiceSeed \/ a = choiceSeed
    BY <2>1, GrowthAssumption DEF Atom
  <2>3. CASE ~IsSeed(choiceSeed)
    <3>1. UNCHANGED <<canonicalSymmetry, choiceQueue>>
      BY <1>3, <2>3 DEF NextChoiceSeed
    <3>2. \A a : (Visited(a)' <=> Visited(a)) /\ (Chosen(a)' <=> Chosen(a))
      BY <2>1, <3>1, ChoiceFrame DEF Chosen
    <3>3. \A a \in Atom : a < choiceSeed' /\ Visited(a)' => Chosen(a)'
      BY <2>1, <2>2, <2>3, <3>2 DEF ChoiceSound, IsSeed, Chosen
    <3>4. Derived' = Derived
      BY <2>1, <3>1, ChoiceFrame DEF Derived, Chosen
    <3>5. ASSUME NEW S \in SUBSET Derived', S # {} PROVE LedInto(S)'
      <4>1. LedInto(S)
        BY <3>4, <3>5 DEF ChoiceSound
      <4>2. QED
        BY <2>1, <3>1, <3>4, <3>5, <4>1, LedIntoStays
    <3>6. \A k \in DOMAIN choiceQueue' : choiceQueue'[k] \in Ready'
      BY <2>1, <3>1
    <3>7. QED
      BY <3>3, <3>5, <3>6 DEF ChoiceSound
  <2>4. CASE IsSeed(choiceSeed)
    <3>0. PICK i : i = choiceSeed
      OBVIOUS
    <3>1. /\ canonicalSymmetry' = [canonicalSymmetry EXCEPT ![i] = InitialSymmetry(i)]
          /\ choiceQueue' = <<i>> /\ i \in Atom /\ Visited(i) /\ ~Chosen(i)
          /\ InitialSymmetry(i) \in Tm
      BY <1>3, <2>1, <2>4, <3>0, InitialPermitted DEF NextChoiceSeed, IsSeed, Chosen
    <3>2. /\ canonicalSymmetry'[i] = InitialSymmetry(i)
          /\ \A a \in Atom : a # i => canonicalSymmetry'[a] = canonicalSymmetry[a]
      BY <3>1 DEF ChoiceTypeOK
    <3>3. /\ Chosen(i)' /\ \A a \in Atom : Chosen(a) => Chosen(a)'
          /\ \A a : Visited(a)' <=> Visited(a)
      BY <2>1, <3>1, <3>2, NoSymmetryApart, ChoiceFrame DEF Chosen
    <3>4. \A a \in Atom : a < choiceSeed' /\ Visited(a)' => Chosen(a)'
      BY <2>1, <2>2, <3>0, <3>3 DEF ChoiceSound
    <3>5. Derived' \subseteq Derived
      BY <2>1, <3>2, ChoiceFrame DEF Derived, Chosen
    <3>6. ASSUME NEW S \in SUBSET Derived', S # {} PROVE LedInto(S)'
      <4>1. LedInto(S)
        BY <3>5, <3>6 DEF ChoiceSound
      <4>2. \A a \in Atom : Chosen(a) => canonicalSymmetry'[a] = canonicalSymmetry[a]
        BY <3>1, <3>2
      <4>3. QED
        BY <2>1, <3>5, <3>6, <4>1, <4>2, LedIntoStays
    <3>7. \A k \in DOMAIN choiceQueue' : choiceQueue'[k] \in Ready'
      BY <3>1, <3>3 DEF Ready
    <3>8. QED
      BY <3>4, <3>6, <3>7 DEF ChoiceSound
  <2>5. QED
    BY <2>3, <2>4
<1>4. CASE ResolveNeighbors
  <2>0. PICK a : a = Head(choiceQueue)
    OBVIOUS
  <2>1. UNCHANGED <<vars, call, choiceSeed>> /\ choiceQueue # <<>> /\ choiceQueue \in Seq(Atom)
    BY <1>4 DEF ResolveNeighbors, ChoiceTypeOK
  <2>2. /\ a \in Atom /\ canonicalSymmetry' \in [Atom -> Tm \cup {NoSymmetry}]
        /\ \A n \in ResolvingSlots(a) : canonicalSymmetry'[Neighbor(a, n)] = Implied(a, n)
        /\ \A b \in Atom :
                 \/ canonicalSymmetry'[b] = canonicalSymmetry[b]
                 \/ ~Chosen(b) /\ \E n \in ResolvingSlots(a) : Neighbor(a, n) = b
    BY <1>4, <2>0, ResolveEffect
  <2>p. PICK p \in Nat : \E s : Queued(a, p, s)
    BY <1>4, <2>0, ResolveEffect
  <2>3. PICK s : Queued(a, p, s)
    BY <2>p
  <2>4. Visited(a) /\ Chosen(a)
    <3>1. a = choiceQueue[1] /\ 1 \in DOMAIN choiceQueue
      BY <2>0, <2>1
    <3>2. QED
      BY <3>1 DEF ChoiceSound, Ready
  <2>5. \A b \in Atom : Chosen(b) => canonicalSymmetry'[b] = canonicalSymmetry[b] /\ Chosen(b)'
    BY <2>2 DEF Chosen
  <2>6. ASSUME NEW n \in ResolvingSlots(a)
        PROVE  /\ n \in DOMAIN input.neighbors[a]
               /\ Neighbor(a, n) \in Atom /\ ~Chosen(Neighbor(a, n)) /\ Neighbor(a, n) # a
               /\ Visited(Neighbor(a, n)) /\ Together(a, Neighbor(a, n))
               /\ input.bond[a][n] # NoOverlap /\ Implied(a, n) \in Tm
    <3>1. /\ n \in DOMAIN input.neighbors[a] /\ Resolves(a, n)
          /\ Neighbor(a, n) \in Atom /\ Neighbor(a, n) # a
          /\ Implied(a, n) \in Tm /\ ~Chosen(Neighbor(a, n))
      BY <2>2, ResolvingType
    <3>2. QED
      BY <2>4, <3>1 DEF Resolves, Visited, Together
  <2>7. \A b : Visited(b)' <=> Visited(b)
    BY <2>1, ChoiceFrame
  <2>8. ASSUME NEW n \in ResolvingSlots(a)
        PROVE  Neighbor(a, n) \in Ready'
    <3>1. PICK b \in Atom : b = Neighbor(a, n)
      BY <2>6
    <3>2. canonicalSymmetry'[b] \in Tm /\ Visited(b)'
      BY <2>2, <2>6, <2>7, <3>1
    <3>3. QED
      BY <3>1, <3>2, NoSymmetryApart DEF Ready, Chosen
  <2>9. \A k \in DOMAIN choiceQueue' : choiceQueue'[k] \in Ready'
    <3> SUFFICES ASSUME NEW k \in DOMAIN choiceQueue'
                 PROVE  choiceQueue'[k] \in Ready'
      OBVIOUS
    <3> DEFINE new == [i \in 1 .. p |-> Neighbor(a, s[i])]
    <3>1. \A i \in 1 .. p : s[i] \in ResolvingSlots(a) /\ new[i] = Neighbor(a, s[i])
      BY <2>3 DEF Lists, Queued
    <3>2. \A i \in 1 .. p : new[i] \in Atom /\ new[i] \in Ready'
      BY <2>6, <2>8, <3>1
    <3>3. new \in Seq(Atom) /\ DOMAIN new = 1 .. p /\ Len(new) = p
      BY <3>2
    <3>4. choiceQueue' = Tail(choiceQueue) \o new
      BY <2>3 DEF Queued
    <3> HIDE DEF new
    <3>5. \/ \E i \in DOMAIN choiceQueue : choiceQueue'[k] = choiceQueue[i]
          \/ \E i \in 1 .. p : choiceQueue'[k] = new[i]
      <4>1. Tail(choiceQueue) \in Seq(Atom) /\ Len(Tail(choiceQueue)) = Len(choiceQueue) - 1
            /\ \A i \in 1 .. Len(choiceQueue) - 1 : Tail(choiceQueue)[i] = choiceQueue[i + 1]
        BY <2>1
      <4>2. CASE k <= Len(choiceQueue) - 1
        <5>1. choiceQueue'[k] = choiceQueue[k + 1] /\ k + 1 \in DOMAIN choiceQueue
          BY <2>1, <3>3, <3>4, <4>1, <4>2
        <5>2. QED
          BY <5>1
      <4>3. CASE ~(k <= Len(choiceQueue) - 1)
        <5>1. choiceQueue'[k] = new[k - (Len(choiceQueue) - 1)] /\ k - (Len(choiceQueue) - 1) \in 1 .. p
          BY <2>1, <3>3, <3>4, <4>1, <4>3
        <5>2. QED
          BY <5>1
      <4>4. QED
        BY <4>2, <4>3
    <3>6. \A i \in DOMAIN choiceQueue : choiceQueue[i] \in Ready'
      BY <2>5, <2>7 DEF ChoiceSound, Ready
    <3>7. QED
      BY <3>2, <3>5, <3>6
  <2>10. call' # "none" => \A b \in Atom : b < choiceSeed' /\ Visited(b)' => Chosen(b)'
    BY <2>1, <2>5, <2>7 DEF ChoiceSound
  <2>11. ASSUME NEW S \in SUBSET Derived', S # {} PROVE LedInto(S)'
    <3> DEFINE old == {b \in S : Chosen(b)}
    <3>1. old \subseteq Derived
      BY <2>1, <2>5, ChoiceFrame DEF Derived
    <3>2. CASE old = {} \/ a \notin S
      <4>1. CASE old = S
        <5>1. LedInto(S)
          BY <2>11, <3>1, <4>1 DEF ChoiceSound
        <5>2. QED
          BY <2>1, <2>5, <3>1, <4>1, <5>1, LedIntoStays
      <4>2. CASE old # S
        <5>1. PICK b \in S : ~Chosen(b)
          BY <4>2
        <5>2. b \in Atom /\ Chosen(b)'
          BY <2>11 DEF Derived
        <5>3. PICK n \in ResolvingSlots(a) : Neighbor(a, n) = b
          BY <2>2, <5>1, <5>2 DEF Chosen
        <5>4. a \notin S
          BY <2>4, <3>2
        <5>5. /\ canonicalSymmetry'[b] = Implied(a, n) /\ canonicalSymmetry'[a] = canonicalSymmetry[a]
              /\ Chosen(a)' /\ input' = input
          BY <2>1, <2>2, <2>4, <2>5, <5>3 DEF vars
        <5>6. canonicalSymmetry'[b] = Implied(a, n)' /\ Neighbor(a, n)' = b
              /\ Visited(a)' /\ Together(a, b)'
          BY <2>1, <2>4, <2>6, <2>7, <5>3, <5>5, ChoiceFrame DEF Implied
        <5>7. QED
          BY <2>2, <2>6, <5>1, <5>3, <5>4, <5>5, <5>6 DEF LedInto
      <4>3. QED
        BY <4>1, <4>2
    <3>3. CASE old # {} /\ a \in S
      <4>1. LedInto(old)
        BY <3>1, <3>3 DEF ChoiceSound
      <4>0. PICK d \in Atom \ old, b \in old : \E n \in DOMAIN input.neighbors[d] :
              /\ Neighbor(d, n) = b /\ Chosen(d) /\ Visited(d) /\ Together(d, b)
              /\ input.bond[d][n] # NoOverlap
              /\ canonicalSymmetry[b] = Implied(d, n)
        BY <4>1 DEF LedInto
      <4>3. PICK n \in DOMAIN input.neighbors[d] :
              /\ Neighbor(d, n) = b /\ Chosen(d) /\ Visited(d) /\ Together(d, b)
              /\ input.bond[d][n] # NoOverlap
              /\ canonicalSymmetry[b] = Implied(d, n)
        BY <4>0
      <4>4. d \notin S
        BY <4>3
      <4>5. /\ canonicalSymmetry'[d] = canonicalSymmetry[d] /\ canonicalSymmetry'[b] = canonicalSymmetry[b]
            /\ input' = input /\ Chosen(d)'
        BY <2>1, <2>5, <3>1, <4>3 DEF vars, Derived
      <4>6. /\ Neighbor(d, n)' = b /\ Visited(d)' /\ Together(d, b)'
            /\ canonicalSymmetry'[b] = Implied(d, n)'
        BY <2>1, <4>3, <4>5, ChoiceFrame DEF Implied
      <4>7. QED
        BY <4>3, <4>4, <4>5, <4>6 DEF LedInto
    <3>4. QED
      BY <2>4, <3>2, <3>3
  <2>12. QED
    BY <2>9, <2>10, <2>11 DEF ChoiceSound
<1>5. CASE WriteSymmetries
  <2>1. /\ call' = "none" /\ canonicalSymmetry' = Unchosen' /\ choiceQueue' = <<>>
    BY <1>5 DEF WriteSymmetries, Finished, Unchosen
  <2>2. \A a \in Atom : ~Chosen(a)'
    BY <2>1 DEF Chosen, Unchosen
  <2>3. Derived' = {}
    BY <2>2 DEF Derived
  <2>4. QED
    BY <2>1, <2>3 DEF ChoiceSound
<1>6. CASE UNCHANGED choiceVars
  <2>1. UNCHANGED <<vars, call, choiceSeed, choiceQueue, canonicalSymmetry>>
    BY <1>6 DEF choiceVars, choice
  <2>2. /\ \A a : (Visited(a)' <=> Visited(a)) /\ (Chosen(a)' <=> Chosen(a))
        /\ Derived' = Derived /\ Ready' = Ready
    BY <2>1, ChoiceFrame DEF Chosen, Derived, Ready
  <2>3. ASSUME NEW S \in SUBSET Derived', S # {} PROVE LedInto(S)'
    <3>1. LedInto(S)
      BY <2>2, <2>3 DEF ChoiceSound
    <3>2. QED
      BY <2>1, <2>2, <2>3, <3>1, LedIntoStays
  <2>4. QED
    BY <2>1, <2>2, <2>3 DEF ChoiceSound
<1>7. QED
  BY <1>1, <1>2, <1>3, <1>4, <1>5, <1>6 DEF ChoiceNext, ChoiceStep

\* When a choice is finished every atom visited has a symmetry, and those that
\* are not initial were carried along bonds.
LEMMA CarriedInEnd ==
    TypeOK /\ ChoiceTypeOK /\ ChoiceSound /\ Finished => CarriedFromInitial
<1> SUFFICES ASSUME TypeOK, ChoiceTypeOK, ChoiceSound, Finished,
                    NEW S \in SUBSET {a \in Atom : Visited(a) /\ canonicalSymmetry[a] # InitialSymmetry(a)},
                    S # {}
             PROVE  \E a \in Atom \ S, b \in S : \E n \in DOMAIN input.neighbors[a] :
                        /\ Neighbor(a, n) = b /\ Visited(a) /\ Together(a, b)
                        /\ input.bond[a][n] # NoOverlap
                        /\ canonicalSymmetry[b] = Implied(a, n)
  BY DEF CarriedFromInitial
<1>1. \A a \in Atom : a < choiceSeed
  BY GrowthAssumption DEF Finished, ChoiceTypeOK, Atom
<1>2. \A a \in Atom : Visited(a) => Chosen(a)
  BY <1>1 DEF ChoiceSound, Finished
<1>3. S \subseteq Derived
  BY <1>2 DEF Derived
<1>4. QED
  BY <1>3 DEF ChoiceSound, LedInto

----------------------------------------------------------------------------
(* A choice within clusters goes through an unmasked cluster in the order it *)
(* has grown, and through one whose bonds agree in whatever order.           *)

Unmasked(c) == \A a \in Members(c) : input.allowed[a] = Tm

\* The first v atoms of the order were taken from the queue, the next up to w
\* are in it; those up to w have the symmetry that the build left.
Replaying(v, w, c, m, order, from) ==
    /\ v <= w
    /\ \A k \in 1 .. m : canonicalSymmetry[order[k]] =
          IF k <= w THEN atomSymmetry[order[k]] ELSE NoSymmetry
    /\ w # 0 => \A k \in 2 .. m : k <= w <=> from[k] <= v
    /\ v < w => /\ Len(choiceQueue) = w - v
                /\ \A i \in 1 .. w - v : choiceQueue[i] = order[v + i]
    /\ v = w => \A i \in DOMAIN choiceQueue : choiceQueue[i] \notin Members(c)

ReplayedIn(c, m, order, from, slot) ==
    /\ Discovered(c, m, order, from, slot)
    /\ \E v, w \in 0 .. m : Replaying(v, w, c, m, order, from)

Replayed(c) == \E m \in Nat \ {0} : \E order, from, slot : ReplayedIn(c, m, order, from, slot)

ReplaySound == call = "clusters" => \A c \in DOMAIN clusters : Unmasked(c) => Replayed(c)

\* The bonds of the cluster agree, and the masks permit what the build left.
Agreeing(c) == BondsAgree(c) /\ \A a \in Members(c) : atomSymmetry[a] \in Permitted(a)

AgreementSound ==
    call = "clusters" =>
        \A c \in DOMAIN clusters : Agreeing(c) =>
            \A a \in Members(c) : Chosen(a) => canonicalSymmetry[a] = atomSymmetry[a]

\* The atoms of a cluster have a symmetry and are visited.
LEMMA MemberType ==
    ASSUME TypeOK, SettledSound, NEW c \in DOMAIN clusters, NEW a \in Members(c)
    PROVE  /\ a \in Atom /\ atomClusters[a] = c /\ c # NoCluster
           /\ atomSymmetry[a] \in Tm /\ atomSymmetry[a] # NoSymmetry
           /\ Visited(a) /\ structureTypes[a] = clusters[c].structure
<1>1. a \in Atom /\ atomClusters[a] = c /\ c # NoCluster
  BY DEF Members, TypeOK, NoCluster
<1>2. atomSymmetry[a] \in Tm /\ atomSymmetry[a] # NoSymmetry
  BY <1>1, NoSymmetryApart DEF TypeOK
<1>3. structureTypes[a] = Structure(a) /\ Structure(a) # Other
  BY <1>1, StructureType DEF SettledSound, Consistent
<1>4. QED
  BY <1>1, <1>2, <1>3 DEF Visited, Structure

\* The initial symmetry of an atom that may keep its own is its own.
LEMMA InitialKept ==
    ASSUME NEW a, atomSymmetry[a] \in Permitted(a)
    PROVE  InitialSymmetry(a) = atomSymmetry[a]
BY DEF InitialSymmetry

\* What a choice leaves alone while it goes on.
LEMMA ChoiceStays ==
    ASSUME UNCHANGED <<vars, call>>, NEW c
    PROVE  /\ Members(c)' = Members(c)
           /\ Unmasked(c)' <=> Unmasked(c)
           /\ Agreeing(c)' <=> Agreeing(c)
           /\ \A m \in Nat \ {0} : \A order, from, slot :
                 Discovered(c, m, order, from, slot) => Discovered(c, m, order, from, slot)'
<1>1. Members(c)' = Members(c)
  BY DEF Members, vars
<1>2. \A a, n : Neighbor(a, n)' = Neighbor(a, n) /\ CarriedAlong(a, n)' = CarriedAlong(a, n)
  BY DEF Neighbor, CarriedAlong, vars
<1>3. \A a, n, b : Carries(a, n, b) => Carries(a, n, b)'
  BY <1>2 DEF Carries, vars
<1>4. \A a : Permitted(a)' = Permitted(a)
  BY DEF Permitted, vars
<1>5. input' = input /\ atomSymmetry' = atomSymmetry
  BY DEF vars
<1>6. BondsAgree(c)' <=> BondsAgree(c)
  BY <1>1, <1>2, <1>5 DEF BondsAgree
<1>7. Unmasked(c)' <=> Unmasked(c)
  BY <1>1, <1>5 DEF Unmasked
<1>8. Agreeing(c)' <=> Agreeing(c)
  BY <1>1, <1>4, <1>5, <1>6 DEF Agreeing
<1>9. QED
  BY <1>1, <1>3, <1>5, <1>7, <1>8, DiscoveredStays

----------------------------------------------------------------------------
\* The agreement is kept: an atom gets the symmetry it had, as a seed or over
\* a bond.
LEMMA AgreementStep ==
    TypeOK /\ SettledSound /\ ChoiceTypeOK /\ ChoiceSound /\ AgreementSound /\ [ChoiceNext]_choiceVars
    => AgreementSound'
<1> SUFFICES ASSUME TypeOK, SettledSound, ChoiceTypeOK, ChoiceSound, AgreementSound,
                    [ChoiceNext]_choiceVars, call' = "clusters"
             PROVE  AgreementSound'
  BY DEF AgreementSound
<1>1. CASE call # "clusters"
  <2>1. canonicalSymmetry' = Unchosen
    BY <1>1, ChoiceTypeOK DEF ChoiceNext, Build, BeginChoice, ChoiceStep, NextChoiceSeed,
       ResolveNeighbors, WriteSymmetries, choiceVars, choice, ChoiceTypeOK
  <2>2. QED
    BY <2>1 DEF AgreementSound, Chosen, Unchosen, Members
<1>2. CASE call = "clusters"
  <2>0. UNCHANGED <<vars, call>> /\ input' = input
    BY <1>2 DEF ChoiceNext, Build, BeginChoice, ChoiceStep, NextChoiceSeed,
       ResolveNeighbors, WriteSymmetries, choiceVars, choice, vars
  <2> SUFFICES ASSUME NEW c \in DOMAIN clusters, Agreeing(c), NEW a \in Members(c), Chosen(a)'
               PROVE  canonicalSymmetry'[a] = atomSymmetry[a]
    <3>1. clusters' = clusters /\ atomSymmetry' = atomSymmetry
      BY <2>0 DEF vars
    <3>2. QED
      BY <2>0, <3>1, ChoiceStays DEF AgreementSound
  <2>1. CASE Chosen(a) /\ canonicalSymmetry'[a] = canonicalSymmetry[a]
    BY <1>2, <2>1 DEF AgreementSound
  <2>2. CASE NextChoiceSeed
    <3>1. a \in Atom
      BY DEF Members
    <3>2. CASE canonicalSymmetry'[a] = canonicalSymmetry[a]
      BY <2>1, <3>2 DEF Chosen
    <3>3. CASE canonicalSymmetry'[a] # canonicalSymmetry[a]
      <4>1. canonicalSymmetry'[a] = InitialSymmetry(a)
        BY <2>2, <3>1, <3>3 DEF NextChoiceSeed, ChoiceTypeOK
      <4>2. QED
        BY <4>1, InitialKept DEF Agreeing
    <3>4. QED
      BY <3>2, <3>3
  <2>3. CASE ResolveNeighbors
    <3>1. PICK e : e = Head(choiceQueue)
      OBVIOUS
    <3>2. a \in Atom /\ atomClusters[a] = c /\ c # NoCluster
      BY MemberType
    <3>3. CASE canonicalSymmetry'[a] = canonicalSymmetry[a]
      BY <2>1, <3>3 DEF Chosen
    <3>4. CASE canonicalSymmetry'[a] # canonicalSymmetry[a]
      <4>1. PICK n \in ResolvingSlots(e) : Neighbor(e, n) = a
        BY <2>3, <3>1, <3>2, <3>4, ResolveEffect
      <4>2. canonicalSymmetry'[a] = Implied(e, n) /\ e \in Atom
        BY <2>3, <3>1, <4>1, ResolveEffect
      <4>3. e = choiceQueue[1] /\ 1 \in DOMAIN choiceQueue
        BY <2>3, <3>1 DEF ResolveNeighbors, ChoiceTypeOK
      <4>4. Chosen(e)
        BY <4>3 DEF ChoiceSound, Ready
      <4>5. /\ n \in DOMAIN input.neighbors[e] /\ a # e /\ Together(e, a)
            /\ input.bond[e][n] # NoOverlap
        BY <4>1, <4>2 DEF ResolvingSlots, Resolves
      <4>6. e \in Members(c)
        BY <1>2, <3>2, <4>2, <4>5 DEF Together, Members
      <4>7. canonicalSymmetry[e] = atomSymmetry[e]
        BY <1>2, <4>4, <4>6 DEF AgreementSound
      <4>8. atomSymmetry[a] = CarriedAlong(e, n)
        BY <4>1, <4>5, <4>6 DEF Agreeing, BondsAgree
      <4>9. QED
        BY <4>2, <4>7, <4>8 DEF Implied, CarriedAlong
    <3>5. QED
      BY <3>3, <3>4
  <2>4. CASE canonicalSymmetry' = canonicalSymmetry
    BY <2>1, <2>4 DEF Chosen
  <2>5. QED
    BY <1>2, <2>2, <2>3, <2>4 DEF ChoiceNext, Build, BeginChoice, ChoiceStep, WriteSymmetries,
       choiceVars, choice
<1>3. QED
  BY <1>1, <1>2

----------------------------------------------------------------------------
\* In an order by what they come from, those from the first u are the first.
LEMMA PrefixOf ==
    ASSUME NEW m \in Nat \ {0}, NEW from \in [2 .. m -> 1 .. m], NEW u \in 0 .. m,
           \A k, l \in 2 .. m : k < l => from[k] <= from[l]
    PROVE  \E x \in 1 .. m : \A k \in 2 .. m : k <= x <=> from[k] <= u
<1> DEFINE T == {x \in Nat : x >= 1 /\ \A k \in 2 .. m : x < k => from[k] > u}
<1>1. T \subseteq Nat /\ m \in T
  OBVIOUS
<1>2. PICK x \in T : \A y \in T : x <= y
  <2> HIDE DEF T
  <2>1. QED
    BY <1>1, LeastNatural
<1>3. x \in 1 .. m
  BY <1>1, <1>2
<1>4. \A k \in 2 .. m : x < k => from[k] > u
  BY <1>2
<1>5. ASSUME NEW k \in 2 .. m, k <= x PROVE from[k] <= u
  <2>1. x - 1 \notin T /\ x - 1 \in Nat /\ x - 1 >= 1
    BY <1>2, <1>3, <1>5
  <2>2. PICK l \in 2 .. m : x - 1 < l /\ ~(from[l] > u)
    BY <2>1
  <2>3. l = x
    BY <1>3, <1>4, <2>2
  <2>4. from[k] \in 1 .. m /\ from[l] \in 1 .. m
    OBVIOUS
  <2>5. from[k] <= from[l]
    BY <1>3, <1>5, <2>2, <2>3
  <2>6. QED
    BY <2>2, <2>4, <2>5
<1>6. \A k \in 2 .. m : from[k] \in 1 .. m
  OBVIOUS
<1>7. \A k \in 2 .. m : k <= x <=> from[k] <= u
  BY <1>3, <1>4, <1>5, <1>6
<1>8. QED
  BY <1>3, <1>7

\* What replaying a cluster's order says of its atoms.
LEMMA OrderFacts ==
    ASSUME TypeOK, SettledSound, NEW c \in DOMAIN clusters, NEW m \in Nat \ {0},
           NEW order, NEW from, NEW slot, Discovered(c, m, order, from, slot)
    PROVE  /\ \A k \in 1 .. m : order[k] \in Members(c) /\ order[k] \in Atom
           /\ \A k \in 2 .. m : from[k] \in 1 .. m /\ from[k] < k /\ slot[k] \in Nat
           /\ \A k, l \in 2 .. m : k < l => from[k] <= from[l]
<1>1. \A k \in 1 .. m : order[k] \in Members(c) /\ order[k] \in Atom
  BY MemberType DEF Discovered
<1>2. \A k \in 2 .. m : from[k] \in 1 .. m /\ from[k] < k /\ slot[k] \in Nat
  BY DEF Discovered
<1>3. \A k, l \in 2 .. m : k < l => from[k] <= from[l]
  <2> SUFFICES ASSUME NEW k \in 2 .. m, NEW l \in 2 .. m, k < l PROVE from[k] <= from[l]
    OBVIOUS
  <2>1. Earlier(from[k], slot[k], from[l], slot[l])
    BY DEF Discovered
  <2>2. QED
    BY <1>2, <2>1 DEF Earlier
<1>4. QED
  BY <1>1, <1>2, <1>3

\* Atom a resolves those numbered w + 1 to x in the order, with the symmetry
\* the build left, and no other.
ResolvesNext(a, w, x, order, slot) ==
    /\ \A k \in w + 1 .. x : /\ slot[k] \in ResolvingSlots(a)
                            /\ Neighbor(a, slot[k]) = order[k]
                            /\ Implied(a, slot[k]) = atomSymmetry[order[k]]
    /\ \A n \in ResolvingSlots(a) : \E k \in w + 1 .. x : n = slot[k]

\* The bonds over which the atom taken from the queue resolves neighbours are
\* those over which the cluster has grown from it.
LEMMA ReplayedSlots ==
    ASSUME TypeOK, SettledSound, call = "clusters", NEW c \in DOMAIN clusters, Unmasked(c),
           NEW m \in Nat \ {0}, NEW order, NEW from, NEW slot,
           Discovered(c, m, order, from, slot),
           NEW v \in 0 .. m, NEW w \in 0 .. m, Replaying(v, w, c, m, order, from), v < w,
           NEW x \in 1 .. m, \A k \in 2 .. m : k <= x <=> from[k] <= v + 1
    PROVE  ResolvesNext(order[v + 1], w, x, order, slot)
<1>0. PICK a : a = order[v + 1]
  OBVIOUS
<1>1. /\ \A k \in 1 .. m : order[k] \in Members(c) /\ order[k] \in Atom
      /\ \A k \in 2 .. m : from[k] \in 1 .. m /\ from[k] < k /\ slot[k] \in Nat
  BY OrderFacts
<1>2. v + 1 \in 1 .. m /\ v + 1 <= w /\ w # 0
  BY DEF Replaying
<1>3. a \in Members(c) /\ a \in Atom /\ canonicalSymmetry[a] = atomSymmetry[a]
  BY <1>0, <1>1, <1>2 DEF Replaying
<1>4. \A k \in 2 .. m : k <= w <=> from[k] <= v
  BY <1>2 DEF Replaying
<1>5. ASSUME NEW k \in w + 1 .. x
      PROVE  /\ k \in 2 .. m /\ from[k] = v + 1 /\ k # v + 1
             /\ Neighbor(a, slot[k]) = order[k] /\ Resolves(a, slot[k])
             /\ slot[k] \in DOMAIN input.neighbors[a]
             /\ Implied(a, slot[k]) = atomSymmetry[order[k]]
             /\ input.allowed[order[k]] = Tm
             /\ canonicalSymmetry[order[k]] = NoSymmetry
  <2>1. k \in 2 .. m /\ k > w /\ k > v + 1
    BY <1>2
  <2>2. from[k] <= v + 1 /\ ~(from[k] <= v)
    BY <1>4, <2>1
  <2>3. from[k] = v + 1
    BY <1>1, <2>1, <2>2
  <2>4. Carries(a, slot[k], order[k])
    BY <1>0, <2>1, <2>3 DEF Discovered
  <2>5. /\ Neighbor(a, slot[k]) = order[k] /\ slot[k] \in DOMAIN input.neighbors[a]
        /\ input.bond[a][slot[k]] # NoOverlap
        /\ atomSymmetry[order[k]] = Mul(atomSymmetry[a], input.bond[a][slot[k]])
    BY <2>4 DEF Carries, CarriedAlong
  <2>6. Implied(a, slot[k]) = atomSymmetry[order[k]]
    BY <1>3, <2>5 DEF Implied
  <2>7. canonicalSymmetry[order[k]] = NoSymmetry
    BY <2>1 DEF Replaying
  <2>8. order[k] # a /\ order[k] \in Members(c)
    BY <1>0, <1>1, <1>2, <2>1 DEF Discovered
  <2>9. /\ structureTypes[a] = structureTypes[order[k]]
        /\ atomClusters[a] = atomClusters[order[k]]
        /\ atomSymmetry[order[k]] \in Tm
    BY <1>3, <2>8, MemberType
  <2>10. input.allowed[order[k]] = Tm /\ Permitted(order[k]) = Tm
    BY <2>8 DEF Unmasked, Permitted
  <2>11. Resolves(a, slot[k])
    BY <2>5, <2>6, <2>7, <2>8, <2>9, <2>10 DEF Resolves, Together
  <2>12. QED
    BY <2>1, <2>3, <2>5, <2>6, <2>7, <2>10, <2>11
<1>6. \A n \in DOMAIN input.neighbors[a] : n \in Nat \ {0}
  BY <1>3, InputType
<1>7. ASSUME NEW k \in 2 .. m, from[k] <= v + 1, input.allowed[order[k]] = Tm,
             NEW n \in DOMAIN input.neighbors[a], Neighbor(a, n) = order[k],
             from[k] = v + 1 => slot[k] > n, ~(from[k] <= v)
      PROVE  input.bond[a][n] = NoOverlap
  <2>1. from[k] = v + 1 /\ slot[k] > n
    BY <1>1, <1>7
  <2>2. Earlier(v + 1, n, from[k], slot[k])
    BY <1>1, <1>6, <2>1 DEF Earlier
  <2>3. QED
    BY <1>0, <1>2, <1>7, <2>2 DEF Discovered
<1>8. ASSUME NEW k \in w + 1 .. x PROVE slot[k] \in ResolvingSlots(a)
  <2>1. /\ k \in 2 .. m /\ from[k] = v + 1 /\ Neighbor(a, slot[k]) = order[k]
        /\ Resolves(a, slot[k]) /\ slot[k] \in DOMAIN input.neighbors[a]
        /\ input.allowed[order[k]] = Tm
    BY <1>5
  <2>2. ASSUME NEW n \in 1 .. slot[k] - 1, Resolves(a, n), Neighbor(a, n) = order[k]
        PROVE  FALSE
    <3>1. slot[k] \in Nat /\ slot[k] <= Len(input.neighbors[a]) /\ Len(input.neighbors[a]) \in Nat
          /\ DOMAIN input.neighbors[a] = 1 .. Len(input.neighbors[a])
      BY <1>3, <2>1, InputType
    <3>2. n \in DOMAIN input.neighbors[a] /\ slot[k] > n
      BY <3>1
    <3>3. input.bond[a][n] = NoOverlap
      BY <1>1, <1>2, <1>7, <2>1, <2>2, <3>2
    <3>4. QED
      BY <2>2, <3>3 DEF Resolves
  <2>3. QED
    BY <2>1, <2>2 DEF ResolvingSlots
<1>9. ASSUME NEW n \in ResolvingSlots(a) PROVE \E k \in w + 1 .. x : n = slot[k]
  <2>1. /\ n \in DOMAIN input.neighbors[a] /\ Resolves(a, n)
        /\ Neighbor(a, n) \in Atom
    BY <1>3, ResolvingType
  <2>2. Neighbor(a, n) \in Members(c) /\ ~Chosen(Neighbor(a, n))
        /\ input.bond[a][n] # NoOverlap
    BY <1>3, <2>1, MemberType DEF Resolves, Together, Members, Chosen
  <2>3. PICK k \in 1 .. m : order[k] = Neighbor(a, n)
    BY <2>2 DEF Discovered
  <2>4. k > w /\ k \in 2 .. m /\ input.allowed[order[k]] = Tm
    <3>1. canonicalSymmetry[order[k]] = NoSymmetry
      BY <2>2, <2>3 DEF Chosen
    <3>2. atomSymmetry[order[k]] # NoSymmetry
      BY <2>2, <2>3, MemberType
    <3>3. ~(k <= w)
      BY <3>1, <3>2 DEF Replaying
    <3>4. QED
      BY <1>2, <2>2, <2>3, <3>3 DEF Unmasked
  <2>5. ~(from[k] <= v)
    BY <1>4, <2>4
  <2>6. from[k] = v + 1 /\ ~(slot[k] > n)
    <3>1. ~Earlier(v + 1, n, from[k], slot[k])
      BY <1>0, <1>2, <2>1, <2>2, <2>3, <2>4 DEF Discovered
    <3>2. from[k] \in Nat /\ slot[k] \in Nat /\ n \in Nat
      BY <1>1, <1>6, <2>1, <2>4
    <3>3. QED
      BY <2>5, <3>1, <3>2 DEF Earlier
  <2>7. k \in w + 1 .. x
    BY <2>4, <2>6
  <2>8. slot[k] \in ResolvingSlots(a) /\ Neighbor(a, slot[k]) = Neighbor(a, n)
        /\ slot[k] \in Nat \ {0} /\ Resolves(a, slot[k])
    BY <1>5, <1>6, <1>8, <2>3, <2>7
  <2>9. ~(slot[k] < n)
    <3>1. slot[k] < n => slot[k] \in 1 .. n - 1
      BY <1>6, <2>1, <2>8
    <3>2. QED
      BY <2>8, <3>1 DEF ResolvingSlots
  <2>10. slot[k] = n
    BY <1>6, <2>1, <2>6, <2>8, <2>9
  <2>11. QED
    BY <2>7, <2>10
<1>10. QED
  BY <1>0, <1>5, <1>8, <1>9 DEF ResolvesNext

----------------------------------------------------------------------------
\* When the next seed is looked for, a cluster was gone through or not begun.
LEMMA ReplaySeed ==
    ASSUME TypeOK, SettledSound, ChoiceTypeOK, ChoiceSound, call = "clusters", NextChoiceSeed,
           NEW c \in DOMAIN clusters, Unmasked(c), Replayed(c)
    PROVE  Replayed(c)'
<1>m. PICK m \in Nat \ {0} : \E order, from, slot : ReplayedIn(c, m, order, from, slot)
  BY DEF Replayed
<1>1. PICK order, from, slot :
        /\ Discovered(c, m, order, from, slot)
        /\ \E v, w \in 0 .. m : Replaying(v, w, c, m, order, from)
  BY <1>m DEF ReplayedIn
<1>2. PICK v \in 0 .. m, w \in 0 .. m : Replaying(v, w, c, m, order, from)
  BY <1>1
<1>3. /\ UNCHANGED <<vars, call>> /\ choiceQueue = <<>> /\ choiceSeed \in Atom
      /\ atomSymmetry' = atomSymmetry
  BY DEF NextChoiceSeed, vars
<1>4. Members(c)' = Members(c) /\ Discovered(c, m, order, from, slot)'
  BY <1>1, <1>3, ChoiceStays
<1>5. /\ \A k \in 1 .. m : order[k] \in Members(c) /\ order[k] \in Atom
      /\ \A k \in 2 .. m : from[k] \in 1 .. m /\ from[k] < k
      /\ \A a \in Members(c) : \E k \in 1 .. m : order[k] = a
      /\ \A a \in Members(c) : order[1] <= a
      /\ \A k, l \in 1 .. m : order[k] = order[l] => k = l
  <2>1. /\ \A k \in 1 .. m : order[k] \in Members(c) /\ order[k] \in Atom
        /\ \A k \in 2 .. m : from[k] \in 1 .. m /\ from[k] < k
    BY <1>1, OrderFacts
  <2>2. /\ \A a \in Members(c) : \E k \in 1 .. m : order[k] = a
        /\ \A a \in Members(c) : order[1] <= a
        /\ \A k, l \in 1 .. m : order[k] = order[l] => k = l
    BY <1>1 DEF Discovered
  <2>3. QED
    BY <2>1, <2>2
<1>6. v = w
  <2>1. v < w => Len(choiceQueue) = w - v
    BY <1>2 DEF Replaying
  <2>2. Len(choiceQueue) = 0
    BY <1>3
  <2>3. v <= w
    BY <1>2 DEF Replaying
  <2>4. QED
    BY <2>1, <2>2, <2>3
<1>7. w = 0 \/ w = m
  <2> SUFFICES ASSUME w # 0, w # m PROVE FALSE
    OBVIOUS
  <2>1. w + 1 \in 2 .. m
    OBVIOUS
  <2>2. w + 1 <= w <=> from[w + 1] <= v
    BY <1>2, <2>1 DEF Replaying
  <2>3. from[w + 1] \in 1 .. m /\ from[w + 1] < w + 1
    BY <1>5, <2>1
  <2>4. QED
    BY <1>6, <2>2, <2>3
<1>8. CASE IsSeed(choiceSeed) /\ choiceSeed \in Members(c)
  <2>1. /\ canonicalSymmetry' = [canonicalSymmetry EXCEPT ![choiceSeed] = InitialSymmetry(choiceSeed)]
        /\ choiceQueue' = <<choiceSeed>>
    BY <1>8 DEF NextChoiceSeed
  <2>2. PICK k \in 1 .. m : order[k] = choiceSeed
    BY <1>5, <1>8
  <2>3. w = 0
    <3>1. canonicalSymmetry[order[k]] = NoSymmetry /\ atomSymmetry[order[k]] # NoSymmetry
      BY <1>8, <2>2, MemberType DEF IsSeed
    <3>2. ~(k <= w)
      BY <1>2, <3>1 DEF Replaying
    <3>3. QED
      BY <1>7, <3>2
  <2>4. order[1] = choiceSeed
    <3>1. 1 \in 1 .. m /\ order[1] \in Members(c)
      BY <1>5
    <3>2. canonicalSymmetry[order[1]] = NoSymmetry
      BY <1>2, <2>3, <3>1 DEF Replaying
    <3>3. order[1] \in Atom /\ Visited(order[1]) /\ order[1] <= choiceSeed
      BY <1>5, <1>8, <3>1, MemberType
    <3>4. ~(order[1] < choiceSeed)
      BY <3>2, <3>3 DEF ChoiceSound, Chosen
    <3>5. QED
      BY <1>3, <3>3, <3>4 DEF Atom
  <2>5. InitialSymmetry(choiceSeed) = atomSymmetry[choiceSeed]
    BY <1>8, MemberType, InitialKept DEF Unmasked, Permitted
  <2>6. \A k1 \in 1 .. m : canonicalSymmetry'[order[k1]] =
          IF k1 <= 1 THEN atomSymmetry[order[k1]] ELSE NoSymmetry
    <3> SUFFICES ASSUME NEW k1 \in 1 .. m
                 PROVE  canonicalSymmetry'[order[k1]] =
                           IF k1 <= 1 THEN atomSymmetry[order[k1]] ELSE NoSymmetry
      OBVIOUS
    <3>1. CASE k1 = 1
      BY <1>3, <2>1, <2>4, <2>5, <3>1 DEF ChoiceTypeOK
    <3>2. CASE k1 # 1
      <4>1. order[k1] # choiceSeed /\ order[k1] \in Atom
        BY <1>5, <2>4, <3>2
      <4>2. canonicalSymmetry'[order[k1]] = canonicalSymmetry[order[k1]]
        BY <2>1, <4>1 DEF ChoiceTypeOK
      <4>3. canonicalSymmetry[order[k1]] = NoSymmetry
        BY <1>2, <2>3 DEF Replaying
      <4>4. QED
        BY <3>2, <4>2, <4>3
    <3>3. QED
      BY <3>1, <3>2
  <2>7. \A k1 \in 2 .. m : k1 <= 1 <=> from[k1] <= 0
    BY <1>5
  <2>8. Len(choiceQueue') = 1 - 0 /\ \A i \in 1 .. 1 - 0 : choiceQueue'[i] = order[0 + i]
    BY <2>1, <2>4
  <2>9. Replaying(0, 1, c, m, order, from)'
    BY <1>3, <2>6, <2>7, <2>8 DEF Replaying
  <2>10. 0 \in 0 .. m /\ 1 \in 0 .. m
    OBVIOUS
  <2>11. QED
    BY <1>4, <2>9, <2>10 DEF Replayed, ReplayedIn
<1>9. CASE ~(IsSeed(choiceSeed) /\ choiceSeed \in Members(c))
  <2>1. \A a \in Members(c) : canonicalSymmetry'[a] = canonicalSymmetry[a]
    BY <1>3, <1>9 DEF NextChoiceSeed, ChoiceTypeOK, Members
  <2>2. \A i \in DOMAIN choiceQueue' : choiceQueue'[i] \notin Members(c)
    BY <1>3, <1>9 DEF NextChoiceSeed
  <2>3. \A k \in 1 .. m : canonicalSymmetry'[order[k]] =
          IF k <= w THEN atomSymmetry[order[k]] ELSE NoSymmetry
    BY <1>2, <1>5, <2>1 DEF Replaying
  <2>4. w # 0 => \A k \in 2 .. m : k <= w <=> from[k] <= v
    BY <1>2 DEF Replaying
  <2>5. Replaying(v, w, c, m, order, from)'
    BY <1>3, <1>4, <1>6, <2>2, <2>3, <2>4 DEF Replaying
  <2>6. QED
    BY <1>4, <2>5 DEF Replayed, ReplayedIn
<1>10. QED
  BY <1>8, <1>9

\* Sequence z is r, of length l, followed by t, of length p.
JoinedTo(r, t, z, l, p) ==
    /\ Len(z) = l + p /\ DOMAIN z = 1 .. l + p
    /\ \A i \in 1 .. l : z[i] = r[i]
    /\ \A i \in 1 .. p : z[l + i] = t[i]

LEMMA Joined ==
    ASSUME NEW S, NEW r \in Seq(S), NEW t \in Seq(S), NEW l \in Nat, NEW p \in Nat,
           Len(r) = l, Len(t) = p
    PROVE  JoinedTo(r, t, r \o t, l, p)
<1>1. Len(r \o t) = l + p /\ r \o t \in Seq(S)
  OBVIOUS
<1>2. DOMAIN (r \o t) = 1 .. l + p
  BY <1>1
<1>3. \A i \in 1 .. l : (r \o t)[i] = r[i]
  OBVIOUS
<1>4. ASSUME NEW i \in 1 .. p PROVE (r \o t)[l + i] = t[i]
  <2>1. l + i \in 1 .. l + p /\ l + i > l /\ (l + i) - l = i
    OBVIOUS
  <2>2. QED
    BY <2>1
<1>5. QED
  BY <1>1, <1>2, <1>3, <1>4 DEF JoinedTo

Requeued(a, l, p, s) ==
    /\ Lists(s, ResolvingSlots(a), p)
    /\ DOMAIN choiceQueue' = 1 .. l + p /\ Len(choiceQueue') = l + p
    /\ \A i \in 1 .. l : choiceQueue'[i] = choiceQueue[i + 1]
    /\ \A i \in 1 .. p : choiceQueue'[l + i] = Neighbor(a, s[i])

\* The queue loses its first atom and gets the neighbours that were resolved.
LEMMA QueueEffect ==
    ASSUME TypeOK, ChoiceTypeOK, ResolveNeighbors, NEW a, a = Head(choiceQueue),
           NEW l, l = Len(choiceQueue) - 1
    PROVE  /\ l \in Nat
           /\ \E p \in Nat : \E s : Requeued(a, l, p, s)
<1>1. choiceQueue \in Seq(Atom) /\ choiceQueue # <<>>
  BY DEF ResolveNeighbors, ChoiceTypeOK
<1>p. PICK p \in Nat : \E s : Queued(a, p, s)
  BY ResolveEffect
<1>2. PICK s : Queued(a, p, s)
  BY <1>p
<1>3. PICK r, t : r = Tail(choiceQueue) /\ t = [i \in 1 .. p |-> Neighbor(a, s[i])]
  OBVIOUS
<1>4. \A i \in 1 .. p : s[i] \in ResolvingSlots(a) /\ t[i] = Neighbor(a, s[i])
  BY <1>2, <1>3 DEF Lists, Queued
<1>5. \A n \in ResolvingSlots(a) : Neighbor(a, n) \in Atom
  BY ResolveEffect, ResolvingType
<1>6. t \in Seq(Atom) /\ Len(t) = p
  BY <1>3, <1>4, <1>5
<1>7. /\ r \in Seq(Atom) /\ Len(r) = l /\ l \in Nat
      /\ \A i \in 1 .. l : r[i] = choiceQueue[i + 1]
  BY <1>1, <1>3
<1>8. choiceQueue' = r \o t
  BY <1>2, <1>3 DEF Queued
<1>9. JoinedTo(r, t, r \o t, l, p)
  BY <1>6, <1>7, Joined
<1>10. Requeued(a, l, p, s)
  BY <1>2, <1>4, <1>7, <1>8, <1>9 DEF Queued, Requeued, JoinedTo
<1>11. QED
  BY <1>7, <1>10

\* Neighbours of an atom of another cluster are in other clusters.
LEMMA ReplayApart ==
    ASSUME TypeOK, SettledSound, ChoiceTypeOK, call = "clusters", ResolveNeighbors,
           NEW c \in DOMAIN clusters, Replayed(c), Head(choiceQueue) \notin Members(c)
    PROVE  Replayed(c)'
<1>m. PICK m \in Nat \ {0} : \E order, from, slot : ReplayedIn(c, m, order, from, slot)
  BY DEF Replayed
<1>1. PICK order, from, slot :
        /\ Discovered(c, m, order, from, slot)
        /\ \E v, w \in 0 .. m : Replaying(v, w, c, m, order, from)
  BY <1>m DEF ReplayedIn
<1>2. PICK v \in 0 .. m, w \in 0 .. m : Replaying(v, w, c, m, order, from)
  BY <1>1
<1>3. /\ UNCHANGED <<vars, call>> /\ choiceQueue # <<>> /\ choiceQueue \in Seq(Atom)
      /\ atomSymmetry' = atomSymmetry
  BY DEF ResolveNeighbors, vars, ChoiceTypeOK
<1>4. Members(c)' = Members(c) /\ Discovered(c, m, order, from, slot)'
  BY <1>1, <1>3, ChoiceStays
<1>5. PICK a : a = Head(choiceQueue)
  OBVIOUS
<1>6. \A k \in 1 .. m : order[k] \in Members(c) /\ order[k] \in Atom
  BY <1>1, OrderFacts
<1>7. v = w
  <2>1. v < w => Len(choiceQueue) = w - v /\ choiceQueue[1] = order[v + 1]
    BY <1>2 DEF Replaying
  <2>2. choiceQueue[1] = a
    BY <1>3, <1>5
  <2>3. v <= w
    BY <1>2 DEF Replaying
  <2>4. v < w => v + 1 \in 1 .. m
    OBVIOUS
  <2>5. QED
    BY <1>5, <1>6, <2>1, <2>2, <2>3, <2>4
<1>8. \A n \in ResolvingSlots(a) : Neighbor(a, n) \notin Members(c)
  <2> SUFFICES ASSUME NEW n \in ResolvingSlots(a), Neighbor(a, n) \in Members(c) PROVE FALSE
    OBVIOUS
  <2>1. a \in Atom
    BY <1>5, ResolveEffect
  <2>2. Together(a, Neighbor(a, n))
    BY <2>1, ResolvingType DEF Resolves
  <2>3. QED
    BY <1>5, <2>1, <2>2 DEF Together, Members
<1>9. \A d \in Members(c) : canonicalSymmetry'[d] = canonicalSymmetry[d]
  BY <1>5, <1>8, MemberType, ResolveEffect
<1>10. \A i \in DOMAIN choiceQueue' : choiceQueue'[i] \notin Members(c)
  <2>1. PICK l : l = Len(choiceQueue) - 1
    OBVIOUS
  <2>2. PICK p \in Nat : \E s : Requeued(a, l, p, s)
    BY <1>5, <2>1, QueueEffect
  <2>9. PICK s : Requeued(a, l, p, s)
    BY <2>2
  <2>3. \A i \in 1 .. p : choiceQueue'[l + i] \notin Members(c)
    BY <1>8, <2>9 DEF Lists, Requeued
  <2>4. \A i \in 1 .. l : choiceQueue'[i] \notin Members(c)
    <3>1. \A i \in DOMAIN choiceQueue : choiceQueue[i] \notin Members(c)
      BY <1>2, <1>7 DEF Replaying
    <3>2. \A i \in 1 .. l : i + 1 \in DOMAIN choiceQueue
      BY <1>3, <2>1
    <3>3. QED
      BY <2>9, <3>1, <3>2 DEF Requeued
  <2>5. l \in Nat
    BY <1>5, <2>1, QueueEffect
  <2>6. \A i \in 1 .. l + p : i \in 1 .. l \/ (i - l \in 1 .. p /\ i = l + (i - l))
    BY <2>5
  <2>7. QED
    BY <2>3, <2>4, <2>6, <2>9 DEF Requeued
<1>11. \A k \in 1 .. m : canonicalSymmetry'[order[k]] =
          IF k <= w THEN atomSymmetry[order[k]] ELSE NoSymmetry
  BY <1>2, <1>6, <1>9 DEF Replaying
<1>12. w # 0 => \A k \in 2 .. m : k <= w <=> from[k] <= v
  BY <1>2 DEF Replaying
<1>13. Replaying(v, w, c, m, order, from)'
  BY <1>3, <1>4, <1>7, <1>10, <1>11, <1>12 DEF Replaying
<1>14. QED
  BY <1>4, <1>13 DEF Replayed, ReplayedIn

----------------------------------------------------------------------------
\* Resolving the neighbours of the next atom of the order queues those that
\* the cluster has grown from it, with the symmetries they had.
LEMMA ReplayWithin ==
    ASSUME TypeOK, SettledSound, ChoiceTypeOK, call = "clusters", ResolveNeighbors,
           NEW c \in DOMAIN clusters, Unmasked(c), Replayed(c), Head(choiceQueue) \in Members(c)
    PROVE  Replayed(c)'
<1>m. PICK m \in Nat \ {0} : \E order, from, slot : ReplayedIn(c, m, order, from, slot)
  BY DEF Replayed
<1>1. PICK order, from, slot :
        /\ Discovered(c, m, order, from, slot)
        /\ \E v, w \in 0 .. m : Replaying(v, w, c, m, order, from)
  BY <1>m DEF ReplayedIn
<1>2. PICK v \in 0 .. m, w \in 0 .. m : Replaying(v, w, c, m, order, from)
  BY <1>1
<1>3. /\ UNCHANGED <<vars, call>> /\ choiceQueue # <<>> /\ choiceQueue \in Seq(Atom)
      /\ atomSymmetry' = atomSymmetry
  BY DEF ResolveNeighbors, vars, ChoiceTypeOK
<1>4. Members(c)' = Members(c) /\ Discovered(c, m, order, from, slot)'
  BY <1>1, <1>3, ChoiceStays
<1>5. PICK a, l : a = Head(choiceQueue) /\ l = Len(choiceQueue) - 1
  OBVIOUS
<1>6. /\ \A k \in 1 .. m : order[k] \in Members(c) /\ order[k] \in Atom
      /\ \A k \in 2 .. m : from[k] \in 1 .. m /\ from[k] < k /\ slot[k] \in Nat
      /\ \A k, j \in 2 .. m : k < j => from[k] <= from[j]
  BY <1>1, OrderFacts
<1>7. v < w
  <2>1. v = w => \A i \in DOMAIN choiceQueue : choiceQueue[i] \notin Members(c)
    BY <1>2 DEF Replaying
  <2>2. 1 \in DOMAIN choiceQueue /\ choiceQueue[1] = a
    BY <1>3, <1>5
  <2>3. v <= w
    BY <1>2 DEF Replaying
  <2>4. QED
    BY <1>5, <2>1, <2>2, <2>3
<1>8. /\ Len(choiceQueue) = w - v /\ a = order[v + 1] /\ l = w - (v + 1)
      /\ \A i \in 1 .. w - v : choiceQueue[i] = order[v + i]
  <2>1. /\ Len(choiceQueue) = w - v
        /\ \A i \in 1 .. w - v : choiceQueue[i] = order[v + i]
    BY <1>2, <1>7 DEF Replaying
  <2>2. a = choiceQueue[1] /\ 1 \in 1 .. w - v
    BY <1>3, <1>5, <1>7
  <2>3. QED
    BY <1>5, <2>1, <2>2
<1>9. PICK x \in 1 .. m : \A k \in 2 .. m : k <= x <=> from[k] <= v + 1
  <2>1. from \in [2 .. m -> 1 .. m] /\ v + 1 \in 0 .. m
    BY <1>1, <1>7 DEF Discovered
  <2>2. QED
    BY <1>6, <2>1, PrefixOf
<1>10. \A k \in 2 .. m : k <= w <=> from[k] <= v
  BY <1>2, <1>7 DEF Replaying
<1>11. w <= x
  <2>1. CASE w = 1
    BY <2>1
  <2>2. CASE w # 1
    <3>1. w \in 2 .. m
      BY <1>7, <2>2
    <3>2. from[w] <= v /\ from[w] \in 1 .. m
      BY <1>6, <1>10, <3>1
    <3>3. from[w] <= v + 1
      BY <3>2
    <3>4. QED
      BY <1>9, <3>1, <3>3
  <2>3. QED
    BY <2>1, <2>2
<1>12. /\ \A k \in w + 1 .. x : /\ slot[k] \in ResolvingSlots(a)
                                /\ Neighbor(a, slot[k]) = order[k]
                                /\ Implied(a, slot[k]) = atomSymmetry[order[k]]
       /\ \A n \in ResolvingSlots(a) : \E k \in w + 1 .. x : n = slot[k]
  <2>1. ResolvesNext(order[v + 1], w, x, order, slot)
    BY <1>1, <1>2, <1>7, <1>9, ReplayedSlots
  <2>2. a = order[v + 1]
    BY <1>8
  <2>3. QED
    BY <2>1, <2>2 DEF ResolvesNext
<1>13. PICK p \in Nat : \E s : Requeued(a, l, p, s)
  BY <1>5, QueueEffect
<1>14. PICK s : Requeued(a, l, p, s)
  BY <1>13
<1>15. PICK t : t = [i \in 1 .. x - w |-> slot[w + i]]
  OBVIOUS
<1>16. x - w \in Nat /\ \A i \in 1 .. x - w : t[i] = slot[w + i] /\ w + i \in w + 1 .. x
  BY <1>11, <1>15
<1>17. Lists(t, ResolvingSlots(a), x - w)
  <2>1. t \in [1 .. x - w -> ResolvingSlots(a)]
    BY <1>12, <1>15, <1>16
  <2>2. ASSUME NEW n \in ResolvingSlots(a) PROVE \E i \in 1 .. x - w : t[i] = n
    <3>1. PICK k \in w + 1 .. x : n = slot[k]
      BY <1>12
    <3>2. k - w \in 1 .. x - w /\ w + (k - w) = k
      OBVIOUS
    <3>3. t[k - w] = n
      BY <1>16, <3>1, <3>2
    <3>4. QED
      BY <3>2, <3>3
  <2>3. ASSUME NEW i \in 1 .. x - w, NEW j \in 1 .. x - w, i < j PROVE t[i] < t[j]
    <3>1. PICK k, h : k = w + i /\ h = w + j
      OBVIOUS
    <3>2. k \in 2 .. m /\ h \in 2 .. m /\ k < h /\ k > w /\ h > w /\ k <= x /\ h <= x
      BY <1>7, <1>11, <2>3, <3>1
    <3>3. from[k] = v + 1 /\ from[h] = v + 1
      <4>1. /\ from[k] <= v + 1 /\ from[h] <= v + 1
            /\ ~(from[k] <= v) /\ ~(from[h] <= v)
            /\ from[k] \in 1 .. m /\ from[h] \in 1 .. m
        BY <1>6, <1>9, <1>10, <3>2
      <4>2. QED
        BY <4>1
    <3>4. Earlier(from[k], slot[k], from[h], slot[h])
      BY <1>1, <3>2 DEF Discovered
    <3>5. slot[k] < slot[h]
      BY <3>3, <3>4 DEF Earlier
    <3>6. QED
      BY <1>16, <3>1, <3>5
  <2>4. QED
    BY <2>1, <2>2, <2>3 DEF Lists
<1>18. p = x - w /\ s = t
  <2>1. ResolvingSlots(a) \subseteq Nat
    <3>1. a \in Atom
      BY <1>6, <1>7, <1>8
    <3>2. \A n \in DOMAIN input.neighbors[a] : n \in Nat
      BY <3>1, InputType
    <3>3. QED
      BY <3>2 DEF ResolvingSlots
  <2>2. Lists(s, ResolvingSlots(a), p)
    BY <1>14 DEF Requeued
  <2>3. Cardinality(ResolvingSlots(a)) = p /\ Cardinality(ResolvingSlots(a)) = x - w
    BY <1>16, <1>17, <2>1, <2>2, ListsCardinality
  <2>4. p = x - w
    BY <2>3
  <2>5. QED
    BY <1>17, <2>1, <2>2, <2>4, ListsUnique
<1>19. Len(choiceQueue') = x - (v + 1)
  BY <1>8, <1>14, <1>18 DEF Requeued
<1>20. ASSUME NEW i \in 1 .. x - (v + 1) PROVE choiceQueue'[i] = order[(v + 1) + i]
  <2>1. CASE i <= l
    <3>1. i \in 1 .. l /\ i + 1 \in 1 .. w - v /\ v + (i + 1) = (v + 1) + i
      BY <1>7, <1>8, <2>1
    <3>2. choiceQueue'[i] = choiceQueue[i + 1]
      BY <1>14, <3>1 DEF Requeued
    <3>3. choiceQueue[i + 1] = order[v + (i + 1)]
      BY <1>8, <3>1
    <3>4. QED
      BY <3>1, <3>2, <3>3
  <2>2. CASE ~(i <= l)
    <3>1. PICK j : j = i - l
      OBVIOUS
    <3>2. j \in 1 .. x - w /\ i = l + j /\ w + j = (v + 1) + i /\ w + j \in w + 1 .. x
      <4>1. l = w - (v + 1)
        BY <1>8
      <4>2. i > l /\ l \in Int /\ i \in Int
        BY <2>2, <4>1
      <4>3. QED
        BY <1>11, <3>1, <4>1, <4>2
    <3>3. choiceQueue'[i] = Neighbor(a, s[j])
      BY <1>14, <1>18, <3>2 DEF Requeued
    <3>4. s[j] = slot[w + j]
      BY <1>16, <1>18, <3>2
    <3>5. QED
      BY <1>12, <3>2, <3>3, <3>4
  <2>3. QED
    BY <2>1, <2>2
<1>21. ASSUME NEW k \in 1 .. m
       PROVE  canonicalSymmetry'[order[k]] = IF k <= x THEN atomSymmetry[order[k]] ELSE NoSymmetry
  <2>1. CASE k \in w + 1 .. x
    <3>1. slot[k] \in ResolvingSlots(a) /\ Neighbor(a, slot[k]) = order[k]
          /\ Implied(a, slot[k]) = atomSymmetry[order[k]]
      BY <1>12, <2>1
    <3>2. canonicalSymmetry'[Neighbor(a, slot[k])] = Implied(a, slot[k])
      BY <1>5, <3>1, ResolveEffect
    <3>3. k <= x
      BY <2>1
    <3>4. QED
      BY <3>1, <3>2, <3>3
  <2>2. CASE k \notin w + 1 .. x
    <3>1. \A n \in ResolvingSlots(a) : Neighbor(a, n) # order[k]
      <4> SUFFICES ASSUME NEW n \in ResolvingSlots(a), Neighbor(a, n) = order[k] PROVE FALSE
        OBVIOUS
      <4>1. PICK h \in w + 1 .. x : n = slot[h]
        BY <1>12
      <4>2. order[h] = order[k] /\ h \in 1 .. m
        BY <1>12, <4>1
      <4>3. h = k
        BY <1>1, <4>2 DEF Discovered
      <4>4. QED
        BY <2>2, <4>1, <4>3
    <3>2. canonicalSymmetry'[order[k]] = canonicalSymmetry[order[k]]
      BY <1>5, <1>6, <3>1, ResolveEffect
    <3>3. k <= w <=> k <= x
      BY <1>11, <2>2
    <3>4. QED
      BY <1>2, <3>2, <3>3 DEF Replaying
  <2>3. QED
    BY <2>1, <2>2
<1>22. v + 1 \in 0 .. m /\ x \in 0 .. m /\ v + 1 <= x
  BY <1>7, <1>11
<1>23. v + 1 = x => \A i \in DOMAIN choiceQueue' : choiceQueue'[i] \notin Members(c)
  <2>1. DOMAIN choiceQueue' = 1 .. Len(choiceQueue')
    BY <1>14 DEF Requeued
  <2>2. v + 1 = x => Len(choiceQueue') = 0
    BY <1>19
  <2>3. QED
    BY <2>1, <2>2
<1>24. Replaying(v + 1, x, c, m, order, from)'
  BY <1>3, <1>4, <1>9, <1>19, <1>20, <1>21, <1>22, <1>23 DEF Replaying
<1>25. QED
  BY <1>4, <1>22, <1>24 DEF Replayed, ReplayedIn

\* Before a choice within clusters no atom has a symmetry.
LEMMA ReplayBegins ==
    ASSUME TypeOK, ChoiceTypeOK, OrderSound, BeginChoice("clusters"), NEW c \in DOMAIN clusters
    PROVE  Replayed(c)'
<1>m. PICK m \in Nat \ {0} : \E order, from, slot : GrownIn(c, m, order, from, slot)
  BY DEF OrderSound, Grown
<1>1. PICK order, from, slot : Discovered(c, m, order, from, slot)
  BY <1>m DEF GrownIn
<1>2. /\ UNCHANGED vars /\ canonicalSymmetry' = Unchosen /\ choiceQueue' = <<>>
      /\ input' = input
  BY DEF BeginChoice, ChoiceTypeOK, vars
<1>3. Members(c)' = Members(c) /\ Discovered(c, m, order, from, slot)'
  <2>1. Members(c)' = Members(c)
    BY <1>2 DEF Members, vars
  <2>2. \A a, n, b : Carries(a, n, b) => Carries(a, n, b)'
    BY <1>2 DEF Carries, CarriedAlong, Neighbor, vars
  <2>3. QED
    BY <1>1, <1>2, <2>1, <2>2, DiscoveredStays
<1>4. \A k \in 1 .. m : order[k] \in Atom
  BY <1>1 DEF Discovered, Members
<1>5. \A k \in 1 .. m : canonicalSymmetry'[order[k]] =
         IF k <= 0 THEN atomSymmetry'[order[k]] ELSE NoSymmetry
  BY <1>2, <1>4 DEF Unchosen
<1>6. DOMAIN choiceQueue' = {}
  BY <1>2
<1>7. Replaying(0, 0, c, m, order, from)'
  BY <1>5, <1>6 DEF Replaying
<1>8. 0 \in 0 .. m
  OBVIOUS
<1>9. QED
  BY <1>3, <1>7, <1>8 DEF Replayed, ReplayedIn

\* A choice within clusters goes through every unmasked cluster in its order.
LEMMA ReplayStep ==
    TypeOK /\ SettledSound /\ OrderSound /\ ChoiceTypeOK /\ ChoiceSound /\ ReplaySound
    /\ [ChoiceNext]_choiceVars => ReplaySound'
<1> SUFFICES ASSUME TypeOK, SettledSound, OrderSound, ChoiceTypeOK, ChoiceSound, ReplaySound,
                    [ChoiceNext]_choiceVars, call' = "clusters",
                    NEW c \in DOMAIN clusters', Unmasked(c)'
             PROVE  Replayed(c)'
  BY DEF ReplaySound
<1>1. CASE call # "clusters"
  <2>1. BeginChoice("clusters")
    BY <1>1 DEF ChoiceNext, Build, BeginChoice, ChoiceStep, NextChoiceSeed,
       ResolveNeighbors, WriteSymmetries, choiceVars, choice
  <2>2. c \in DOMAIN clusters
    BY <2>1 DEF BeginChoice, vars
  <2>3. QED
    BY <2>1, <2>2, ReplayBegins
<1>2. CASE call = "clusters"
  <2>1. UNCHANGED <<vars, call>> /\ clusters' = clusters
    BY <1>2 DEF ChoiceNext, Build, BeginChoice, ChoiceStep, NextChoiceSeed,
       ResolveNeighbors, WriteSymmetries, choiceVars, choice, vars
  <2>2. c \in DOMAIN clusters /\ Unmasked(c) /\ Replayed(c)
    BY <1>2, <2>1, ChoiceStays DEF ReplaySound
  <2>3. CASE NextChoiceSeed
    BY <1>2, <2>2, <2>3, ReplaySeed
  <2>4. CASE ResolveNeighbors
    BY <1>2, <2>2, <2>4, ReplayApart, ReplayWithin
  <2>5. CASE UNCHANGED <<canonicalSymmetry, choiceQueue>>
    <3>m. PICK m \in Nat \ {0} : \E order, from, slot : ReplayedIn(c, m, order, from, slot)
      BY <2>2 DEF Replayed, ReplayedIn
    <3>1. PICK order, from, slot :
            /\ Discovered(c, m, order, from, slot)
            /\ \E v, w \in 0 .. m : Replaying(v, w, c, m, order, from)
      BY <3>m DEF ReplayedIn
    <3>2. PICK v \in 0 .. m, w \in 0 .. m : Replaying(v, w, c, m, order, from)
      BY <3>1
    <3>3. Members(c)' = Members(c) /\ Discovered(c, m, order, from, slot)'
      BY <2>1, <3>1, ChoiceStays
    <3>4. atomSymmetry' = atomSymmetry
      BY <2>1 DEF vars
    <3>5. Replaying(v, w, c, m, order, from)'
      BY <2>5, <3>2, <3>3, <3>4 DEF Replaying
    <3>6. QED
      BY <3>3, <3>5 DEF Replayed, ReplayedIn
  <2>6. QED
    BY <1>2, <2>3, <2>4, <2>5 DEF ChoiceNext, Build, BeginChoice, ChoiceStep, WriteSymmetries,
       choiceVars, choice
<1>3. QED
  BY <1>1, <1>2

----------------------------------------------------------------------------
(* The theorems *)

\* Before the first seed there are no clusters.
Fresh == pc = "seeds" /\ seed = 1 => clusters = <<>>

\* The build's invariant, and that of the choices.
BuildIInv == TypeOK /\ IInv /\ Fresh
ChoiceIInv == ChoiceTypeOK /\ ChoiceSound /\ ReplaySound /\ AgreementSound

LEMMA FreshStep == TypeOK /\ Fresh /\ [ChoiceNext]_choiceVars => Fresh'
<1> SUFFICES ASSUME TypeOK, Fresh, [ChoiceNext]_choiceVars, pc' = "seeds", seed' = 1
             PROVE  clusters' = <<>>
  BY DEF Fresh
<1>1. CASE Next
  <2>1. seed \in Nat \ {0} /\ seed + 1 # 1
    BY DEF TypeOK
  <2>2. QED
    BY <1>1, <2>1 DEF Next, SkipSeed, RejectSeed, StartCluster, VisitNext, Assign, LeaveOut,
       EndNeighbors, CloseCluster, ReorientAtomsToAlign, NextSeed
<1>2. CASE UNCHANGED <<clusters, pc, seed>>
  BY <1>2 DEF Fresh
<1>3. QED
  BY <1>1, <1>2 DEF ChoiceNext, Build, BeginChoice, ChoiceStep, NextChoiceSeed,
     ResolveNeighbors, WriteSymmetries, choiceVars, vars

\* Symmetries written before the first seed are those of atoms in no cluster.
LEMMA WrittenBefore ==
    ASSUME BuildIInv, ChoiceTypeOK, WriteSymmetries, call = "connected"
    PROVE  TypeOK' /\ IInv'
<1>1. /\ pc = "seeds" /\ seed = 1 /\ clusters = <<>> /\ TypeOK
      /\ UNCHANGED <<input, structureTypes, atomClusters, clusters, pc, seed, atomsToVisit,
                     current, neighborIndex>>
      /\ atomSymmetry' = [a \in Atom |-> Canonical(a)]
  BY DEF BuildIInv, Fresh, ChoiceTypeOK, WriteSymmetries
<1>2. \A a \in Atom : atomClusters[a] = NoCluster
  <2>1. Len(clusters) = 0
    BY <1>1
  <2>2. \A a \in Atom : atomClusters[a] \in 0 .. 0
    BY <1>1, <2>1 DEF TypeOK
  <2>3. QED
    BY <2>2 DEF NoCluster
<1>3. atomSymmetry' \in [Atom -> Tm \cup {NoSymmetry}]
  BY <1>1, CanonicalType
<1>4. TypeOK'
  BY <1>1, <1>2, <1>3 DEF TypeOK
<1>5. WorklistSound' /\ SlotSound'
  BY <1>1 DEF BuildIInv, IInv, WorklistSound, SlotSound, Growing
<1>6. AtomCountExact' /\ SymmetryCarried' /\ Oriented' /\ OrderSound'
  <2>1. DOMAIN clusters' = {}
    BY <1>1
  <2>2. QED
    BY <2>1 DEF AtomCountExact, SymmetryCarried, Oriented, OrderSound
<1>7. Exhaustive'
  <2>1. \A a \in Atom : Tried(a)' = {}
    BY <1>1, <1>2 DEF Tried
  <2>2. QED
    BY <2>1 DEF Exhaustive
<1>8. SettledSound'
  BY <1>1 DEF BuildIInv, IInv, SettledSound, Consistent, AlreadyProcessed, Structure
<1>9. QED
  BY <1>4, <1>5, <1>6, <1>7, <1>8 DEF IInv

\* The build's invariant is kept by the build and by the choices around it.
LEMMA BuildKept ==
    BuildIInv /\ ChoiceTypeOK /\ [ChoiceNext]_choiceVars => BuildIInv'
<1> SUFFICES ASSUME BuildIInv, ChoiceTypeOK, [ChoiceNext]_choiceVars PROVE BuildIInv'
  OBVIOUS
<1>1. Fresh'
  BY FreshStep DEF BuildIInv
<1>2. CASE [Next]_vars
  BY <1>1, <1>2, TypeStep, InvariantStep DEF BuildIInv
<1>3. CASE WriteSymmetries /\ call = "connected"
  BY <1>1, <1>3, WrittenBefore DEF BuildIInv
<1>4. QED
  BY <1>2, <1>3, BuildFrame

\* The choices' invariant is kept.
LEMMA ChoiceKept ==
    BuildIInv /\ ChoiceIInv /\ [ChoiceNext]_choiceVars => ChoiceIInv'
BY ChoiceTypeStep, ChoiceSoundStep, ReplayStep, AgreementStep DEF BuildIInv, IInv, ChoiceIInv

LEMMA ChoiceInvariantInit == ChoiceInit => BuildIInv /\ ChoiceIInv
<1> SUFFICES ASSUME ChoiceInit PROVE BuildIInv /\ ChoiceIInv
  OBVIOUS
<1>1. BuildIInv
  BY TypeInit, InvariantInit DEF ChoiceInit, BuildIInv, Fresh, Init
<1>2. ChoiceSound
  BY UnchosenSound DEF ChoiceInit
<1>3. ReplaySound /\ AgreementSound
  BY DEF ChoiceInit, ReplaySound, AgreementSound
<1>4. QED
  BY <1>1, <1>2, <1>3, ChoiceTypeInit DEF ChoiceIInv

\* In every reachable state of the build and the choices before and after it,
\* both invariants hold.
THEOREM ChoiceInvariantCorrect == ChoiceSpec => [](BuildIInv /\ ChoiceIInv)
<1>1. ChoiceIInv => ChoiceTypeOK
  BY DEF ChoiceIInv
<1>2. QED
  BY <1>1, ChoiceInvariantInit, BuildKept, ChoiceKept, PTL DEF ChoiceSpec

\* What a build promises it keeps whatever symmetries a choice left before it.
THEOREM BuildAfterChoiceCorrect ==
    ChoiceSpec => [](AtomCountExact /\ SymmetryCarried /\ Exhaustive /\ EveryAtomSettled)
<1>1. BuildIInv => AtomCountExact /\ SymmetryCarried /\ Exhaustive /\ EveryAtomSettled
  BY SettledInEnd DEF BuildIInv, IInv
<1>2. QED
  BY <1>1, ChoiceInvariantCorrect, PTL

\* Frames are kept by the reorientation of such a build, too.
THEOREM FramesAfterChoiceCorrect == ChoiceSpec => FramesKept
<1> DEFINE Frames == pc # "done" /\ pc' = "done" =>
                \A a \in Atom :
                    (atomClusters[a] # NoCluster /\ Mul(Transformation(a), Transformation(a)) = Id)
                    => Mul(clusters[atomClusters[a]].orientation, atomSymmetry'[a]) = atomSymmetry[a]
<1>1. BuildIInv /\ ChoiceTypeOK /\ [ChoiceNext]_choiceVars => [Frames]_vars
  <2> SUFFICES ASSUME BuildIInv, ChoiceTypeOK, [ChoiceNext]_choiceVars, pc # "done", pc' = "done"
               PROVE  Frames
    OBVIOUS
  <2>1. [Next]_vars
    BY BuildFrame DEF WriteSymmetries
  <2>2. QED
    BY <2>1, FramesAction DEF BuildIInv
<1> HIDE DEF Frames
<1>2. ChoiceIInv => ChoiceTypeOK
  BY DEF ChoiceIInv
<1>3. ChoiceSpec => [][Frames]_vars
  BY <1>1, <1>2, ChoiceInvariantCorrect, PTL DEF ChoiceSpec
<1>4. QED
  BY <1>3 DEF Frames, FramesKept

\* A choice is finished when all atoms it visits have a symmetry.
LEMMA KeptInEnd ==
    ASSUME BuildIInv, ChoiceIInv, Finished, call = "clusters", NEW c \in DOMAIN clusters
    PROVE  ClusterKept(c)
<1>1. TypeOK /\ SettledSound /\ ChoiceTypeOK /\ ChoiceSound /\ ReplaySound /\ AgreementSound
  BY DEF BuildIInv, IInv, ChoiceIInv
<1>2. \A a \in Members(c) : Chosen(a)
  <2> SUFFICES ASSUME NEW a \in Members(c) PROVE Chosen(a)
    OBVIOUS
  <2>1. a \in Atom /\ Visited(a)
    BY <1>1, MemberType
  <2>2. a < choiceSeed
    BY <1>1, <2>1, GrowthAssumption DEF Finished, ChoiceTypeOK, Atom
  <2>3. QED
    BY <1>1, <2>1, <2>2 DEF ChoiceSound
<1>3. ASSUME Unmasked(c), NEW a \in Members(c) PROVE canonicalSymmetry[a] = atomSymmetry[a]
  <2>m. PICK m \in Nat \ {0} : \E order, from, slot : ReplayedIn(c, m, order, from, slot)
    BY <1>1, <1>3 DEF ReplaySound, Replayed
  <2>1. PICK order, from, slot : ReplayedIn(c, m, order, from, slot)
    BY <2>m
  <2>2. PICK v \in 0 .. m, w \in 0 .. m : Replaying(v, w, c, m, order, from)
    BY <2>1 DEF ReplayedIn
  <2>3. PICK k \in 1 .. m : order[k] = a
    BY <2>1 DEF ReplayedIn, Discovered
  <2>4. canonicalSymmetry[order[k]] # NoSymmetry
    BY <1>2, <2>3 DEF Chosen
  <2>5. canonicalSymmetry[order[k]] = IF k <= w THEN atomSymmetry[order[k]] ELSE NoSymmetry
    BY <2>2 DEF Replaying
  <2>6. QED
    BY <2>3, <2>4, <2>5
<1>4. Agreeing(c) => \A a \in Members(c) : canonicalSymmetry[a] = atomSymmetry[a]
  BY <1>1, <1>2 DEF AgreementSound
<1>5. QED
  BY <1>3, <1>4 DEF ClusterKept, Unmasked, Agreeing

\* A finished choice has carried every symmetry along bonds from initial ones,
\* and the export sees each cluster without masks, or with masks and bonds that
\* agree, as it was built.
THEOREM SymmetriesCanonicalCorrect == ChoiceSpec => []SymmetriesCanonical
<1>1. BuildIInv /\ ChoiceIInv => SymmetriesCanonical
  BY CarriedInEnd, KeptInEnd DEF SymmetriesCanonical, BuildIInv, ChoiceIInv
<1>2. QED
  BY <1>1, ChoiceInvariantCorrect, PTL
=============================================================================
