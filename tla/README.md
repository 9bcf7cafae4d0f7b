# Verification of StructureIdentification

TLA+ models, TLC runs and machine-checked proofs for the library's discrete
core: the clusters of atoms, the graph of their misorientations and the grains
made of them. Paths below are relative to the repository root. The geometry (lattice
vectors, fits, tolerances) is reduced to the algebra the control depends on: a
matrix is an element of a finite group, which must not be commutative, because
most mistakes in this code would be a wrong order or a missing inverse.

## 1. Inventory

The library turns a structure identified per atom into crystals. A build
(`ClusterBuilder::build`) is a sequence of four steps and an optional fifth; its
result is exported as tables, which another process imports.

| Component | State | Operations | Correct if |
|---|---|---|---|
| **Cluster growth** `src/analysis/cluster_graph_builder.cpp` 32-274, 405-491; `cluster_input_preparation.h` | cluster, type and symmetry of each atom; queue; clusters with atom count | `buildClusterAssignments`, `grow`, `selectInitialSymmetryPermutation`, `applyPreferredOrientation`, `reorientAtomsToAlign` | every atom is assigned once; a cluster is one connected crystal, complete and counted; all of it ends |
| **Cluster connection** same file 276-403; `structure_analysis.cpp` 73-196 | transitions and their areas; neighbour lists | `connectClusters`, `calculateMisorientation`, `appendNeighbors` | adjacent clusters are linked once, by the first bond that tells how; lists are completed in both directions unless full |
| **Cluster graph** `src/structures/cluster_graph.cpp` | clusters, map of ids, lists of transitions sorted by distance, cache of disconnected pairs | `createCluster`, `findCluster`, `createSelfTransition`, `createClusterTransition`, `concatenateClusterTransitions`, `determineClusterTransition` | transitions come in inverse pairs, derived ones carry the product along a walk, answers are as short as promised, negative answers never go stale |
| **Super-cluster formation** `cluster_graph_builder.cpp` 59-77, 493-556 | grain of each cluster | `formSuperClusters`, `processDefectCluster`, `dissolveSmallClusters` | grains are the crystals that meet at defects; a grain is dissolved whole or not |
| **Super-cluster hierarchy** `include/volt/analysis/cluster_hierarchy_rebuilder.h` | parent transition and rank of each cluster (disjoint sets that carry a matrix) | `rebuildParentHierarchy`, `getParentGrain` | roots are components, parent matrices agree with every transition that joined two grains, climbs end |
| **Cluster tables** `src/analysis/cluster_graph_io.cpp` | two files; a graph being filled | `exportClusterGraph`, `importClusterGraph`, `rebuildImportedClusterParentHierarchy` | tables are imported exactly if they make sense, and a complete export comes back as the same graph and grains |
| **Orientation rule provider** `orientation_cluster_rule_provider.cpp` | state per atom | `tryAssignNeighbor`, `tryCalculateTransition`, `initializeClusterSeed` | decides like the lattice does where it can |
| **Reconstructed state loader** `src/core/reconstructed_structure.cpp`, `reconstructed_dump_utils.cpp` | context filled in stages | `load` | what was exported whole comes back; neighbours stay with their atoms; a graph holds one import |
| **State canonicalizer** `reconstructed_state_canonicalizer.cpp` | neighbour order and symmetry per atom | `canonicalizeConnectedStructureSymmetries`, `canonicalizeSymmetryPermutations`, `canonicalizeNeighborShellsToExportConvention` | symmetries follow the bonds and keep what was built; neighbours are assigned to slots at least cost; which lists lose neighbours is known; slots say in which direction a neighbour lies |
| **Topology registry and library** `crystal_topology_registry.cpp`, `crystal_topology_library.cpp` | process-wide registry, shared topologies by `call_once` | lookup, reload on changed search roots, sharing, adapting to an atom's order of neighbours | entries are those of the files; what callers hold stays valid until the roots are set; a failed load blocks nobody |
| **Symmetry utilities** `crystal_symmetry_utils.h` | none | enumeration of permutations, products of symmetries | all symmetries are found, once; products are at their place |
| **Analysis context and exports** `structure_analysis_context.*`, `reconstructed_analysis_pipeline.h`, `structure_identification_export.cpp` | output files | `appendClusterOutputs`, exports | no half result is taken for a whole one |
| **Neighbour bond array** `neighbor_bond_array.h` | bits | set, get | nothing to state |

*How they interact.* Growth writes the labels that connection reads; both ask the
rule provider first. Connection calls `createClusterTransition` and then
`appendNeighbors`. Formation walks the lists of the graph, creates transitions of
distance 2 in it and hands those created since to the hierarchy; dissolution
reads the hierarchy's roots and growth's atom counts. The canonicalizer chooses symmetries before growth or for the export. An export writes
a dump, two cluster tables (from the lists of the graph) and a neighbour table; a loader in another process reads them in three stages and
writes a new graph through the same operations as the builder. All of them look topologies up in the registry.

*What is hard.* Within a build, one thread works through worklists and lists that it
changes as it goes; hazards are orders of operations and long sequences: a derived
transition hides an adjacency, a cache keeps a stale answer, path compression
composes matrices of parents that were re-rooted in between, a counter
compared much later decides about a whole grain. Between processes, an export
can fail half way, and a loader can run among its writes. The registry is the one thing threads share: it is looked up under a lock and used outside of it. The graph also guards its pool and cache with a lock but reads the
lists before it takes it; no code in the repository calls these operations
from two threads today, and `determineClusterTransition` has no caller inside the
repository: it is part of the interface for those who use the library.
`PROJECT.json` lists every hazard with its line.

## 2. Modules

`TransitionGroup` declares the group (`Tm`, `Id`, `Mul`, `Inv`) with its axioms as a named
assumption. Every other module takes its matrices from there.

| Module | Models | Notes |
|---|---|---|
| `ClusterGraph` | the graph, one action per operation, called by the builder and the importer in any order | pointers are positions in `clusters`; `pool[t]` is a transition, `transitions[c]` the linked list of `c`, `returned` what the last call gave back |
| `GrainInputs` | the clusters and the sequences of transitions a rebuild is given | shared by the next two |
| `GrainPartition` | **abstract**: what the hierarchy promises. No parents, ranks or paths: each cluster has a root and the matrix to it | which root survives a merge is left open |
| `SuperGrains` | the hierarchy step by step: each iteration of the loops, each step of climbing in `getParentGrain` is an action | `grain` and `accepted` are history; refines `GrainPartition` |
| `GrainRoots` | pure: the roots that linking by rank gives for a list of edges | used where a rebuild is one step |
| `ClusterGrowth` | growth and reorientation, one action per atom or neighbour looked at | `bond[a][n]` is the matrix that two neighbour lists determine |
| `SymmetryChoice` | the canonicalizer's choice of symmetries, before a build and for the export; **composed with** the build by extending `ClusterGrowth` | an action per atom visited; `exported` is beside `atomSymmetry` so that the two can be compared |
| `ClusterConnection` | the loop over bonds and `appendNeighbors` | its list of links is what `ClusterGraph` is called with |
| `SuperClusters` | formation and dissolution, **composed with** an instance of `ClusterGraph` and with `GrainRoots` | starts in the graphs connection leaves |
| `ClusterTables` | export, files, import and the grains of the import; **extends** `SuperClusters` | an analysis in one process, an import in another, two files between them |
| `SlotAssignment` | the assignment of neighbours to slots (Hungarian algorithm), one action per round of the search and per step back | weights are integers; rounding is left out |
| `ShellCanonicalization` | the rewriting of all neighbour lists, one action per atom, with a result of `SlotAssignment` or the atom's symmetry | an entry of the array of all lists is named by its old place |
| `SymmetryPermutations` | the pruned enumeration of symmetries permutation by permutation, products, and the adaption of a shared topology to an atom's order of neighbours | vectors of integers; basis, inverse and determinant are computed |
| `TopologyRegistry` | threads that look up and share topologies while search roots change, one action per stretch between two points where another thread can come in | a reference is the number of the registry it was taken from; to use an old one gives the outcome *undefined* |
| `AnalysisSession` | the outputs of an analysis one by one, and the three stages of a load, **two processes** over the same files | what an analysis, a dump and a table hold are records; `ClusterTables` has the rows of the cluster tables |
| `MC*` | constants for TLC | |
| `*Proofs` | theorems, see section 5 | |

In `SuperClusters` and `ClusterTables` a rebuild of the hierarchy is one step with the
result of `GrainRoots`; the run of `SuperGrains` checks (`RootsByRank`) that the stepwise
rebuild ends with exactly those roots. Transitions the rebuild derives have a
distance of at least 2 and nothing later in these modules looks at such transitions, so they
are left out there.

Definitions marked *variant* are plausible slips (a dropped test, a swapped product,
a missing reset). Each checked property is known to fail when one variant
takes the place of the definition it varies.

## 3. Runs

| Run | Bounds | Question |
|---|---|---|
| `cluster_graph` | 4 clusters + cluster 0, up to 6 transitions (3 pairs) of distance at most 3, two non-commuting matrices | do pairs, derived matrices and the cache of disconnected pairs stay right in any order of calls |
| `cluster_graph_import` | ids 1, 3, 4: positions and ids differ; 9 transitions | are lookups and two-way questions right with gaps in the ids |
| `cluster_ids_mixed` | ids 2, 3 imported, then automatic ones | **fails**: see section 6 |
| `super_grains` | 4 clusters, all sequences of 3 transitions up to renaming, those of 4 that leave a chain of two parents, repeated rebuilds | does the forest implement the partition at every step, and link by rank |
| `cluster_growth` | 4 atoms; a ring with a tail and a periodic chain; bonds that close or break; full, restricted and empty masks; known symmetries and orientations; symmetries chosen before the build or not | is every atom labelled once, completely and consistently, and does the export keep the symmetries of the build |
| `cluster_connection` | 4 atoms in every labelling by up to 3 clusters; lists of up to MAX_NEIGHBORS = 3 entries, one longer | are clusters linked once and lists completed |
| `cluster_tables` | 4 clusters of 2 structures, one or two defects or a chain, large and small roots; a failure after any number of rows of either table; missing, older, repeated, redundant and nonsensical tables | are grains what meets at defects, dissolved whole; are tables imported exactly if they make sense, and does an export round-trip |
| `slot_assignment` | 3 neighbours, 3 slots, all weights out of -1, 0, 2 (a first row in one order) | is the assignment optimal, and does the search never get stuck |
| `shell_canonicalization` | 2 atoms, 3 slots; lists full, long, short, doubled, misplaced or empty; symmetries of order 1, 2 and 3 | which lists lose neighbours, and where do geometry and symmetry put the neighbours of the others |
| `symmetry_permutations` | 7 shells of 3 to 6 neighbours: tetrahedron, octahedron with opposite neighbours side by side, bipyramid, prolate, one with a repeated vector, skew, flat; each in 4 orders and with a neighbour astray | does the pruned enumeration find what all permutations give, and are products and adapted symmetries right |
| `topology_registry` | 2 threads, 2 changes of the search roots among 6 lists of directories, 3 spellings of 2 names | are lookups exact, when do references and shared topologies go bad, does every call end |
| `analysis_session` | 4 analyses of 2 or 3 atoms, 2 exports, 3 loads, 2 faults | does a complete export come back, do neighbours stay with their atoms, does a graph hold one import |

*Why the bounds are enough to be of use.* The group is S3, the smallest that is not commutative; `Cycle`
is not its own inverse and `Flip` is, so both a missing inverse and a swapped
product show. Three clusters are needed for a walk of two hops, four for two that have
transitions but no way of two hops between them, and four for a chain of two parents in the forest (rank 2), where
compression composes matrices. Three pairs of transitions hold a walk, a
derived transition and one that comes after both; longer histories are covered by the proofs of section 5. `cluster_graph` leaves `returned` out of the
state (`VIEW`): it is what a call gave back, and no operation reads it. Four atoms close a ring and leave one outside
it. `MAX_NEIGHBORS` is 3 instead of its value in the code, so that lists fill up.
`MaxClusters`, `MaxPool` and `MaxDistance` are guards of the model
and not of the code; a graph at its bound simply stops there (`CHECK_DEADLOCK FALSE`).
Builds, tables and connections end, so their runs do not check for deadlock either; the termination of growth and
of the hierarchy is a property of its own (`BuildEnds`, `RebuildEnds`). `SlotAssignment` and `ShellCanonicalization` are checked for deadlock:
no step before the return of the call is ever stuck, so the search always finds a next column.
Three slots let the way back of an assignment take two steps, and three directions have symmetries that are not their own inverse.
Two atoms are enough for a list and the one behind it.
Two threads and two changes let one thread load a registry while the other holds a reference into the one before, and share from a third. Two exports and three loads allow
outputs of two analyses side by side, a load that fails on them, and another one into what it left; `MaxExports`, `MaxLoads`, `MaxFaults` and `MaxChanges` are guards of the model. `analysis_session`
ends when they are used up, so it is not checked for deadlock; `topology_registry` and `symmetry_permutations` are.

*Fairness.* `ClusterGrowth` and `SuperGrains` state weak fairness of the
steps of the running call: a sequential loop takes its next iteration. No fairness
is assumed of callers: `Rebuild` may never be called. In `GrainPartition` fairness is on
`Process` alone, and `SuperGrains` is shown to implement it, liveness included. `SymmetryChoice` adds weak fairness of a running choice.
`TopologyRegistry` has weak fairness of each thread's steps within a call, as threads are scheduled; nobody has to call anything.

## 4. Properties worth knowing

- `ForestSound`, `TransportConsistent`: in the middle of a climb, with some parents compressed and others
  not, every parent matrix agrees with the partition; afterwards every transition that joined two
  grains agrees with the parent matrices of both its ends. Transitions inside a grain are
  **not** claimed to agree: the code does not check them.
- `TransitionsAreWalks`: a transition of distance n is a walk over n adjacencies with their product, however it
  was derived. It relies on every caller passing a distance that is true.
- `DisconnectedSound`, `DetermineAnswers`: the negative cache is right whenever it is consulted, and answers are
  a shortest way of at most two hops, for both orders of the arguments. A cached pair may get a transition of distance 3 or more by concatenation;
  the answer is then found before the cache is asked.
- `Exhaustive`: an atom that continues the crystal of a neighbour is in the same cluster or an earlier one.
- `EveryAtomSettled`: says what happens to atoms whose mask allows no symmetry. They lose their type as seeds,
  yet can be taken by a cluster that reaches them first, because the rule provider reads an empty mask as all symmetries.
- `FramesKept`: the reorientation keeps what orientation and symmetry say about an atom together, **if** the cluster's
  transformation is its own inverse. The code applies the inverse to both the orientation and the symmetries; for
  other transformations the two no longer describe the same frame. No text in the repository promises that they do.
- `FirstBondDecides`: matrix and direction of a link are those of its first bond with a misorientation,
  and the area counts that bond and all later ones from both sides, but not earlier bonds without one.
- `GrainsMeetAtDefects`: grains are the components of "meet at a defect with a misorientation that is a symmetry
  *and that no transition between them has already*". The last clause is what the code does: a transition that
  exists is found, not created, and only created ones reach the hierarchy. The import has no such exception.
- `GrainsKept`: although import joins grains by another rule than the builder, no grain that was not dissolved falls apart
  on the way through the tables. Grains may be joined that were not before.
- `ImportExact`: covers tables of two different exports (a failing export leaves new clusters with old
  transitions): nothing in the files ties them together, so they are imported if they make sense together.

- `PotentialsSound`, `AssignmentOptimal`: the first is why the second holds. It relates the potentials to all pairs,
  in the middle of a search and half way back along it; the result is compared with all permutations.
- `ShellsCanonical`: says exactly what becomes of the lists, where the code goes wrong too. An atom loses neighbours, and gets some of other atoms instead, if **and only if** its list is rewritten
  by symmetry (`BySymmetry`; `OnlyBySymmetry` where the model leaves no other way) and the symmetry leads to places behind the list but not out of the array (`LeadsAway`), which happens to lists shorter than the coordination number only
  (`src/analysis/reconstructed_state_canonicalizer.cpp:616`-`645`). If the symmetry leads out of the array everything is put back. In a full list that is true to its atom's symmetry, slot *s* has the neighbour
  in direction *s* after a rewriting by geometry, and the one in direction *symmetry[symmetry[s]]* after a rewriting by symmetry (line 618 reads a symmetry from canonical to local slots, the rest of the code,
  as `src/analysis/structure_analysis.cpp:289`, from local to canonical ones): both ways agree for symmetries that are their own inverse only. No comment, document or test of the repository
  says which lists keep their neighbours or which convention the slots follow, so neither is listed as a finding.

- `SymmetriesCanonical`: the symmetries chosen for the export are those the build left, if no mask restricts the atoms of a cluster, or if its bonds agree
  and the masks permit the turned symmetries. The masks are not turned with the atoms, so without the second condition an atom can get another symmetry than its cluster's
  orientation goes with.
- `EnumerationComplete`: the leap of `bitmapSort` and `next_permutation` over all permutations that agree with a refused one skips no symmetry and finds none twice.
  `ProductsPlaced` needs what `retainProperRotations` leaves to be closed, which it is; `AdaptedTruthful` says that an adapted symmetry does to an atom's neighbours what its matrix does.
- `ReferencesLast`, `SharedAgrees`: references into the registry go bad, and shared topologies differ from its entries, **only** after a call of `setCrystalTopologySearchRoots`; a lookup never
  replaces a registry on its own, and a load that fails leaves the old one. `CallsEnd` covers `call_once` with a callable that throws.
- `ReloadExact`, `AtomsMatch`, `OneImport`: what a loader may rely on, whatever an exporter, a full disk or another program does to the files in between. `AtomsMatch` holds for any mixture of outputs, because
  the ids are compared; it says nothing about a dump without ids. A clusters table that lost its tail when it was closed is imported without its last clusters if no transition
  names them: `OneImport` says what still holds then. It rests on ids that begin with 1 (`ClustersNumbered`), as `createCluster` gives them: of two tables written by hand with no id in common, the second would be added to the first. A load into an analysis that has clusters is refused, and what it had read before that stays.

## 5. Proofs

All theorems hold for every value of the constants under the named assumptions: the group axioms
(`GroupAxioms`) and the types of inputs (`PartitionAssumption` of `GrainInputs`, `HierarchyAssumption`, `GrowthAssumption`,
`ConnectionAssumption`, `AssignmentAssumption`, `RegistryAssumption`, `SuperAssumption`, `TablesAssumption`, `ShellAssumption`, `ShellsAssumption`; for `AnalysisSession` see below). TLC evaluates these on the runs.
`SuperAssumption` says two things of the code besides types: links join different clusters (the builder's loop over bonds skips an atom's own cluster), and the inverse of a
symmetry of a structure is one too (the symmetries of a lattice are a group). `TablesAssumption` says besides types that a missing table is none with rows, and `ShellAssumption`
that the symmetries are permutations and that only a direction itself has cosine 1 with it (the ideal directions of a lattice are distinct). `ShellsAssumption` says besides types that a neighbour of an atom is not in the direction of two different vectors
of the shell, within the tolerance: it is `1e-4` of a squared distance between unit vectors by default (`include/volt/analysis/crystal_topology_library.h:41`), about half a degree, and the vectors of a lattice's shells
are tens of degrees apart. Only the adaption of a topology rests on that part.

**`SuperGrainsProofs`.** First the abstract partition, through an instance `GP`: its types (`PartitionTypeCorrect`), and that grains are exactly the
components of the transitions so far (`PartitionExactCorrect`) with matrices that agree (`PartitionTransportCorrect`). The last two are inductive with the
types: absorbing a grain multiplies the matrices of all its members by one matrix from the left, which keeps every equation between two members,
and the joint matrix is chosen so that the new one holds. Then the forest: `TypeOK`, `RanksIncrease`, `ForestSound`, `HierarchyExact`, `TransportConsistent`, `RootsByRank`, `Flattened`, and
`RefinesPartition`: every step of the forest is a step of the partition or stutters. The inductive invariant `IInv` adds to
`RanksIncrease` and `ForestSound` what a running `getParentGrain` knows: `PathSound` (its accumulated transition leads from the cluster it was called on, upwards in rank,
with the right matrix) and `PhaseSound` (which calls have been answered: both ends are settled when they are linked, and so is everything before the
compression loop's position). Without the history `grain` the matrices of a half-compressed forest have nothing to be compared with; the
history changes only when two roots are linked, and the exactness of the partition carries over through the refinement.
`RootsByRank` has an invariant of its own: `Ranked` is a function with the roots and ranks after each number of transitions linked in one step (`Linked`), whose value at
the transitions processed so far is what the forest has; `GrainRootLinks` shows that the library's fold is the end of that function, and `GrainRootComponents` that the fold
tells the components of any edges.

**`ClusterGrowthProofs`.** Of growth alone `TypeOK`, `AtomCountExact`, `SymmetryCarried`, `Exhaustive`, `AssignedOnce`, `EveryAtomSettled` and
`FramesKept`; of growth with the choices before and after it (`ChoiceSpec`) the same properties again, and `SymmetriesCanonical`.
`IInv` adds to the properties `WorklistSound` (between two seeds the queue is empty, and during growth queued atoms and the current one
are in the growing cluster), `SlotSound` (where the loop over neighbours stands), `SettledSound` (what became of the atoms before the seed), `Oriented`
(how a cluster's orientation and transformation belong together) and `OrderSound`: the atoms of a cluster can be listed in an order in which each was found along a bond of an earlier one, and no bond before that
leads to it. `SymmetryCarried` is stated as a cut property,
so that it needs no induction over paths: a new member enters by a bond from a member, and reorientation multiplies both ends of every bond alike.
In the composition a choice may replace the symmetries before the first seed, when there are no clusters yet (`Fresh`), so that `IInv` is kept there too.
The choice for the export visits the atoms of a cluster without masks in the order of `OrderSound`, over the same bonds; `ReplaySound` says how far it has come,
and that the symmetries it has chosen are those of the build. For clusters whose bonds agree no order is needed: whatever is carried along a bond is what the build left (`AgreementSound`).

**`ClusterConnectionProofs`.** `TypeOK`, `LinksExact`, `FirstBondDecides`, `ReverseAdjacency`, `ListsExtended`, `ConnectsGraph`. `LinksExact` and `FirstBondDecides` are
about the set of bonds *scanned* so far, with `DecidedLinks`: every link was decided by one of them. The lists
need `ExtrasSound` (what is remembered for an atom is what the scanned bonds ask for, in order) and `FilterSound` (which lists
are complete, which one is half done, and that what was kept so far is new, wanted and there once).
`ConnectsGraph` says of each step that it is one call of the cluster graph, on links read as its pool and lists, or leaves the graph alone. It follows from `LinksExact`, as no two links join the same clusters
(`NoneFound`: the call finds no transition there; `LinksBounded`: there are never more than the graph's bound), and from `ListsSound`: a list has the transitions of its cluster, so that a new one, which is the greatest and no nearer than any, goes to the end
(`InOrderGrows`, `InsertedLast`).

**`SlotAssignmentProofs`.** `PotentialsSound` and `AssignmentOptimal`, for any number of slots and any weights. `IInv` adds what the search knows: `Matched` (no two
columns share a row, except the one the way back has come to), `Cheapest` (the cost kept for a column not reached is the least over
those reached, and is that of the column it would be reached from) and `WayBack` (columns reached can be put in an order in which each one was
reached from an earlier one by a pair that costs nothing). The order is an existential in the invariant, so that no history is needed; least elements
come from the well-foundedness of finite sets under inclusion, since the provers cannot use the library's induction theorems.
For `AssignmentOptimal`, `RowsPlaced` adds that no row placed is lost, so that the result is a permutation (by counting). The rest is duality: both `SumDefined`,
that the library's fold over a set is the recursive sum, and `SumTakes`, that this sum does not depend on the order, are inductions over finite sets; then the weight of any
permutation is at most the sum of the potentials (`WeightBounded`), and that of the result is equal to it.

The module also proves `ShellsCanonical` of `ShellCanonicalization`, for any number of atoms and lists of any length. The array of all lists is a recursion over the atoms: `FlattenDefined` shows that
it defines what it says, `ShellLayout` that a list is one stretch of the array, and `EntriesApart` that the stretches are disjoint. By `PlacedKeeps`, an order of the slots
keeps the entries of its list and touches no other; by `MovedKeeps` a symmetry that finds all its slots keeps the entries if and only if it leads to none behind the list. `TruthAssigned` is the point of rewriting by geometry: for a list that is true to its atom's symmetry, that symmetry is the only order of greatest weight, since any other loses at some slot
and gains nowhere (`SumLess`). The invariant `ShellInv` says that atoms visited are done and that the lists of the others are as they were.

**`ClusterGraphProofs`.** `TypeOK`, `ReversePairs`, `ListsSorted`, `DetermineAnswers`, and, for graphs that are numbered by the builder or
by a table and not by both (`OneNumbering`), `FindClusterExact`, `InsertSucceeds` and `DisconnectedSound`, for any number of clusters and of transitions derived from each other. The
parts of `IInv` take the pool, the lists and the cache as parameters (`PoolHolds`, `Listed`, `Published`, `Apart`), so that what one insertion does to
them is a lemma of its own (`InsertedListed`, `PairAdded`, `PairPublished`, `ApartStays`) and every operation follows from the same two steps,
`SelfStep` and `PairStep`. `TransitionsAreWalks` is about walks of any length, so it rests on lemmas of its own, by induction over that length: walks can be turned round and joined, and stay walks as the pool grows. It assumes `LongEnough`,
that the bound on distances is at least `MaximumClusterDistance`, which the code uses for every search.
`PairStep` shows what callers owe the cache: a transition of distance 1 joins different clusters, one of distance 2 runs
along a way of two hops. `Numbered` is the condition the finding of section 6 breaks; only the theorems that depend on it assume it.

**`ClusterTablesProofs`.** `GrainsMeetAtDefects`, `DissolvedTogether`, `ImportExact`, `RoundTrip` and `GrainsKept`, for any number of clusters, links, structures and older tables, in the composition with the tables. What was proved of the graph
and of the fold that stands for a rebuild comes in through instances of `ClusterGraphProofs` and `SuperGrainsProofs`; `GraphInputs` and `FoldInputs` show that their assumptions hold here.
The graph that connection leaves satisfies the graph's invariant and has exactly the links as transitions, by induction over the links (`LinkAdded`, `ConnectedDefined`, `ConnectedLinked`).
The invariant of the loops, `Forming`, is the graph's own with `Recorded` (each transition that is not direct, or its reverse, was created since the call), `Meeting` (those created since the call join crystals
that meet at a defect) and `Handled` (each pair at a defect that the loops have passed is joined if it should be). Three facts carry it: the loops meet one order of a pair only, which is enough because the inverse
of a symmetry is a symmetry; a pair added at a defect changes no defect's list of neighbours; and as its distance is 2 it makes no two clusters adjacent. At the end `MeetingsJoined` and `EdgesSinceTheCall`
say that the transitions handed to the hierarchy are the meetings, and `FoldOver` that the roots are their components. A root has the structure of its members (`Uniform`), hence a grain is dissolved as a whole.

The three properties of the tables rest on `TablesInv`, which adds to the above `ExportAt` (what the rows written so far say of the graph they are taken from), `ImportAt` (rows imported and rows still to come make up the tables, and the
graph holds what those imported say), `JoinAt` (how far the grains of the import have been joined), `NumberedAt` and `GrainsKept` itself. Export: the order that the sort asks for exists and lists every link once (`OrderExists`, `TransitionRowsAre`), so a complete
export says what the graph said (`ExportDone`). Import: `PoolExtends` and `SelfExtends` say what one insertion does to any pool; a row is accepted and adds just its cluster or link (`ClusterImported`, `LinkImported`), or is refused for a reason that the
tables show (`ClusterRejected`, `LinkRejected`). `NearFirst` says that rows are imported by distance, so that no longer transition stands in the way of a direct one. `ImportExact` and, with `Numbered` (ids come back in the order of creation), `RoundTrip` follow. For
`GrainsKept` the two rules of joining are compared by cuts instead of walks: `GrainsSpan` says that a set of ids which no two clusters meeting at a defect are separated by separates no grain of the analysis either (`ClosedSetHoldsGrains`), also after dissolution (`GrainsHeld`),
and the grains of the import are such sets (`Joining`, `BridgedRoots`, `TogetherJoined`).

**`TopologyProofs`.** Of `TopologyRegistry`, `LookupExact`, `ReferencesLast` and `SharedAgrees`, for any number of threads, roots, files and changes. That a registry that
was built is `Exact` for its roots is an induction over the files in order, by least counterexamples, for which it is also shown that a finite set of
paths can be put in order and that the recursion of `BuiltFrom` defines what it says. `IInv` then says what a thread may rely on: a call answered since the roots were last set has a
reference that is up to date and an entry that is found (`ReferencesSound`, `EntryFound`), `initFlag` names the thread that initialises (`FlagHeldBy`),
and what is shared are the shapes of the registry in place, until the roots are set (`SharedSound`). The point of `OthersKeep` is that a step of one thread never replaces a
registry that is up to date and moves the flag only while it is free or its own.

Of `SymmetryPermutations`, `EnumerationComplete`, `ProductsPlaced` and `AdaptedTruthful`, for shells of any number of vectors, in a line, in a plane or equal. Two parts carry the invariant `SymmetryInv`.
*Linear algebra* over the integers, with Cramer's rule instead of an inverse: a matrix is given by the images of the basis, so what it does to a vector is a sum of those (`ImageCombines`), an orthogonal one keeps lengths and angles (`ImagesKeepDot`), and
lengths and angles to a basis tell a vector (`TakenByDots`). Hence the isometries of the shell are what orthogonal matrices do to it (`IsometryRealized`, `RealizedIsometry`); and where a neighbour goes is known from where the neighbours up to it go, since one before the end of the
basis is in the line or plane of the basis before it (`PartsBefore`, `ImageByPrefix`). *The order of permutations*: `NextIs` and `NextFollows` say that the next permutation follows with none in between, `LeapPasses` that a leap passes only what
begins like the permutation up to the slot that was wrong. Together: `PermuteSound` holds after every leap (all isometries that come before the permutation that is next are found), with `AgreesBefore` for what the code does not look at again because the permutation changed
behind the basis. The table of quotients is full since the quotient of two rotations is an isometry, and a rotation because volumes multiply (`DetCombined`, `VolumeOfImages`); the quotient is one only since an orthogonal matrix is injective (`QuotientIs`).
For the adaption, `NearestExists` (the comparison of angles is an order) and `MatchedPermutes` show that neighbours and slots are matched one to one.

**`AnalysisSessionProofs`.** `ReloadExact`, `AtomsMatch` and `OneImport`, for any analyses, any number of exports, loads and faults, in any interleaving. What an analysis may be is assumed:
clusters are numbered from 1 (`ClustersNumbered`), transitions join two of them and come in pairs (`LinksPaired`, which `ClusterGraphProofs` shows of the graph), lists name atoms and are no longer than `MAX_NEIGHBORS`
(`NeighborsStored`, which `ClusterConnectionProofs` shows of `appendNeighbors`), a dump holds integers and its ids are not negative (`DumpsWritten`), and `Null` is none of these (`NullAssumption`).
`IInv` says what lies in the files at any time (`FilesSound`: a clusters table begins with 1 wherever its tail was lost), which outputs the result names before the next one is written (`ExportSound`), that outputs that are intact are those of one
export (`IntactSound`), that the graph stays as it was until the last stage of a load and begins with cluster 1 (`LoadSound`), that the compact arrays of the context are those of one analysis' table (`TableSound`), and what a load of intact outputs has made so far (`SourceSound`).
The arrays are assembled in the order of the atoms by a recursion over offsets: `OffsetsDefined` shows that it defines what it says, `SlotFound` that an entry is found by exactly the atom it belongs to.

*Only model-checked.* All liveness: `RebuildEnds`, `BuildEnds`, `CallsEnd` and the fairness part of `ImplementsPartition`. Liveness
and ENABLED are beyond the prover. Inductions over data are possible only by hand, as in several of the modules above. The refinement is proved for its safety part, through the history
`grain`, while TLC checks it with the way that parents really lead (`Resolved`).

## 6. Finding

`createCluster` numbers a cluster by how many there are if it is given no id, and takes any id otherwise; it asserts that the id was new
(`src/structures/cluster_graph.cpp:34`). A graph filled from a table with gaps and then extended by the builder violates the
assertion: run `cluster_ids_mixed`, property `InsertSucceeds`. Nothing in the repository does both to one graph; the public interface allows it.

## 7. Not modelled

- Numbers: tolerances, fits and accumulated orientation matrices. Symmetries are taken to be farther apart than a tolerance, so at most one matches.
- Parsing and formatting of tables, dumps, Parquet files and topologies; a table that cannot be parsed is like a missing one. Negative distances, which only a table written by hand has; negative ids in a table of transitions, which trip an assertion of `findCluster` (`src/structures/cluster_graph.cpp:40`);
  the conversion between column types of a dump; the longest neighbour distance.
- Several threads on one graph: nothing in the repository does that, and which operations would run together is up to programs outside of it.
- How well a direction fits a slot: an input of `ShellCanonicalization`. The search for the symmetry closest to a matrix, and for the common neighbours of a slot: geometry of the ideal lattice.
- The summary of `structure_identification_export.cpp`, which keeps no state.
- The bit matrix of bonds: a setter and a getter.

Where a definition is coarser than the code:

- `ImportTransition` of `ClusterGraph` has distance 1 and joins different clusters; the distance of a row and the rows of a cluster with itself (`src/analysis/cluster_graph_io.cpp:439`-`447`) are in `ClusterTables`.
- `Spoiled` of `ClusterTables`: a row that is cut within its last number is not readable, while `stod` and `stoi` take the digits that are left. That a writer's success is decided before the last flush is in `AnalysisSession`.
- `LoseTail` of `AnalysisSession` leaves the header and whole rows; a table cut within a row is refused by `readRows`, as one that cannot be parsed. `ImportClusters` reads both tables in one step, the code one after the other, so no export comes between.
- `CarriedSymmetry` of `SymmetryChoice` uses the bond matrices of growth. The code derives them from common neighbours here and from orientations there, which can differ where a structure has no overlap of neighbours.
- `Assigned` of `ShellCanonicalization`: fits have three levels, so that orders of different weight in the code can have the same weight here. Any order of greatest weight may be the one that is found; where one of them fits and another does not, the list may be rewritten by geometry or by symmetry, and `ShellKept` allows both outcomes.

## 8. Plan

Done: the modules above, in the order hierarchy (abstract, then detailed), growth, connection, graph, formation, tables, slots and shells, symmetries, registry, outputs and loader, choice of symmetries.

All invariants and action properties of the runs are proved. Left:

1. `BuildPipeline`: growth, connection, formation and dissolution of one input, for properties from atom to grain.
