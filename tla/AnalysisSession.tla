-------------------------- MODULE AnalysisSession --------------------------
(***************************************************************************)
(* The outputs of one analysis and the loader that takes them back:        *)
(* appendClusterOutputs (reconstructed_analysis_pipeline.h) writes a dump, *)
(* two cluster tables and the neighbour table one after the other, and     *)
(* ReconstructedStructureLoader::load (reconstructed_structure.cpp) fills  *)
(* a context and a cluster graph from them in three stages.  The two run   *)
(* in different processes over the same files: an export may start or fail *)
(* between two stages of a load, and a caller may load again into the      *)
(* context a failed load left.                                             *)
(*                                                                         *)
(* The text of the tables and the reading of one of them is the matter of  *)
(* ClusterTables; here a table is a sequence of rows.                      *)
(***************************************************************************)
EXTENDS Integers, Sequences, FiniteSets

CONSTANTS
    Analyses,       \* the finished analyses that may be written
    MaxNeighbors,   \* MAX_NEIGHBORS, the slots of an atom in the neighbour table
    Other,          \* LATTICE_OTHER
    Coordination,   \* coordinationNumber of each crystalline structure type
    ZeroVector,     \* the vector of a slot nothing was written to
    Fraction,       \* a value of a dump column that is no integer
    Spoiled,        \* the content of a file a failing write left unreadable
    Null,
    MaxExports,     \* bound on the exports
    MaxLoads,       \* bound on the loads
    MaxFaults       \* bound on failing writes and foreign changes of the dump

\* The graph gives ids from 1 on, and no cluster is ever taken out of it.
ASSUME ClustersNumbered ==
    \A a \in Analyses : IsFiniteSet(a.clusters) /\ a.clusters = 1 .. Cardinality(a.clusters)

\* Transitions join two clusters of the graph, and each has its reverse.
ASSUME LinksPaired ==
    \A a \in Analyses : \A l \in a.links :
        l \in a.clusters \X a.clusters /\ l[1] # l[2] /\ <<l[2], l[1]>> \in a.links

Files == {"dump", "clusters", "links", "neighbors"}

ASSUME NullAssumption ==
    /\ MaxNeighbors \in Nat
    /\ Null \notin BOOLEAN /\ Null \notin Files /\ \A a \in Analyses : a # Null

NoGraph == [clusters |-> {}, links |-> {}]

\* ReconstructedStructureContext with the analysis beside it, nothing loaded.
NoContext ==
    [types |-> Null, clusterOf |-> Null, counts |-> Null, offsets |-> Null,
     indices |-> Null, vectors |-> Null, graph |-> NoGraph]

VARIABLES
    files,      \* the file of each output: Null (absent), Spoiled or its content
    job,        \* the analysis being exported, Null between exports
    base,       \* whether the export has an outputBase
    next,       \* the output it writes next
    result,     \* the outputs the result of the last export names
    intact,     \* the analysis whose four outputs lie there as it wrote them
    context,    \* what the loader fills
    frame,      \* the dump it was given, parsed
    paths,      \* the outputs whose paths it was given
    stage,      \* the stage of load it is in
    verdict,    \* what the last load returned
    before,     \* the graph when the load began
    table,      \* the neighbour table the load read
    rows,       \* the clusters table the load read
    source,     \* the analysis all of whose outputs stayed intact since the load began
    exports, loads, faults

exporter == <<job, base, next, result>>
loader == <<context, frame, paths, stage, verdict, before, table, rows>>
vars == <<files, exporter, intact, loader, source, exports, loads, faults>>

Atoms(a) == 0 .. (a.natoms - 1)
Slots == 0 .. (MaxNeighbors - 1)

---------------------------------------------------------------------------
(* What an analysis writes                                                 *)

\* The ids of the frame, or generated ones when it has none.
AtomIds(a) == IF a.ids = Null THEN [i \in Atoms(a) |-> i] ELSE a.ids

\* The columns every dump gets: no array of clusters is exported as zeros.
ExportContext(a) ==
    [of |-> a, natoms |-> a.natoms, ids |-> AtomIds(a), types |-> a.types,
     clusterOf |-> IF a.clusterOf = Null THEN [i \in Atoms(a) |-> 0] ELSE a.clusterOf]

CountOf(a, i) == IF a.counts = Null THEN 0 ELSE a.counts[i]

\* appendNeighbors keeps a list within MAX_NEIGHBORS, and lists name atoms.
ASSUME NeighborsStored ==
    \A a \in Analyses :
        /\ a.natoms \in Nat /\ [i \in Atoms(a) |-> CountOf(a, i)] # Null
        /\ \A i \in Atoms(a) : CountOf(a, i) \in 0 .. MaxNeighbors
        /\ \A i \in Atoms(a) : \A s \in 0 .. (CountOf(a, i) - 1) :
              a.offsets[i] + s \in DOMAIN a.indices /\ a.indices[a.offsets[i] + s] \in Atoms(a)

\* The neighbours of an atom in the slots of its row, -1 where there is none.
NeighborIndices(a, i) ==
    [s \in Slots |->
        IF s < CountOf(a, i) /\ a.offsets[i] + s \in DOMAIN a.indices
        THEN a.indices[a.offsets[i] + s] ELSE -1]

\* The slots whose lattice vector is exported.
ExportableCount(a, i) ==
    LET most == IF a.overrides THEN MaxNeighbors ELSE Coordination[a.types[i]] IN
    IF a.types[i] = Other THEN 0 ELSE IF CountOf(a, i) < most THEN CountOf(a, i) ELSE most

NeighborLatticeVectors(a, i) ==
    [s \in Slots |-> IF s < ExportableCount(a, i) THEN a.vectors[i][s] ELSE ZeroVector]

NeighborTopology(a) ==
    [of |-> a,
     rows |-> [i \in Atoms(a) |->
                [id |-> AtomIds(a)[i], atomIndex |-> i,
                 slots |-> NeighborIndices(a, i), vectors |-> NeighborLatticeVectors(a, i)]]]

\* The tables in the order their rows are written: clusters by id, so that row
\* k is cluster k, and transitions one of each pair, by their two ends.
ClusterRows(a) == [k \in a.clusters |-> k]
Precedes(l, m) == l[1] < m[1] \/ (l[1] = m[1] /\ l[2] < m[2])
LinkRows(a) ==
    LET kept == {l \in a.links : l[1] < l[2]} IN
    CHOOSE s \in [1 .. Cardinality(kept) -> kept] :
        /\ \A l \in kept : \E k \in DOMAIN s : s[k] = l
        /\ \A j, k \in DOMAIN s : j < k => Precedes(s[j], s[k])

Content(a, f) ==
    CASE f = "dump" -> ExportContext(a)
      [] f = "clusters" -> ClusterRows(a)
      [] f = "links" -> LinkRows(a)
      [] f = "neighbors" -> NeighborTopology(a)

\* extractIntegralColumn: the column is there and holds integers.
Integral(column) == column # Null /\ \A i \in DOMAIN column : column[i] # Fraction

\* A dump holds integers, its ids are not negative, and nothing that is written
\* reads like a file that is not there or is spoiled.
ASSUME DumpsWritten ==
    \A a \in Analyses :
        /\ \A i \in Atoms(a) : AtomIds(a)[i] \in Nat
        /\ AtomIds(a) # Null /\ Integral(a.types) /\ Integral(ExportContext(a).clusterOf)
        /\ \A f \in Files : Content(a, f) \notin {Null, Spoiled}

\* The output after f, and the outputs the result names once f is written:
\* the two tables are named together.
After(f) ==
    CASE f = "dump" -> IF base THEN "clusters" ELSE Null
      [] f = "clusters" -> "links"
      [] f = "links" -> "neighbors"
      [] f = "neighbors" -> Null
Named(f) == IF f = "clusters" THEN {} ELSE IF f = "links" THEN {"clusters", "links"} ELSE {f}

---------------------------------------------------------------------------
(* Exporting                                                               *)

\* appendClusterOutputs is called: with an empty outputBase only the dump is
\* written.
BeginExport(a) ==
    /\ job = Null
    /\ exports < MaxExports
    /\ exports' = exports + 1
    /\ \E b \in BOOLEAN : base' = b
    /\ job' = a
    /\ next' = "dump"
    /\ result' = {}
    /\ intact' = Null
    /\ source' = Null
    /\ UNCHANGED <<files, loader, loads, faults>>

\* The next output is written.
Write ==
    /\ job # Null
    /\ files' = [files EXCEPT ![next] = Content(job, next)]
    /\ result' = result \union Named(next)
    /\ next' = After(next)
    /\ job' = IF After(next) = Null THEN Null ELSE job
    /\ intact' = IF After(next) = Null /\ base
                    /\ \A f \in Files \ {next} : files[f] = Content(job, f)
                 THEN job ELSE Null
    /\ UNCHANGED <<base, loader, source, exports, loads, faults>>

\* A table loses its tail: the writers ask the stream before its last buffer
\* is flushed, so the export goes on and names the file.
LoseTail ==
    /\ job # Null
    /\ faults < MaxFaults
    /\ faults' = faults + 1
    /\ next \in {"clusters", "links"}
    /\ \E kept \in 0 .. (Len(Content(job, next)) - 1) :
          files' = [files EXCEPT ![next] = SubSeq(Content(job, next), 1, kept)]
    /\ result' = result \union Named(next)
    /\ next' = After(next)
    /\ UNCHANGED <<job, base, intact, loader, source, exports, loads>>

\* A write fails, before or after it touched the file: the export returns
\* false, and the outputs written before stay where they are.
WriteFails ==
    /\ job # Null
    /\ faults < MaxFaults
    /\ faults' = faults + 1
    /\ \/ files' = [files EXCEPT ![next] = Spoiled]
       \/ UNCHANGED files
    /\ job' = Null
    /\ next' = Null
    /\ UNCHANGED <<base, result, intact, loader, source, exports, loads>>

\* Another program rewrites the dump: its rows in another order, a column
\* left out, or a column of no integers.
RewriteDump ==
    /\ faults < MaxFaults
    /\ faults' = faults + 1
    /\ files.dump \notin {Null, Spoiled}
    /\ LET d == files.dump
           Reordered == [d EXCEPT !.ids = [i \in Atoms(d) |-> d.ids[d.natoms - 1 - i]],
                                  !.types = [i \in Atoms(d) |-> d.types[d.natoms - 1 - i]],
                                  !.clusterOf = [i \in Atoms(d) |-> d.clusterOf[d.natoms - 1 - i]]]
       IN  /\ Null \notin {d.ids, d.types, d.clusterOf}
           /\ \E e \in {Reordered, [Reordered EXCEPT !.ids = Null], [d EXCEPT !.types = Null],
                        [d EXCEPT !.clusterOf = Null], [d EXCEPT !.clusterOf[0] = Fraction]} :
                 files' = [files EXCEPT !.dump = e]
    /\ intact' = Null
    /\ source' = Null
    /\ UNCHANGED <<exporter, loader, exports, loads>>

---------------------------------------------------------------------------
(* Loading                                                                 *)

\* The caller parses the dump and calls load, in a context of its own or in
\* the one an earlier load of as many atoms left, with the paths the result
\* names or with all four.
BeginLoad ==
    /\ stage = "idle"
    /\ loads < MaxLoads
    /\ loads' = loads + 1
    /\ files.dump \notin {Null, Spoiled}
    /\ frame' = files.dump
    /\ \E p \in {result, Files} : paths' = p
    /\ \/ context' = NoContext
       \/ frame # Null /\ frame.natoms = frame'.natoms /\ UNCHANGED context
    /\ before' = context'.graph
    /\ stage' = "frame"
    /\ verdict' = Null
    /\ table' = Null
    /\ rows' = Null
    /\ source' = intact
    /\ UNCHANGED <<files, exporter, intact, exports, faults>>

Return(value) == stage' = "idle" /\ verdict' = value

\* loadStructureAndClusterFromFrame: the types are replaced if the dump has
\* them, and stay replaced when the clusters are then refused.
LoadStructureAndCluster ==
    /\ stage = "frame"
    /\ LET typesRead == frame.types # Null /\ Integral(frame.types)
           refused == (frame.types # Null /\ ~typesRead) \/ ~Integral(frame.clusterOf)
       IN  /\ context' = [context EXCEPT
                !.types = IF typesRead THEN frame.types ELSE @,
                !.clusterOf = IF refused THEN @ ELSE frame.clusterOf]
           /\ IF refused THEN Return(FALSE) ELSE stage' = "neighbors" /\ UNCHANGED verdict
    /\ UNCHANGED <<files, exporter, intact, frame, paths, before, table, rows, source,
                   exports, loads, faults>>

\* The rows of the table by atom; a row is stored under its atom_index.
RowOf(t, i) == CHOOSE r \in {t.rows[k] : k \in DOMAIN t.rows} : r.atomIndex = i

\* Variant: the ids are those of the frame, in whatever order.
IdsPresent(t) ==
    frame.ids = Null
    \/ \A i \in Atoms(frame) : \E j \in Atoms(frame) : RowOf(t, i).id = frame.ids[j]

\* The ids of the table against those of the frame, if the frame has any.
IdsAgree(t) ==
    frame.ids = Null
    \/ \A i \in Atoms(frame) : RowOf(t, i).id >= 0 => RowOf(t, i).id = frame.ids[i]

\* Variant: the slots up to the first that is not positive.
PositiveCount(r) ==
    CHOOSE c \in 0 .. MaxNeighbors :
        /\ \A s \in 0 .. (c - 1) : r.slots[s] > 0
        /\ c = MaxNeighbors \/ r.slots[c] <= 0

\* The slots of a row up to the first negative one.
NeighborCount(r) ==
    CHOOSE c \in 0 .. MaxNeighbors :
        /\ \A s \in 0 .. (c - 1) : r.slots[s] >= 0
        /\ c = MaxNeighbors \/ r.slots[c] < 0

\* Where the neighbours of each atom begin; the last entry is their number.
CompactOffsets(counts, n) ==
    LET Before[i \in 0 .. n] == IF i = 0 THEN 0 ELSE Before[i - 1] + counts[i - 1] IN Before

\* assembleNeighborGraph.
Assembled(t, n) ==
    LET counts == [i \in 0 .. (n - 1) |-> NeighborCount(RowOf(t, i))]
        offsets == CompactOffsets(counts, n)
        OwnerOf(k) == CHOOSE i \in 0 .. (n - 1) : offsets[i] <= k /\ k < offsets[i] + counts[i]
    IN  [context EXCEPT
            !.counts = counts,
            !.offsets = offsets,
            !.indices = [k \in 0 .. (offsets[n] - 1) |->
                            RowOf(t, OwnerOf(k)).slots[k - offsets[OwnerOf(k)]]],
            !.vectors = [i \in 0 .. (n - 1) |-> RowOf(t, i).vectors]]

\* loadNeighborTopologyFromParquet.
LoadNeighborTopology ==
    /\ stage = "neighbors"
    /\ LET t == files.neighbors
           refused == \/ "neighbors" \notin paths
                      \/ t \in {Null, Spoiled}
                      \/ Cardinality(DOMAIN t.rows) # frame.natoms
                      \/ ~IdsAgree(t)
       IN  IF refused
           THEN Return(FALSE) /\ UNCHANGED <<context, table>>
           ELSE /\ context' = Assembled(t, frame.natoms)
                /\ table' = t
                /\ stage' = "graph"
                /\ UNCHANGED verdict
    /\ UNCHANGED <<files, exporter, intact, frame, paths, before, rows, source,
                   exports, loads, faults>>

\* rebuildClusterGraph creates the clusters of the table by rising id until
\* one exists already.
Created(graph, ids) ==
    LET duplicates == {k \in DOMAIN ids : ids[k] \in graph.clusters} IN
    {ids[k] : k \in {m \in DOMAIN ids : \A d \in duplicates : m < d}}

IdsOf(ids) == {ids[k] : k \in DOMAIN ids}

\* Variant: only a graph that has every cluster of the table is refused.
AllDuplicate(graph, ids) == ids # <<>> /\ IdsOf(ids) \subseteq graph.clusters

DuplicateId(graph, ids) == \E k \in DOMAIN ids : ids[k] \in graph.clusters

\* It then creates the transitions, each with its reverse, until one names a
\* cluster the graph does not have.
KnownLinks(clusters, links) ==
    LET unknown == {k \in DOMAIN links : ~({links[k][1], links[k][2]} \subseteq clusters)}
        made == {m \in DOMAIN links : \A u \in unknown : m < u}
    IN  {links[m] : m \in made} \union {<<links[m][2], links[m][1]>> : m \in made}

\* importClusterGraph: both tables are read before the graph is touched.
ImportClusters ==
    /\ stage = "graph"
    /\ LET c == files.clusters
           l == files.links
           unread == \/ ~({"clusters", "links"} \subseteq paths)
                     \/ {c, l} \intersect {Null, Spoiled} # {}
       IN  IF unread
           THEN Return(FALSE) /\ UNCHANGED <<context, rows>>
           ELSE LET clusters == context.graph.clusters \union Created(context.graph, c)
                    refused == DuplicateId(context.graph, c)
                IN  /\ context' = [context EXCEPT !.graph =
                            [clusters |-> clusters,
                             links |-> IF refused THEN @.links
                                       ELSE @.links \union KnownLinks(clusters, l)]]
                    /\ rows' = c
                    /\ Return(~refused /\ \A k \in DOMAIN l : {l[k][1], l[k][2]} \subseteq clusters)
    /\ UNCHANGED <<files, exporter, intact, frame, paths, before, table, source,
                   exports, loads, faults>>

---------------------------------------------------------------------------
Init ==
    /\ files = [f \in Files |-> Null]
    /\ job = Null /\ base = FALSE /\ next = Null /\ result = {}
    /\ intact = Null
    /\ context = NoContext
    /\ frame = Null /\ paths = {} /\ stage = "idle" /\ verdict = Null
    /\ before = NoGraph /\ table = Null /\ rows = Null
    /\ source = Null
    /\ exports = 0 /\ loads = 0 /\ faults = 0

Next ==
    \/ \E a \in Analyses : BeginExport(a)
    \/ Write
    \/ LoseTail
    \/ WriteFails
    \/ RewriteDump
    \/ BeginLoad
    \/ LoadStructureAndCluster
    \/ LoadNeighborTopology
    \/ ImportClusters

Spec == Init /\ [][Next]_vars

---------------------------------------------------------------------------
(* Properties                                                              *)

\* The neighbours of an atom, in the compact arrays of an analysis or of the
\* context.
NeighborList(x, i) ==
    IF x.counts = Null THEN <<>>
    ELSE [s \in 1 .. x.counts[i] |-> x.indices[x.offsets[i] + (s - 1)]]

ExactlyLoaded(a) ==
    /\ context.types = a.types
    /\ \A i \in Atoms(a) : context.clusterOf[i] = IF a.clusterOf = Null THEN 0 ELSE a.clusterOf[i]
    /\ \A i \in Atoms(a) : NeighborList(context, i) = NeighborList(a, i)
    /\ \A i \in Atoms(a), s \in Slots :
          s < CountOf(a, i) /\ a.types[i] # Other /\ s < Coordination[a.types[i]]
          => context.vectors[i][s] = a.vectors[i][s]
    /\ a.clusters # {} => context.graph = [clusters |-> a.clusters, links |-> a.links]

\* An export that completed and the load of what its result names agree: if no
\* other export began and nothing touched the files in the meantime, the load
\* succeeds and gives the structure types, clusters, neighbour lists, lattice
\* vectors and cluster graph of the analysis, whatever failed before.  The one
\* exception is an analysis object that still has clusters: it is refused.
ReloadExact ==
    stage = "idle" /\ verdict # Null /\ source # Null =>
        IF before.clusters = {} \/ source.clusters = {}
        THEN verdict /\ ExactlyLoaded(source)
        ELSE ~verdict

IdOf(a, i) == AtomIds(a)[i]

\* A load that succeeds gives each atom the neighbours, by atom id, the atom of
\* that id had in the analysis the table is from: also when the dump and the
\* table are from different exports, or the dump was reordered, as long as the
\* dump has ids.
AtomsMatch ==
    stage = "idle" /\ verdict = TRUE /\ frame.ids # Null =>
        LET a == table.of IN
        \A i \in Atoms(frame) : \E j \in Atoms(a) :
            /\ IdOf(a, j) = frame.ids[i]
            /\ Len(NeighborList(context, i)) = Len(NeighborList(a, j))
            /\ \A s \in DOMAIN NeighborList(a, j) :
                  frame.ids[NeighborList(context, i)[s]] = IdOf(a, NeighborList(a, j)[s])

\* A graph is imported once: after a load that succeeds the graph has the
\* clusters of one table, never those a failed import left together with those
\* of a later one, and its transitions join clusters it has.
OneImport ==
    stage = "idle" /\ verdict = TRUE =>
        /\ rows # <<>> => context.graph.clusters = IdsOf(rows)
        /\ \A l \in context.graph.links : {l[1], l[2]} \subseteq context.graph.clusters
=============================================================================
