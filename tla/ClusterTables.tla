---------------------------- MODULE ClusterTables ----------------------------
(***************************************************************************)
(* The cluster graph travels from one process to the next in two tables    *)
(* (src/analysis/cluster_graph_io.cpp).  An analysis ends with             *)
(* exportClusterGraph, which can fail half way and leave old or cut files. *)
(* Another process reads whatever is there with importClusterGraph and     *)
(* forms its grains with rebuildImportedClusterParentHierarchy.            *)
(*                                                                         *)
(* A table is the sequence of its rows.  Orientations are copied with the  *)
(* rows, numbers keep their value (max_digits10), and a table that cannot  *)
(* be parsed is like one that is missing.                                  *)
(***************************************************************************)
EXTENDS SuperClusters

CONSTANTS NoFile,        \* no table, or one that cannot be parsed
          OldTables,     \* what the two paths can hold before the export
          NotExported

ClusterRow == [id : Int, structure : Structure]
TransitionRow == [c1 : Nat, c2 : Nat, tm : Tm, distance : Nat]    \* see findCluster's assertion

ASSUME TablesAssumption ==
    /\ NoFile \notin Seq(ClusterRow) \cup Seq(TransitionRow)
    /\ \A old \in OldTables :
          /\ old.clusters = NoFile \/ old.clusters \in Seq(ClusterRow)
          /\ old.transitions = NoFile \/ old.transitions \in Seq(TransitionRow)

VARIABLES clustersTable, transitionsTable,    \* the files
          todo,                               \* rows still to be imported
          superTransitions,                   \* superClusterTransitions of the import
          exported                            \* history: the graph the tables hold

files == <<clustersTable, transitionsTable>>
tableVars == <<files, todo, superTransitions, exported>>
vars == <<superVars, tableVars>>

Start ==
    /\ Init
    /\ \E old \in OldTables : clustersTable = old.clusters /\ transitionsTable = old.transitions
    /\ todo = {} /\ superTransitions = <<>> /\ exported = NotExported

Analyse == Next /\ UNCHANGED tableVars

----------------------------------------------------------------------------
(* exportClusterGraph *)

\* The clusters but cluster 0, sorted by id; here ids are in creation order.
ClusterRows ==
    [k \in 1 .. Len(clusters) - 1 |-> [id |-> clusters[k + 1], structure |-> structure[k + 1]]]

ExportedAll(t) == clusters[T(t).c1] < clusters[T(t).c2]       \* variant

\* One direction of each transition between adjacent clusters.
Exported(t) == T(t).distance = 1 /\ clusters[T(t).c1] < clusters[T(t).c2]

\* By cluster, and within a cluster by the other one; the sort leaves open
\* which of equals comes first, here the older.
LinkBefore(t, s) ==
    \/ T(t).c1 < T(s).c1
    \/ T(t).c1 = T(s).c1 /\ T(t).c2 < T(s).c2
    \/ T(t).c1 = T(s).c1 /\ T(t).c2 = T(s).c2 /\ t < s

TransitionRows ==
    LET links == {t \in DOMAIN pool : Exported(t)}
        order == CHOOSE f \in [1 .. Cardinality(links) -> links] :
                     \A i, j \in DOMAIN f : i < j => LinkBefore(f[i], f[j])
    IN  [k \in DOMAIN order |-> [c1 |-> clusters[T(order[k]).c1], c2 |-> clusters[T(order[k]).c2],
                                tm |-> T(order[k]).tm, distance |-> 1]]

\* What a file can hold when writing rows to it failed: it could not be
\* opened, or not be written to the end of its header, of a row or of the rows.
Spoiled(file, rows) == {file, NoFile} \cup {SubSeq(rows, 1, k) : k \in 0 .. Len(rows) - 1}

\* Transitions of the graph between adjacent clusters, with ids for pointers.
DirectTransitions ==
    {<<clusters[T(t).c1], clusters[T(t).c2], T(t).tm>> :
        t \in {t \in DOMAIN pool : T(t).distance = 1}}

NamedClusters == {<<clusters[p], structure[p]>> : p \in DOMAIN clusters \ {1}}

WriteClusters ==
    /\ phase = "built" /\ phase' = "half"
    /\ clustersTable' = ClusterRows
    /\ UNCHANGED <<graphVars, structure, atomCount, root, center, pair, oldTransitionCount,
                   transitionsTable, todo, superTransitions, exported>>

WriteTransitions ==
    /\ phase = "half" /\ phase' = "exit"
    /\ transitionsTable' = TransitionRows
    /\ exported' = [clusters |-> NamedClusters, transitions |-> DirectTransitions,
                    root |-> [p \in DOMAIN clusters |-> clusters[root[p]]]]
    /\ UNCHANGED <<graphVars, structure, atomCount, root, center, pair, oldTransitionCount,
                   clustersTable, todo, superTransitions>>

\* Also without an output name: then no table is written.
ExportClustersFails ==
    /\ phase = "built" /\ phase' = "exit"
    /\ clustersTable' \in Spoiled(clustersTable, ClusterRows)
    /\ UNCHANGED <<graphVars, structure, atomCount, root, center, pair, oldTransitionCount,
                   transitionsTable, todo, superTransitions, exported>>

ExportTransitionsFails ==
    /\ phase = "half" /\ phase' = "exit"
    /\ transitionsTable' \in Spoiled(transitionsTable, TransitionRows)
    /\ UNCHANGED <<graphVars, structure, atomCount, root, center, pair, oldTransitionCount,
                   clustersTable, todo, superTransitions, exported>>

----------------------------------------------------------------------------
(* importClusterGraph, in another process *)

Loads(table) == table # NoFile

\* Both tables are read before anything is created.
StartImport ==
    /\ phase = "exit"
    /\ phase' = IF Loads(clustersTable) /\ Loads(transitionsTable) THEN "clusters" ELSE "rejected"
    /\ todo' = IF phase' = "rejected" THEN {} ELSE DOMAIN clustersTable
    /\ clusters' = <<0>> /\ clusterMap' = [i \in {0} |-> 1]
    /\ pool' = <<>> /\ transitions' = <<<<>>>> /\ clusterTransitions' = <<>>
    /\ disconnected' = {} /\ returned' = G!Null
    /\ structure' = <<Other>> /\ atomCount' = <<0>> /\ root' = <<1>>
    /\ center' = 2 /\ pair' = <<0, 0>> /\ oldTransitionCount' = 0
    /\ UNCHANGED <<files, superTransitions, exported>>

\* What was created stays.
Reject == phase' = "rejected" /\ UNCHANGED <<graphVars, structure, atomCount, root, todo>>

ImportCluster ==
    /\ phase = "clusters"
    /\ \E i \in todo :
          LET row == clustersTable[i] IN
          /\ \A j \in todo : row.id <= clustersTable[j].id
          /\ IF row.id <= 0 \/ G!FindCluster(row.id) # G!Null THEN Reject
             ELSE /\ G!ImportCluster(row.id)
                  /\ structure' = Append(structure, row.structure)
                  /\ atomCount' = Append(atomCount, 0)
                  /\ root' = Append(root, Len(clusters) + 1)
                  /\ todo' = todo \ {i}
                  /\ UNCHANGED phase
    /\ UNCHANGED <<center, pair, oldTransitionCount, files, superTransitions, exported>>

StartLinking ==
    /\ phase = "clusters" /\ todo = {}
    /\ phase' = "links" /\ todo' = DOMAIN transitionsTable
    /\ UNCHANGED <<graphVars, structure, atomCount, root, center, pair, oldTransitionCount,
                   files, superTransitions, exported>>

\* Variant: by clusters only.
RowBeforeByIds(r, s) == r.c1 < s.c1 \/ (r.c1 = s.c1 /\ r.c2 < s.c2)

RowBefore(r, s) ==
    \/ r.distance < s.distance
    \/ r.distance = s.distance /\ r.c1 < s.c1
    \/ r.distance = s.distance /\ r.c1 = s.c1 /\ r.c2 < s.c2

\* The row after which the others come; which of equals comes first is open.
ImportLink ==
    /\ phase = "links"
    /\ \E i \in todo :
          LET row == transitionsTable[i]
              a == G!FindCluster(row.c1)
              b == G!FindCluster(row.c2)
              self == row.c1 = row.c2 \/ row.distance = 0
          IN
          /\ \A j \in todo : ~RowBefore(transitionsTable[j], row)
          /\ \/ /\ G!Null \in {a, b} \/ (self /\ row.tm # Id)
                /\ Reject
             \/ /\ G!Null \notin {a, b} /\ self /\ row.tm = Id
                /\ todo' = todo \ {i}
                /\ UNCHANGED <<graphVars, structure, atomCount, root, phase>>
             \/ /\ G!Null \notin {a, b} /\ ~self
                /\ G!CreateClusterTransition(a, b, row.tm, row.distance)
                /\ returned' = G!Created(a, b, row.tm)
                /\ todo' = todo \ {i}
                /\ UNCHANGED <<clusters, clusterMap, structure, atomCount, root, phase>>
    /\ UNCHANGED <<center, pair, oldTransitionCount, files, superTransitions, exported>>

----------------------------------------------------------------------------
(* rebuildImportedClusterParentHierarchy *)

StartJoining ==
    /\ phase = "links" /\ todo = {}
    /\ phase' = "join"
    /\ UNCHANGED <<graphVars, structure, atomCount, root, center, pair, oldTransitionCount,
                   tableVars>>

\* Variant: nothing is joined across a cluster without topology.
CenterPairsNamed(c) ==
    IF structure[c] = Other THEN {} ELSE DefectPairs(c)

\* A transition to another cluster next to c that has a topology.
ToNamed(c, t) == T(t).distance = 1 /\ T(t).c2 # c /\ structure[T(t).c2] # Other

\* Any two clusters of one topology around a cluster of another one.
CenterPairs(c) ==
    {x \in Places(transitions[c]) :
        /\ ToNamed(c, At(c, x[1])) /\ ToNamed(c, At(c, x[2]))
        /\ T(At(c, x[1])).c2 # T(At(c, x[2])).c2
        /\ structure[T(At(c, x[1])).c2] = structure[T(At(c, x[2])).c2]
        /\ structure[T(At(c, x[1])).c2] # structure[c]}

JoinImportedPair ==
    /\ phase = "join" /\ center \in DOMAIN clusters
    /\ \E x \in Places(transitions[center]) :
          LET t == At(center, x[1])
              s == At(center, x[2])
              symmetries == Symmetries[structure[T(t).c2]]
          IN  /\ NextOf(CenterPairs(center), x)
              /\ Join(t, s, symmetries)
              /\ superTransitions' =
                    IF Misorientation(t, s) \in symmetries /\ ~Contains(superTransitions, returned')
                    THEN Append(superTransitions, returned') ELSE superTransitions
              /\ pair' = x
    /\ UNCHANGED <<structure, atomCount, root, phase, center, oldTransitionCount, files, todo,
                   exported>>

NextImportedCenter ==
    /\ phase = "join" /\ center \in DOMAIN clusters /\ Finished(CenterPairs(center))
    /\ center' = center + 1 /\ pair' = <<0, 0>>
    /\ UNCHANGED <<graphVars, structure, atomCount, root, phase, oldTransitionCount, tableVars>>

FormImportedGrains ==
    /\ phase = "join" /\ center \notin DOMAIN clusters
    /\ root' = GrainRoot(DOMAIN clusters, EdgesOf(superTransitions))
    /\ phase' = "imported"
    /\ UNCHANGED <<graphVars, structure, atomCount, center, pair, oldTransitionCount, tableVars>>

Step ==
    \/ Analyse
    \/ WriteClusters \/ WriteTransitions \/ ExportClustersFails \/ ExportTransitionsFails
    \/ StartImport \/ ImportCluster \/ StartLinking \/ ImportLink
    \/ StartJoining \/ JoinImportedPair \/ NextImportedCenter \/ FormImportedGrains

TablesSpec == Start /\ [][Step]_vars

----------------------------------------------------------------------------
(* Correctness *)

\* The tables can be read and make sense together.
Acceptable ==
    /\ NoFile \notin {clustersTable, transitionsTable}
    /\ \A i, j \in DOMAIN clustersTable :
          clustersTable[i].id > 0 /\ (clustersTable[i].id = clustersTable[j].id => i = j)
    /\ LET ids == {0} \cup {clustersTable[i].id : i \in DOMAIN clustersTable}
       IN  \A i \in DOMAIN transitionsTable :
               LET row == transitionsTable[i] IN
               /\ row.c1 \in ids /\ row.c2 \in ids
               /\ (row.c1 = row.c2 \/ row.distance = 0) => row.tm = Id

\* Tables are imported exactly if they make sense.  Then the graph has their
\* clusters, and clusters are adjacent exactly as the rows say, in both
\* directions, in whatever order the rows are and whatever rows of a longer
\* distance say the same.
ImportExact ==
    /\ phase = "rejected" => ~Acceptable
    /\ phase \in {"join", "imported"} =>
          /\ Acceptable
          /\ Len(clusters) = Len(clustersTable) + 1
          /\ NamedClusters = {<<clustersTable[i].id, clustersTable[i].structure>> :
                                 i \in DOMAIN clustersTable}
          /\ LET rows == {transitionsTable[i] : i \in DOMAIN transitionsTable}
                 direct == {r \in rows : r.distance = 1 /\ r.c1 # r.c2}
             IN  DirectTransitions = {<<r.c1, r.c2, r.tm>> : r \in direct}
                                     \cup {<<r.c2, r.c1, Inv(r.tm)>> : r \in direct}

\* What an analysis exported to the end is never rejected, and another process
\* gets the same clusters and the same adjacencies.
RoundTrip ==
    exported # NotExported =>
        /\ phase # "rejected"
        /\ phase \in {"join", "imported"} =>
              /\ NamedClusters = exported.clusters
              /\ DirectTransitions = exported.transitions

\* Clusters that were one grain when they were exported are one grain when
\* they were imported, unless they were dissolved: even if the defect between
\* them was, and although imported grains are joined by another rule.
GrainsKept ==
    (exported # NotExported /\ phase = "imported") =>
        \A p, q \in DOMAIN clusters :
            (exported.root[p] = exported.root[q] /\ structure[p] # Other) => root[p] = root[q]
=============================================================================
