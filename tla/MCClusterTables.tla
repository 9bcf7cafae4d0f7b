-------------------------- MODULE MCClusterTables --------------------------
EXTENDS ClusterTables

\* The six permutations of three axes, a non-commutative group.
MCTm == {p \in [1..3 -> 1..3] : \A i, j \in 1..3 : p[i] = p[j] => i = j}
MCId == [i \in 1..3 |-> i]
MCMul(a, b) == [i \in 1..3 |-> a[b[i]]]
MCInv(a) == [i \in 1..3 |-> CHOOSE j \in 1..3 : a[j] = i]

Cycle == <<2, 3, 1>>
Flip == <<2, 1, 3>>

\* The crystal has the rotations, the defect phase a mirror.
MCSymmetries == [s \in {"fcc", "hcp"} |->
                    IF s = "fcc" THEN {MCId, Cycle, MCMul(Cycle, Cycle)} ELSE {MCId, Flip}]

Link(a, b, m) == [c1 |-> a, c2 |-> b, tm |-> m]

\* A defect between three clusters two of which touch; two defects between
\* two clusters; and a chain: around each cluster, every kind of structure.
Shapes(x, y, z) ==
    {<<Link(1, 2, x), Link(1, 3, y), Link(2, 3, z), Link(1, 4, Flip)>>,
     <<Link(3, 1, x), Link(2, 1, y), Link(2, 4, z), Link(3, 4, Cycle)>>,
     <<Link(1, 2, x), Link(3, 2, y), Link(4, 3, z)>>}

ShapeInputs ==
    {[structure |-> s, atomCount |-> n, links |-> l] :
        s \in {t \in [1 .. 4 -> {"fcc", "hcp"}] : t[1] # t[2] \/ t[2] # t[3]},
        n \in {<<60, 10, 60, 10>>, <<10, 10, 60, 60>>},
        l \in Shapes(Cycle, Cycle, MCId) \cup Shapes(MCId, Flip, Cycle) \cup Shapes(Cycle, MCId, Cycle)}

\* Four clusters: two crystals meet at a large defect, at one that is
\* dissolved, at both, or also touch each other.
MCInputs ==
    ShapeInputs \cup
    {[structure |-> <<"fcc", "hcp", "fcc", s>>, atomCount |-> <<60, d, n, 10>>,
      links |-> <<Link(2, 1, x), Link(3, 2, Cycle), Link(3, 4, Flip), Link(4, 1, y)>> \o l] :
        s \in {"fcc", "hcp"}, d \in {10, 60}, n \in {10, 60},
        x \in {Cycle, Flip}, y \in {MCId, Flip}, l \in {<<>>, <<Link(1, 3, MCId)>>}}

Row(i, s) == [id |-> i, structure |-> s]
LinkRow(a, b, m, d) == [c1 |-> a, c2 |-> b, tm |-> m, distance |-> d]

\* Ids with a gap and out of order; and ids that are not allowed.
ClusterTable == <<Row(7, "fcc"), Row(2, "hcp"), Row(3, "fcc")>>
BadClusterTables == {<<Row(2, "fcc"), Row(0, "hcp")>>, <<Row(2, "fcc"), Row(1, "hcp"), Row(2, "fcc")>>}

\* Both directions, a longer way before and after what it is equal to, two
\* ways between the same clusters, a cluster and itself, cluster 0; rows that refer
\* to no cluster or turn a cluster against itself.
LinkTable ==
    <<LinkRow(2, 7, Cycle, 2), LinkRow(7, 2, MCInv(Cycle), 1), LinkRow(3, 2, Flip, 1),
      LinkRow(3, 2, Cycle, 1), LinkRow(3, 3, MCId, 1), LinkRow(2, 3, Flip, 2),
      LinkRow(0, 3, Flip, 1)>>
BadLinkTables ==
    {<<LinkRow(2, 3, Flip, 1), LinkRow(2, 4, Cycle, 1)>>, <<LinkRow(2, 2, Flip, 1)>>,
     <<LinkRow(2, 3, Flip, 0)>>}

\* Rows that also make sense for the clusters of the analysis.
OlderLinkTable == <<LinkRow(3, 2, Flip, 1)>>

MCOldTables ==
    {[clusters |-> c, transitions |-> t] :
        c \in {ClusterTable, NoFile}, t \in {LinkTable, OlderLinkTable, NoFile}}
    \cup {[clusters |-> ClusterTable, transitions |-> t] : t \in BadLinkTables}
    \cup {[clusters |-> c, transitions |-> OlderLinkTable] : c \in BadClusterTables}
=============================================================================
