------------------------ MODULE MCClusterConnection ------------------------
EXTENDS ClusterConnection

\* The six permutations of three axes, a non-commutative group.
MCTm == {p \in [1..3 -> 1..3] : \A i, j \in 1..3 : p[i] = p[j] => i = j}
MCId == [i \in 1..3 |-> i]
MCMul(a, b) == [i \in 1..3 |-> a[b[i]]]
MCInv(a) == [i \in 1..3 |-> CHOOSE j \in 1..3 : a[j] = i]

Cycle == <<2, 3, 1>>
Flip == <<2, 1, 3>>

\* Lists in which an atom without a cluster is named by several others, twice
\* by one of them, and is itself full, nearly full or empty; lists that
\* disagree about who is a neighbour; and one that is too long.
Lattices == {<<<<2, 3>>, <<1, 3, 4>>, <<1, 4>>, <<2>>>>,
             <<<<4, 4, 2>>, <<4, 1>>, <<4>>, <<>>>>,
             <<<<3, 4>>, <<3, 1>>, <<2>>, <<3, 1, 2>>>>,
             <<<<2>>, <<3, 4>>, <<4, 1, 1>>, <<1, 2, 3, 4>>>>}

\* Clusters are numbered in the order of their first atoms.
Labels ==
    {f \in [Atom -> 0 .. NumClusters] :
        \A a \in Atom : f[a] > 1 =>
            \E e \in Atom : e < a /\ f[e] \in {f[a] - 1, f[a]}}

Overlaps(lattice, x, y) ==
    [a \in Atom |-> [n \in DOMAIN lattice[a] |->
        IF a = 1 THEN x ELSE IF lattice[a][n] = 1 THEN y ELSE Flip]]

MCInputs ==
    {[cluster |-> label, neighbors |-> lattice,
      symmetry |-> [a \in Atom |-> IF a = 1 THEN Cycle ELSE IF a = 4 THEN Flip ELSE MCId],
      overlap |-> Overlaps(lattice, x, y)] :
        label \in Labels, lattice \in Lattices,
        x \in {Cycle, NoOverlap}, y \in {Cycle, NoOverlap}}
=============================================================================
