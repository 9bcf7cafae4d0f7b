----------------------- MODULE MCSymmetryPermutations -----------------------
EXTENDS SymmetryPermutations, Functions

Tetrahedron == <<<<1, 1, 1>>, <<1, -1, -1>>, <<-1, 1, -1>>, <<-1, -1, 1>>>>

\* Opposite neighbours side by side: the basis is made of every other one.
Octahedron == <<<<1, 0, 0>>, <<-1, 0, 0>>, <<0, 1, 0>>, <<0, -1, 0>>, <<0, 0, 1>>, <<0, 0, -1>>>>

\* Three neighbours in a plane come first, two of another length above and below.
Bipyramid == <<<<1, -1, 0>>, <<0, 1, -1>>, <<-1, 0, 1>>, <<1, 1, 1>>, <<-1, -1, -1>>>>

\* A long and two short axes, one neighbour short of an even shell.
Prolate == <<<<0, 0, 2>>, <<0, 0, -2>>, <<1, 0, 0>>, <<0, 1, 0>>, <<-1, 0, 0>>>>

\* The same vector twice, no symmetry, and no basis.
Repeated == <<<<1, 0, 0>>, <<0, 1, 0>>, <<0, 1, 0>>, <<0, 0, 1>>>>
Skew == <<<<1, 0, 0>>, <<1, 2, 0>>, <<1, 2, 3>>>>
Flat == <<<<1, 0, 0>>, <<0, 1, 0>>, <<-1, 0, 0>>, <<0, -1, 0>>>>

MCShells == {Tetrahedron, Octahedron, Bipyramid, Prolate, Repeated, Skew, Flat}

\* In three other orders and twice as far; with one neighbour astray, at
\* the same place as the atom, too many or too few.
MCLocals(shell) ==
    LET n == Len(shell)
        orders == {[s \in 1 .. n |-> s], [s \in 1 .. n |-> (s % n) + 1],
                   [s \in 1 .. n |-> IF s = 1 THEN n ELSE IF s = n THEN 1 ELSE s],
                   [s \in 1 .. n |-> ((s + 1) % n) + 1]}
        twice == {[s \in 1 .. n |-> Times(2, shell[f[s]])] : f \in orders}
    IN  twice \cup UNION {{[v EXCEPT ![n] = v[1]], [v EXCEPT ![1] = <<0, 0, 0>>],
                           Append(v, v[1]), SubSeq(v, 1, n - 1)} : v \in twice}

MCTolerance == <<99, 100>>
=============================================================================
