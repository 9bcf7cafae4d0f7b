-------------------------- MODULE MCClusterGrowth --------------------------
EXTENDS SymmetryChoice, TLC

CONSTANTS Fcc, Hcp

\* The six permutations of three axes, the identity first: 1 to 3 swap two
\* axes, 4 and 5 turn all three.
MCTm == 0 .. 5
Products == <<<<0, 1, 2, 3, 4, 5>>,
              <<1, 0, 4, 5, 2, 3>>,
              <<2, 5, 0, 4, 3, 1>>,
              <<3, 4, 5, 0, 1, 2>>,
              <<4, 3, 1, 2, 5, 0>>,
              <<5, 2, 3, 1, 0, 4>>>>
Inverses == <<0, 1, 2, 3, 5, 4>>
MCMul(a, b) == Products[a + 1][b + 1]
MCInv(a) == Inverses[a + 1]

Swap == 1
Cycle == 4

\* A ring of three atoms with a fourth attached, and a chain closed on itself
\* through the periodic boundary.  Neighbour slots are in both directions.
Lattices == {<<<<2, 3>>, <<1, 3>>, <<2, 1, 4>>, <<3, 4>>>>,
             <<<<2>>, <<1, 4>>, <<3, 4>>, <<2, 3>>>>}

BondSets == {<<Swap, Cycle>>, <<Cycle, NoOverlap>>}

\* Slot n of atom a carries the bonds of a set in turn, from a neighbour with a
\* smaller index to one with a larger, and the inverse back, so that some
\* rings close and others do not.
Bonds(lattice, set) ==
    [a \in Atom |-> [n \in DOMAIN lattice[a] |->
        LET b == lattice[a][n]
            x == set[((a + b) % Len(set)) + 1]
        IN  IF x = NoOverlap \/ a <= b THEN x ELSE MCInv(x)]]

Full == MCTm
MCInputs ==
    {[type |-> type, neighbors |-> lattice, bond |-> Bonds(lattice, set),
      allowed |-> [a \in Atom |-> IF a = 2 THEN m ELSE IF a = 4 THEN k ELSE Full],
      symmetry |-> [a \in Atom |-> IF a = 1 THEN s ELSE NoSymmetry],
      oriented |-> o] :
        type \in {<<Fcc, Fcc, Fcc, Fcc>>, <<Fcc, Hcp, Fcc, Fcc>>, <<Fcc, Fcc, Other, Fcc>>},
        lattice \in Lattices, set \in BondSets,
        m \in {Full, {Swap}, {0, Cycle}}, k \in {Full, {}},
        s \in {NoSymmetry, Cycle}, o \in {{}, {1, 2, 4}}}
=============================================================================
