---------------------- MODULE MCShellCanonicalization ----------------------
EXTENDS ShellCanonicalization

CONSTANT Overlap

\* The permutations of three directions, of which the second is at most sixty
\* degrees from each of the others: a neighbour in one fits the slot of the other.
MCSymmetries == {f \in [1 .. 3 -> 1 .. 3] : {f[1], f[2], f[3]} = 1 .. 3}
MCFit == <<<<2, 1, 0>>, <<1, 2, 1>>, <<0, 1, 2>>>>

\* Full lists in three orders, one with a neighbour too many, with two
\* neighbours in one direction, with one in no direction, short ones and none.
\* Of <<3, 2>> one order of greatest weight fits and the other does not.
Shells == {<<1, 2, 3>>, <<2, 3, 1>>, <<2, 1, 3>>, <<3, 1, 2, 1>>, <<2, 2, 3>>,
           <<3, 3, 1>>, <<Overlap, 3, 2>>, <<2, 1>>, <<3, 2>>, <<3>>, <<>>}

MCAtomInputs ==
    {[typed |-> TRUE, oriented |-> o, symmetry |-> f, shell |-> shell] :
        o \in BOOLEAN, shell \in Shells,
        f \in {NoSymmetry, <<1, 2, 3>>, <<2, 1, 3>>, <<2, 3, 1>>, <<3, 1, 2>>}}
    \cup {[typed |-> FALSE, oriented |-> FALSE, symmetry |-> NoSymmetry, shell |-> <<2, 3>>]}
=============================================================================
