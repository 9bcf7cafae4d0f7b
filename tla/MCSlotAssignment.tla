-------------------------- MODULE MCSlotAssignment --------------------------
EXTENDS SlotAssignment

\* A first row for every order of the weights, and any others.
MCMatrices ==
    {m \in [1 .. 3 -> [1 .. 3 -> {-1, 0, 2}]] : m[1][1] >= m[1][2]}
=============================================================================
