--------------------------- MODULE MCClusterGraph ---------------------------
EXTENDS ClusterGraph

\* The six permutations of three axes, a non-commutative group.
MCTm == {p \in [1..3 -> 1..3] : \A i, j \in 1..3 : p[i] = p[j] => i = j}
MCId == [i \in 1..3 |-> i]
MCMul(a, b) == [i \in 1..3 |-> a[b[i]]]
MCInv(a) == [i \in 1..3 |-> CHOOSE j \in 1..3 : a[j] = i]

Cycle == <<2, 3, 1>>
Flip == <<2, 1, 3>>
MCInputTm == {Cycle, Flip}

\* No operation reads what the last one returned.
StateView == <<clusters, clusterMap, pool, transitions, clusterTransitions, disconnected>>
=============================================================================
