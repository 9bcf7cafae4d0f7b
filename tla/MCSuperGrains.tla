--------------------------- MODULE MCSuperGrains ---------------------------
EXTENDS SuperGrains

\* The six permutations of three axes, a non-commutative group.
MCTm == {p \in [1..3 -> 1..3] : \A a, b \in 1..3 : p[a] = p[b] => a = b}
MCId == [a \in 1..3 |-> a]
MCMul(a, b) == [x \in 1..3 |-> a[b[x]]]
MCInv(a) == [x \in 1..3 |-> CHOOSE y \in 1..3 : a[y] = x]

Cycle == <<2, 3, 1>>
Flip == <<2, 1, 3>>

Some == {t \in [c1 : Cluster, c2 : Cluster, tm : {Cycle, Flip}] : t.c1 # t.c2}

\* Clusters are interchangeable up to the order of the last loop: sequences in
\* which they first occur from the last to the first stand for the others.
Ends(ts) == [k \in 1 .. 2 * Len(ts) |->
                IF k % 2 = 1 THEN ts[(k + 1) \div 2].c1 ELSE ts[k \div 2].c2]
Canonical(ts) ==
    \A k \in DOMAIN Ends(ts) :
        \A c \in Cluster : c > Ends(ts)[k] => \E j \in 1 .. k - 1 : Ends(ts)[j] = c

\* Three transitions that can leave a chain of two parents, and any fourth.
Chained ==
    {<<[c1 |-> 4, c2 |-> 3, tm |-> Cycle], [c1 |-> 2, c2 |-> 1, tm |-> Flip], t, u>> :
        t \in {t \in Some : t.c1 \in {3, 4} /\ t.c2 \in {1, 2}}, u \in Some}

MCTransitionSeqs ==
    {<<>>} \cup {ts \in {<<a, b, c>> : a, b, c \in Some} : Canonical(ts)} \cup Chained
=============================================================================
