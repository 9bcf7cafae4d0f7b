------------------------ MODULE SymmetryPermutations ------------------------
(***************************************************************************)
(* The symmetries of an ideal neighbour shell.  A topology is read with    *)
(* its neighbour vectors only; the permutations of the neighbours that are *)
(* rotations are found by going through all permutations in order and      *)
(* leaping over those that cannot be (generateSymmetryPermutations in      *)
(* include/volt/analysis/crystal_symmetry_utils.h), the rotations are kept *)
(* and multiplied, and the whole can be carried over to an atom whose      *)
(* neighbours come in another order (adaptSharedCrystalTopology).          *)
(*                                                                         *)
(* Vectors have integer coordinates and comparisons are exact.  A matrix   *)
(* is given by the images of the three basis vectors of the shell.  Slots  *)
(* count from 1.                                                           *)
(***************************************************************************)
EXTENDS Integers, Sequences, FiniteSets, SequencesExt

CONSTANTS Shells,       \* neighbour vectors a topology file can list
          Locals(_),    \* neighbour vectors an atom of such a topology can have
          Tolerance     \* <<n, d>>: directions are the same from cosine^2 = n / d on

VARIABLES vectors,          \* neighborVectors of the topology
          permutation, lastPermutation,
          transformation,   \* of the symmetry that is being tried
          symmetries,       \* those found: their permutation and transformation
          inverseProduct,   \* of each two symmetries, as an index
          localVectors,
          adapted,          \* the adapted topology's symmetries, permutations only
          stage             \* what comes next

symmetryVars == <<vectors, permutation, lastPermutation, transformation, symmetries,
          inverseProduct, localVectors, adapted, stage>>

Slot == DOMAIN vectors
Axis == 1 .. 3

Dot(u, v) == u[1] * v[1] + u[2] * v[2] + u[3] * v[3]
Cross(u, v) == <<u[2] * v[3] - u[3] * v[2], u[3] * v[1] - u[1] * v[3], u[1] * v[2] - u[2] * v[1]>>
Det(u, v, w) == Dot(Cross(u, v), w)
Times(n, v) == [x \in Axis |-> n * v[x]]
Nowhere == <<0, 0, 0>>

\* The cosine of an angle, squared with its sign, as a fraction.
Cosine(u, v) ==
    LET d == Dot(u, v) IN <<IF d < 0 THEN -d * d ELSE d * d, Dot(u, u) * Dot(v, v)>>
Below(p, q) == p[1] * q[2] < q[1] * p[2]
Alike(u, v) == ~Below(Cosine(u, v), Tolerance)

\* Shells are far enough from each other to tell which neighbour of a shell is
\* meant by one of an atom.
ASSUME ShellsAssumption ==
    \A shell \in Shells :
        /\ shell \in Seq([Axis -> Int]) /\ Len(shell) > 0
        /\ \A local \in Locals(shell) :
              /\ local \in Seq([Axis -> Int])
              /\ \A l \in DOMAIN local, s, t \in DOMAIN shell :
                    /\ Nowhere \notin {local[l], shell[s], shell[t]}
                    /\ Alike(local[l], shell[s]) /\ Alike(local[l], shell[t])
                    => shell[s] = shell[t]

\* Second and third vectors of a basis, the next that are not in the line or
\* the plane of those before.
SecondOf == {s \in Slot : Cross(vectors[1], vectors[s]) # Nowhere}
FirstIn(S) == CHOOSE s \in S : \A t \in S : s <= t
LastIn(S) == CHOOSE s \in S : \A t \in S : t <= s

\* The number of S that k - 1 others are less than.
Nth(S, k) == CHOOSE s \in S : Cardinality({t \in S : t < s}) = k - 1

ThirdOf == {s \in Slot : /\ s > FirstIn(SecondOf)
                         /\ Det(vectors[1], vectors[FirstIn(SecondOf)], vectors[s]) # 0}
NoBasis == SecondOf = {} \/ ThirdOf = {}
BasisIndices == <<1, FirstIn(SecondOf), FirstIn(ThirdOf)>>
Basis == [i \in Axis |-> vectors[BasisIndices[i]]]
Volume(basis) == Det(basis[1], basis[2], basis[3])

\* The image of v under the matrix that takes the basis to T, times the
\* basis' determinant.
Image(T, v) ==
    LET c == <<Det(v, Basis[2], Basis[3]), Det(Basis[1], v, Basis[3]), Det(Basis[1], Basis[2], v)>>
    IN  [x \in Axis |-> c[1] * T[1][x] + c[2] * T[2][x] + c[3] * T[3][x]]

Takes(T, v, w) == Image(T, v) = Times(Volume(Basis), w)

IsOrthogonalMatrix(T) == \A i, j \in Axis : Dot(T[i], T[j]) = Dot(Basis[i], Basis[j])

SymmetryInit ==
    /\ vectors \in Shells
    /\ localVectors = <<>>
    /\ permutation = [s \in Slot |-> s]
    /\ lastPermutation = [s \in Slot |-> 0]
    /\ transformation = <<>> /\ symmetries = <<>> /\ inverseProduct = <<>> /\ adapted = <<>>
    /\ stage = IF NoBasis THEN "rejected" ELSE "permute"

----------------------------------------------------------------------------
(* Enumeration *)

\* std::next_permutation, if there is one.
Ascents(p) == {s \in Slot \ {1} : p[s - 1] < p[s]}

NextPermutation(p) ==
    LET i == LastIn(Ascents(p))
        j == LastIn({s \in Slot : s >= i /\ p[s] > p[i - 1]})
        swapped == [p EXCEPT ![i - 1] = p[j], ![j] = p[i - 1]]
    IN  [s \in Slot |-> swapped[IF s < i THEN s ELSE Len(vectors) + i - s]]

\* p up to a slot, then the other numbers with the greatest first.
Descending(p, upTo) ==
    LET rest == {p[s] : s \in {t \in Slot : t > upTo}}
    IN  [s \in Slot |-> IF s <= upTo THEN p[s] ELSE Nth(rest, Len(vectors) + 1 - s)]

LastLikeBefore(p, from) == Descending(p, from - 1)   \* variant: the slot is sorted as well

\* bitmapSort: the last of the permutations that begin alike.
LastLike(p, from) == Descending(p, from)

\* Skip what begins like the permutation up to a slot, and go on or end.
LeapFrom(from) ==
    LET p == LastLike(permutation, from)
    IN  /\ lastPermutation' = permutation
        /\ IF Ascents(p) # {} THEN permutation' = NextPermutation(p) /\ stage' = stage
                              ELSE permutation' = permutation /\ stage' = "retain"
        /\ UNCHANGED <<vectors, inverseProduct, localVectors, adapted>>

ChangedFrom == FirstIn({s \in Slot : permutation[s] # lastPermutation[s]})
BasisChanged == ChangedFrom <= BasisIndices[3]
Transformed ==
    IF BasisChanged THEN [i \in Axis |-> vectors[permutation[BasisIndices[i]]]]
                    ELSE transformation

\* Slots, from the first to be looked at on, whose vector goes elsewhere.
InvalidFrom ==
    {s \in Slot : /\ s >= ChangedFrom \/ BasisChanged
                  /\ ~Takes(Transformed, vectors[s], vectors[permutation[s]])}

NotOrthogonal ==
    /\ BasisChanged /\ ~IsOrthogonalMatrix(Transformed)
    /\ transformation' = Transformed
    /\ LeapFrom(BasisIndices[3])
    /\ UNCHANGED symmetries

Misplaced ==
    /\ BasisChanged => IsOrthogonalMatrix(Transformed)
    /\ InvalidFrom # {}
    /\ transformation' = Transformed
    /\ LeapFrom(FirstIn(InvalidFrom))
    /\ UNCHANGED symmetries

\* A permutation that only swaps equal vectors has been found before.
FindSymmetry ==
    /\ BasisChanged => IsOrthogonalMatrix(Transformed)
    /\ InvalidFrom = {}
    /\ transformation' = Transformed
    /\ symmetries' = IF \E i \in DOMAIN symmetries : symmetries[i].transformation = Transformed
                     THEN symmetries
                     ELSE Append(symmetries, [permutation |-> permutation,
                                              transformation |-> Transformed])
    /\ LeapFrom(BasisIndices[3])

----------------------------------------------------------------------------
(* The group *)

Proper(T) == Volume(T) * Volume(Basis) > 0

RetainProperRotations ==
    /\ stage = "retain" /\ stage' = "multiply"
    /\ LET kept == {i \in DOMAIN symmetries : Proper(symmetries[i].transformation)}
       IN  symmetries' = [k \in 1 .. Cardinality(kept) |-> symmetries[Nth(kept, k)]]
    /\ UNCHANGED <<vectors, permutation, lastPermutation, transformation, inverseProduct,
                   localVectors, adapted>>

ProductsOf(a, b) ==                         \* variant: the product itself
    {c \in DOMAIN symmetries : \A i \in Axis :
        Takes(symmetries[b].transformation, symmetries[a].transformation[i],
              symmetries[c].transformation[i])}

\* Symmetries that are the inverse of b times a: b takes them to a.
Quotients(a, b) ==
    {c \in DOMAIN symmetries : \A i \in Axis :
        Takes(symmetries[b].transformation, symmetries[c].transformation[i],
              symmetries[a].transformation[i])}

\* Nothing is entered for a quotient that is no symmetry: a row is then short.
CalculateSymmetryProducts ==
    /\ stage = "multiply" /\ stage' = "share"
    /\ inverseProduct' =
          [a \in DOMAIN symmetries |->
              LET found == {b \in DOMAIN symmetries : Quotients(a, b) # {}}
              IN  [k \in 1 .. Cardinality(found) |-> FirstIn(Quotients(a, Nth(found, k)))]]
    /\ UNCHANGED <<vectors, permutation, lastPermutation, transformation, symmetries,
                   localVectors, adapted>>

----------------------------------------------------------------------------
(* An atom's own order of the neighbours *)

\* Free slots in the direction most like that of l, the first one is taken.
NearestSlots(l, used) ==
    {s \in Slot \ used : \A t \in Slot \ used :
        ~Below(Cosine(l, vectors[s]), Cosine(l, vectors[t]))}

\* One local neighbour after the other gets the nearest free slot.
MatchedTo(local) ==
    LET matched[n \in 0 .. Len(vectors)] ==
            IF n = 0 THEN <<>>
            ELSE Append(matched[n - 1], FirstIn(NearestSlots(local[n], ToSet(matched[n - 1]))))
    IN  matched

LocalToCanonical == MatchedTo(localVectors')[Len(vectors)]

Sandwiched(f, s) == [l \in Slot |-> f[s[CHOOSE k \in Slot : f[k] = l]]]   \* variant

\* Symmetry s of the shell, for an atom whose neighbour l is in slot f[l].
AdaptedBy(f, s) == [l \in Slot |-> CHOOSE k \in Slot : f[k] = s[f[l]]]

AdaptTopology ==
    /\ stage = "share" /\ stage' = "return"
    /\ localVectors' \in Locals(vectors)
    /\ LET f == LocalToCanonical IN
       IF \/ Len(localVectors') < Len(vectors)
          \/ \E s \in Slot : Nowhere \in {localVectors'[s], vectors[s]}
          \/ \E l \in Slot : ~Alike(localVectors'[l], vectors[f[l]])
       THEN adapted' = adapted
       ELSE adapted' = [i \in DOMAIN symmetries |-> AdaptedBy(f, symmetries[i].permutation)]
    /\ UNCHANGED <<vectors, permutation, lastPermutation, transformation, symmetries, inverseProduct>>

ReturnSymmetries == stage \in {"return", "rejected"} /\ UNCHANGED symmetryVars

SymmetryNext ==
    \/ stage = "permute" /\ (NotOrthogonal \/ Misplaced \/ FindSymmetry)
    \/ RetainProperRotations
    \/ CalculateSymmetryProducts
    \/ AdaptTopology
    \/ ReturnSymmetries

SymmetrySpec == SymmetryInit /\ [][SymmetryNext]_symmetryVars

----------------------------------------------------------------------------
(* Correctness *)

\* The permutations that keep all lengths and angles of the shell.
Isometries ==
    {f \in [Slot -> Slot] :
        /\ \A s, t \in Slot : f[s] = f[t] => s = t
        /\ \A s, t \in Slot : Dot(vectors[f[s]], vectors[f[t]]) = Dot(vectors[s], vectors[t])}

Moves(f) == [s \in Slot |-> vectors[f[s]]]

\* No leap jumps over a symmetry: when all permutations have been tried, those
\* that were found are the isometries of the shell, each once, however the
\* shell begins and whether or not vectors are in a line, in a plane or equal.
EnumerationComplete ==
    stage = "retain" =>
        /\ {Moves(symmetries[i].permutation) : i \in DOMAIN symmetries} = {Moves(f) : f \in Isometries}
        /\ \A i, j \in DOMAIN symmetries :
              Moves(symmetries[i].permutation) = Moves(symmetries[j].permutation) => i = j

\* Every row of the product table is full, so each entry is at the index it
\* belongs to: following it and then b is the same as a.
ProductsPlaced ==
    stage \in {"share", "return"} => \A a, b \in DOMAIN symmetries :
        /\ Len(inverseProduct[a]) = Len(symmetries)
        /\ LET c == symmetries[inverseProduct[a][b]].permutation
           IN  \A s \in Slot : vectors[symmetries[b].permutation[c[s]]] = vectors[symmetries[a].permutation[s]]

\* An adapted symmetry does to the atom's own neighbours what its matrix says:
\* a neighbour goes to the one in the direction the matrix turns it to.
AdaptedTruthful ==
    \A i \in DOMAIN adapted : \A l, s, t \in Slot :
        /\ Alike(localVectors[l], vectors[s])
        /\ Takes(symmetries[i].transformation, vectors[s], vectors[t])
        => Alike(localVectors[adapted[i][l]], vectors[t])
=============================================================================
