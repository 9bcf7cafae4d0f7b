--------------------------- MODULE SlotAssignment ---------------------------
(***************************************************************************)
(* Neighbours of an atom are assigned to the slots of its structure so     *)
(* that they point the same way as well as possible                        *)
(* (solveMaximumWeightAssignment in                                        *)
(* src/analysis/reconstructed_state_canonicalizer.cpp): rows are           *)
(* neighbours, columns slots, and column 0 is where the search for the     *)
(* slot of one more row begins.  Weights, cosines in the code, are         *)
(* integers from -Scale to Scale here; rounding is left out.               *)
(***************************************************************************)
EXTENDS Integers, FiniteSetsExt

CONSTANTS Count,       \* the number of neighbours, and of slots
          Scale,
          Matrices,    \* the inputs: weights of each row and column
          Infinity     \* no reduced cost found yet

Row == 1 .. Count
Column == 1 .. Count

ASSUME AssignmentAssumption ==
    /\ Count \in Nat \ {0} /\ Scale \in Nat
    /\ Matrices \subseteq [Row -> [Column -> -Scale .. Scale]]
    /\ Infinity \notin Int

VARIABLES weights,
          potentialRow, potentialColumn,
          matchedColumn,     \* the row matched with each column, or 0
          previousColumn,    \* the column each column was reached from
          minReducedCost, used,
          row, column0, pc

potentials == <<potentialRow, potentialColumn>>
vars == <<weights, potentials, matchedColumn, previousColumn, minReducedCost, used,
          row, column0, pc>>

Init ==
    /\ weights \in Matrices
    /\ potentialRow = [r \in 0 .. Count |-> 0]
    /\ potentialColumn = [c \in 0 .. Count |-> 0]
    /\ matchedColumn = [c \in 0 .. Count |-> 0]
    /\ previousColumn = [c \in 0 .. Count |-> 0]
    /\ minReducedCost = [c \in Column |-> Infinity]
    /\ used = {}
    /\ row = 0 /\ column0 = 0 /\ pc = "rows"

MaxWeight == Max({weights[r][c] : r \in Row, c \in Column})

Reduced(r, c) == MaxWeight - weights[r][c] - potentialRow[r] - potentialColumn[c]

----------------------------------------------------------------------------

StartRow ==
    /\ pc = "rows" /\ row < Count
    /\ row' = row + 1
    /\ matchedColumn' = [matchedColumn EXCEPT ![0] = row + 1]
    /\ column0' = 0
    /\ minReducedCost' = [c \in Column |-> Infinity]
    /\ used' = {}
    /\ pc' = "search"
    /\ UNCHANGED <<weights, potentials, previousColumn>>

Kept(cost, rest, delta) == cost     \* variant: costs do not follow the potentials

\* The costs of the columns not reached follow the potentials of the row side.
Lowered(cost, rest, delta) ==
    [c \in Column |-> IF c \in rest THEN cost[c] - delta ELSE cost[c]]

\* Variant: the first column at hand.
AnyNearest(cost, rest) == Min(rest)

\* The column that is cheapest to reach, the first one of equals.
Nearest(cost, rest) == Min({c \in rest : \A d \in rest : cost[c] <= cost[d]})

\* One round of the search: the row at column0 is compared with all columns
\* not reached, and potentials are moved until one of these can be.
Search ==
    /\ pc = "search"
    /\ LET reached == used \cup {column0}
           rest == Column \ reached
           current == matchedColumn[column0]
           better == {c \in rest : \/ minReducedCost[c] = Infinity
                                   \/ Reduced(current, c) < minReducedCost[c]}
           cost == [c \in Column |->
                       IF c \in better THEN Reduced(current, c) ELSE minReducedCost[c]]
           next == Nearest(cost, rest)
           delta == cost[next]
       IN  /\ rest # {}
           /\ used' = reached
           /\ previousColumn' = [c \in 0 .. Count |->
                                    IF c \in better THEN column0 ELSE previousColumn[c]]
           /\ potentialRow' = [r \in 0 .. Count |->
                 IF \E c \in reached : matchedColumn[c] = r
                 THEN potentialRow[r] + delta ELSE potentialRow[r]]
           /\ potentialColumn' = [c \in 0 .. Count |->
                 IF c \in reached THEN potentialColumn[c] - delta ELSE potentialColumn[c]]
           /\ minReducedCost' = Lowered(cost, rest, delta)
           /\ column0' = next
           /\ pc' = IF matchedColumn[next] = 0 THEN "augment" ELSE "search"
    /\ UNCHANGED <<weights, matchedColumn, row>>

\* One step back along the way the search came: its rows move on by a column.
Augment ==
    /\ pc = "augment"
    /\ LET previous == previousColumn[column0]
       IN  /\ matchedColumn' = [matchedColumn EXCEPT ![column0] = matchedColumn[previous]]
           /\ column0' = previous
           /\ pc' = IF previous = 0 THEN "rows" ELSE "augment"
    /\ UNCHANGED <<weights, potentials, previousColumn, minReducedCost, used, row>>

Finish ==
    /\ pc = "rows" /\ row = Count
    /\ pc' = "done"
    /\ UNCHANGED <<weights, potentials, matchedColumn, previousColumn, minReducedCost, used,
                   row, column0>>

\* The caller goes on.
Return == pc = "done" /\ UNCHANGED vars

Next == StartRow \/ Search \/ Augment \/ Finish \/ Return

Spec == Init /\ [][Next]_vars

----------------------------------------------------------------------------
(* Correctness *)

\* Potentials never exceed the cost of any pair and meet it where a row is
\* matched, in the middle of a search and half way back along it too.
PotentialsSound ==
    /\ \A r \in Row, c \in Column : Reduced(r, c) >= 0
    /\ \A c \in Column : matchedColumn[c] # 0 => Reduced(matchedColumn[c], c) = 0

\* The result is a permutation, and no permutation has more weight.
AssignmentOptimal ==
    pc = "done" =>
        LET permutations == {f \in [Column -> Row] : \A c, d \in Column : f[c] = f[d] => c = d}
            weight(f) == SumFunction([c \in Column |-> weights[f[c]][c]])
            result == [c \in Column |-> matchedColumn[c]]
        IN  /\ result \in permutations
            /\ \A f \in permutations : weight(f) <= weight(result)
=============================================================================
