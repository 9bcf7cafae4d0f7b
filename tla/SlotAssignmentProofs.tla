------------------------ MODULE SlotAssignmentProofs ------------------------
(***************************************************************************)
(* The potentials of the assignment are sound at every moment, and what it *)
(* returns is optimal, for any number of slots and any weights; and the    *)
(* lists of neighbours rewritten by what it returns, or by symmetry, are   *)
(* what ShellsCanonical says, for any number of atoms and any lists.       *)
(*                                                                         *)
(* The inductive invariant adds to PotentialsSound what the search knows:  *)
(* which rows are matched (Matched), that the costs it keeps are the least *)
(* over the columns reached (Cheapest), and that its way back to column 0  *)
(* is made of pairs that cost nothing (WayBack).  That the result is a     *)
(* permutation follows from where the rows are (RowsPlaced), that it is    *)
(* optimal from sums over sets, which are proved about by an induction     *)
(* over finite sets.                                                       *)
(*                                                                         *)
(* The lists lie one after the other in one array, so that the rewriting   *)
(* of one must leave all others alone (ShellLayout, EntriesApart); the     *)
(* invariant of the loop (ShellInv) says of each atom visited what is      *)
(* promised of it when the call returns.                                   *)
(***************************************************************************)
EXTENDS SlotAssignment, ShellCanonicalization, FiniteSetTheorems, WellFoundedInduction, TLAPS

Index == 0 .. Count

Reached == used \cup {column0}

Typed ==
    /\ weights \in [Row -> [Column -> -Scale .. Scale]]
    /\ potentialRow \in [Index -> Int]
    /\ potentialColumn \in [Index -> Int]
    /\ matchedColumn \in [Index -> Index]
    /\ previousColumn \in [Index -> Index]
    /\ minReducedCost \in [Column -> Int \cup {Infinity}]
    /\ used \subseteq Index
    /\ row \in Index /\ column0 \in Index
    /\ pc \in {"rows", "search", "augment", "done"}

\* No two columns of S have the same row.
Injective(S) ==
    \A c, d \in S : (matchedColumn[c] = matchedColumn[d] /\ matchedColumn[c] # 0) => c = d

\* The row being placed is at column 0, and while the way back is gone the
\* column it has come to is the one whose row is also elsewhere.
Matched ==
    /\ \A c \in Index : matchedColumn[c] <= row
    /\ pc \in {"rows", "done"} => Injective(Column)
    /\ pc = "search" =>
          /\ Injective(Index)
          /\ \A c \in Reached : matchedColumn[c] # 0
          /\ column0 \notin used
          /\ used # {} \/ column0 = 0
          /\ 0 \in Reached
    /\ pc = "augment" =>
          /\ Injective(Index \ {column0})
          /\ column0 # 0
          /\ 0 \in used

\* What is known of column c, not reached, is the least over those reached.
CheapestAt(c) ==
    /\ minReducedCost[c] \in Int
    /\ previousColumn[c] \in used
    /\ minReducedCost[c] = Reduced(matchedColumn[previousColumn[c]], c)
    /\ \A d \in used : minReducedCost[c] <= Reduced(matchedColumn[d], c)

Cheapest ==
    pc = "search" =>
        IF used = {} THEN \A c \in Column : minReducedCost[c] = Infinity
        ELSE \A c \in Column \ Reached : CheapestAt(c)

\* Columns in the order in which they were reached: each one by way of an
\* earlier one and without cost.
Ordered(order) ==
    /\ pc = "search" => \A c \in Reached : order[c] <= order[column0]
    /\ \A c \in Reached \ {0} : order[c] <= order[column0] =>
          /\ previousColumn[c] \in used
          /\ order[previousColumn[c]] < order[c]
          /\ Reduced(matchedColumn[previousColumn[c]], c) = 0

WayBack ==
    pc \in {"search", "augment"} => \E order \in [Index -> Nat] : Ordered(order)

IInv == Typed /\ Matched /\ Cheapest /\ WayBack /\ PotentialsSound

----------------------------------------------------------------------------
(* Least elements *)

\* A set of natural numbers that is not empty has a least element.
LEMMA LeastNatural ==
    ASSUME NEW T, T \subseteq Nat, T # {}
    PROVE  \E m \in T : \A n \in T : m <= n
<1> DEFINE Below == {1 .. n : n \in T}
<1>1. Below \subseteq FiniteSubsetsOf(Nat) /\ Below # {}
  <2>1. \A n \in T : n \in Int /\ 1 .. n \in SUBSET Nat
    OBVIOUS
  <2>2. \A n \in T : IsFiniteSet(1 .. n)
    BY <2>1, FS_Interval
  <2>3. QED
    BY <2>1, <2>2 DEF FiniteSubsetsOf
<1>2. PICK B \in Below : \A C \in Below : <<C, B>> \notin StrictSubsetOrdering(Nat)
  BY <1>1, FS_StrictSubsetOrderingWellFounded, WFMin
<1>3. PICK m \in T : B = 1 .. m
  OBVIOUS
<1>4. ASSUME NEW n \in T, n < m PROVE FALSE
  <2>1. 1 .. n \subseteq 1 .. m /\ m \in 1 .. m /\ m \notin 1 .. n
    BY <1>4
  <2>2. 1 .. n \in SUBSET Nat /\ 1 .. m \in SUBSET Nat /\ 1 .. n # 1 .. m
    BY <2>1
  <2>3. <<1 .. n, 1 .. m>> \in StrictSubsetOrdering(Nat)
    BY <2>1, <2>2 DEF StrictSubsetOrdering
  <2>4. QED
    BY <1>2, <1>3, <2>3
<1>5. QED
  BY <1>4

\* A set of integers with an upper bound has a greatest element.
LEMMA Greatest ==
    ASSUME NEW V, V # {}, NEW b \in Int, \A v \in V : v \in Int /\ v <= b
    PROVE  Max(V) \in V /\ \A w \in V : w <= Max(V)
<1> DEFINE T == {b - v : v \in V}
<1>1. T \subseteq Nat /\ T # {}
  <2>1. \A v \in V : b - v \in Nat
    OBVIOUS
  <2>2. QED
    BY <2>1
<1>2. PICK m \in T : \A n \in T : m <= n
  BY <1>1, LeastNatural
<1>3. PICK v \in V : m = b - v
  OBVIOUS
<1>4. \A w \in V : b - v <= b - w
  BY <1>2, <1>3
<1>5. \A w \in V : v >= w
  BY <1>4
<1>6. Max(V) \in V /\ \A w \in V : Max(V) >= w
  BY <1>5 DEF Max
<1>7. QED
  BY <1>6

\* The largest weight is one, since weights are bounded.
LEMMA MaxWeightType ==
    ASSUME Typed
    PROVE  /\ MaxWeight \in Int
           /\ \A r \in Row, c \in Column : weights[r][c] \in Int /\ weights[r][c] <= MaxWeight
<1> DEFINE V == {weights[r][c] : r \in Row, c \in Column}
<1>1. \A r \in Row, c \in Column : weights[r][c] \in Int /\ weights[r][c] <= Scale
  BY AssignmentAssumption DEF Typed
<1>2. V # {}
  <2>1. 1 \in Row /\ 1 \in Column
    BY AssignmentAssumption DEF Row, Column
  <2>2. \A r \in Row, c \in Column : weights[r][c] \in V
    OBVIOUS
  <2> HIDE DEF V
  <2>3. QED
    BY <2>1, <2>2
<1>3. Scale \in Int /\ \A v \in V : v \in Int /\ v <= Scale
  BY <1>1, AssignmentAssumption
<1>4. Max(V) \in V /\ \A w \in V : w <= Max(V)
  <2> HIDE DEF V
  <2>1. QED
    BY <1>2, <1>3, Greatest
<1>5. QED
  BY <1>1, <1>3, <1>4 DEF MaxWeight

\* The nearest column is one of those not reached, and none of them is nearer.
LEMMA NearestLeast ==
    ASSUME NEW rest, rest \subseteq Column, rest # {},
           NEW cost, \A c \in rest : cost[c] \in Nat
    PROVE  /\ Nearest(cost, rest) \in rest
           /\ \A d \in rest : cost[Nearest(cost, rest)] <= cost[d]
<1> DEFINE costs == {cost[c] : c \in rest}
           best == {c \in rest : \A d \in rest : cost[c] <= cost[d]}
<1>1. costs \subseteq Nat /\ costs # {}
  OBVIOUS
<1>2. PICK m \in costs : \A n \in costs : m <= n
  BY <1>1, LeastNatural
<1>3. PICK c \in rest : m = cost[c]
  OBVIOUS
<1>4. c \in best
  BY <1>2, <1>3
<1>5. best \subseteq Nat /\ best # {}
  BY <1>4 DEF Column
<1>6. PICK k \in best : \A n \in best : k <= n
  BY <1>5, LeastNatural
<1>7. Min(best) \in best
  <2> HIDE DEF best
  <2>1. QED
    BY <1>6 DEF Min
<1>8. QED
  BY <1>7 DEF Nearest

----------------------------------------------------------------------------
(* The step of the search *)

\* Reduced costs are numbers.
LEMMA ReducedType ==
    ASSUME Typed
    PROVE  \A r \in Row, c \in Column : Reduced(r, c) \in Int
<1>1. \A r \in Row, c \in Column :
          potentialRow[r] \in Int /\ potentialColumn[c] \in Int
  <2>1. potentialRow \in [Index -> Int] /\ potentialColumn \in [Index -> Int]
    BY DEF Typed
  <2>2. Row \subseteq Index /\ Column \subseteq Index
    BY AssignmentAssumption DEF Row, Column, Index
  <2>3. QED
    BY <2>1, <2>2
<1>2. QED
  BY <1>1, MaxWeightType DEF Reduced

\* A column reached has a row.
LEMMA ReachedRow ==
    ASSUME Typed, Matched, pc = "search"
    PROVE  Reached \subseteq Index /\ \A d \in Reached : matchedColumn[d] \in Row
<1>1. Reached \subseteq Index
  BY DEF Typed, Reached
<1>2. \A d \in Reached : matchedColumn[d] \in 0 .. Count /\ matchedColumn[d] # 0
  BY <1>1 DEF Typed, Matched, Index
<1>3. QED
  BY <1>1, <1>2, AssignmentAssumption DEF Row

\* After the row at column0 was compared, the cost kept for each column not
\* reached is its least reduced cost over the columns reached.
LEMMA SearchCosts ==
    ASSUME IInv, pc = "search",
           NEW better,
           better = {c \in Column \ Reached : \/ minReducedCost[c] = Infinity
                                              \/ Reduced(matchedColumn[column0], c) < minReducedCost[c]},
           NEW cost,
           cost = [c \in Column |-> IF c \in better THEN Reduced(matchedColumn[column0], c)
                                    ELSE minReducedCost[c]],
           NEW previous,
           previous = [c \in Index |-> IF c \in better THEN column0 ELSE previousColumn[c]]
    PROVE  \A c \in Column \ Reached :
              /\ cost[c] \in Nat
              /\ previous[c] \in Reached
              /\ cost[c] = Reduced(matchedColumn[previous[c]], c)
              /\ \A d \in Reached : cost[c] <= Reduced(matchedColumn[d], c)
<1> SUFFICES ASSUME NEW c \in Column \ Reached
             PROVE  /\ cost[c] \in Nat
                    /\ previous[c] \in Reached
                    /\ cost[c] = Reduced(matchedColumn[previous[c]], c)
                    /\ \A d \in Reached : cost[c] <= Reduced(matchedColumn[d], c)
  OBVIOUS
<1>1. c \in Column /\ c \in Index /\ c \notin Reached
  BY AssignmentAssumption DEF Column, Index
<1>2. \A d \in Reached : matchedColumn[d] \in Row /\ Reduced(matchedColumn[d], c) \in Int
                         /\ Reduced(matchedColumn[d], c) >= 0
  BY <1>1, ReachedRow, ReducedType DEF IInv, PotentialsSound
<1>3. column0 \in Reached
  BY DEF Reached
<1>4. CASE used = {}
  <2>1. minReducedCost[c] = Infinity
    BY <1>1, <1>4 DEF IInv, Cheapest
  <2>2. c \in better
    BY <1>1, <2>1
  <2>3. cost[c] = Reduced(matchedColumn[column0], c) /\ previous[c] = column0
    BY <1>1, <2>2
  <2>4. \A d \in Reached : d = column0
    BY <1>4 DEF Reached
  <2>5. QED
    BY <1>2, <1>3, <2>3, <2>4
<1>5. CASE used # {}
  <2>1. CheapestAt(c)
    BY <1>1, <1>5 DEF IInv, Cheapest
  <2>2. /\ minReducedCost[c] \in Int /\ minReducedCost[c] # Infinity
        /\ previousColumn[c] \in used
        /\ minReducedCost[c] = Reduced(matchedColumn[previousColumn[c]], c)
        /\ \A d \in used : minReducedCost[c] <= Reduced(matchedColumn[d], c)
    BY <2>1, AssignmentAssumption DEF CheapestAt
  <2>3. CASE c \in better
    <3>1. Reduced(matchedColumn[column0], c) < minReducedCost[c]
      BY <2>2, <2>3
    <3>2. cost[c] = Reduced(matchedColumn[column0], c) /\ previous[c] = column0
      BY <1>1, <2>3
    <3>3. \A d \in used : cost[c] <= Reduced(matchedColumn[d], c)
      BY <1>2, <1>3, <2>2, <3>1, <3>2 DEF Reached
    <3>4. \A d \in Reached : cost[c] <= Reduced(matchedColumn[d], c)
      BY <1>2, <1>3, <3>2, <3>3 DEF Reached
    <3>5. QED
      BY <1>2, <1>3, <3>2, <3>4
  <2>4. CASE c \notin better
    <3>1. ~(Reduced(matchedColumn[column0], c) < minReducedCost[c])
      BY <1>1, <2>4
    <3>2. cost[c] = minReducedCost[c] /\ previous[c] = previousColumn[c]
      BY <1>1, <2>4
    <3>3. \A d \in Reached : cost[c] <= Reduced(matchedColumn[d], c)
      BY <1>2, <1>3, <2>2, <3>1, <3>2 DEF Reached
    <3>4. previousColumn[c] \in Reached
      BY <2>2 DEF Reached
    <3>5. QED
      BY <1>2, <2>2, <3>2, <3>3, <3>4
  <2>5. QED
    BY <2>3, <2>4
<1>6. QED
  BY <1>4, <1>5

\* Reduced costs of pairs change when one side alone is reached.
LEMMA SearchReduced ==
    ASSUME IInv, pc = "search", UNCHANGED weights, NEW delta \in Int,
           potentialRow' = [r \in Index |-> IF \E c \in Reached : matchedColumn[c] = r
                                            THEN potentialRow[r] + delta ELSE potentialRow[r]],
           potentialColumn' = [c \in Index |-> IF c \in Reached THEN potentialColumn[c] - delta
                                               ELSE potentialColumn[c]]
    PROVE  \A r \in Row, c \in Column :
              LET before == MaxWeight - weights[r][c] - potentialRow[r] - potentialColumn[c]
                  after  == MaxWeight' - weights'[r][c] - potentialRow'[r] - potentialColumn'[c]
                  rowReached == \E d \in Reached : matchedColumn[d] = r
              IN  /\ before = Reduced(r, c) /\ before \in Int /\ before >= 0
                  /\ rowReached /\ c \notin Reached => after = before - delta
                  /\ ~rowReached /\ c \in Reached => after = before + delta
                  /\ (rowReached <=> c \in Reached) => after = before
<1> SUFFICES ASSUME NEW r \in Row, NEW c \in Column
             PROVE  LET before == MaxWeight - weights[r][c] - potentialRow[r] - potentialColumn[c]
                        after  == MaxWeight' - weights'[r][c] - potentialRow'[r] - potentialColumn'[c]
                        rowReached == \E d \in Reached : matchedColumn[d] = r
                    IN  /\ before = Reduced(r, c) /\ before \in Int /\ before >= 0
                        /\ rowReached /\ c \notin Reached => after = before - delta
                        /\ ~rowReached /\ c \in Reached => after = before + delta
                        /\ (rowReached <=> c \in Reached) => after = before
  OBVIOUS
<1>1. MaxWeight' = MaxWeight
  BY DEF MaxWeight
<1>2. /\ MaxWeight \in Int /\ weights[r][c] \in Int
      /\ potentialRow[r] \in Int /\ potentialColumn[c] \in Int
  <2>1. potentialRow \in [Index -> Int] /\ potentialColumn \in [Index -> Int]
    BY DEF IInv, Typed
  <2>2. r \in Index /\ c \in Index
    BY AssignmentAssumption DEF Row, Column, Index
  <2>3. QED
    BY <2>1, <2>2, MaxWeightType DEF IInv
<1>3. /\ potentialRow'[r] = IF \E d \in Reached : matchedColumn[d] = r
                            THEN potentialRow[r] + delta ELSE potentialRow[r]
      /\ potentialColumn'[c] = IF c \in Reached THEN potentialColumn[c] - delta
                               ELSE potentialColumn[c]
  BY AssignmentAssumption DEF Row, Column, Index
<1>4. Reduced(r, c) = MaxWeight - weights[r][c] - potentialRow[r] - potentialColumn[c]
      /\ Reduced(r, c) >= 0
  BY DEF IInv, PotentialsSound, Reduced
<1>5. CASE \E d \in Reached : matchedColumn[d] = r
  BY <1>1, <1>2, <1>3, <1>4, <1>5
<1>6. CASE ~\E d \in Reached : matchedColumn[d] = r
  BY <1>1, <1>2, <1>3, <1>4, <1>6
<1>7. QED
  BY <1>5, <1>6

\* A round of the search keeps everything.
LEMMA SearchStep == IInv /\ Search => IInv'
<1> SUFFICES ASSUME IInv, Search PROVE IInv'
  OBVIOUS
<1> DEFINE rest == Column \ Reached
           better == {c \in rest : \/ minReducedCost[c] = Infinity
                                   \/ Reduced(matchedColumn[column0], c) < minReducedCost[c]}
           cost == [c \in Column |-> IF c \in better THEN Reduced(matchedColumn[column0], c)
                                     ELSE minReducedCost[c]]
           previous == [c \in Index |-> IF c \in better THEN column0 ELSE previousColumn[c]]
           next == Nearest(cost, rest)
           delta == cost[next]
<1>1. /\ pc = "search" /\ rest # {}
      /\ used' = Reached /\ previousColumn' = previous
      /\ potentialRow' = [r \in Index |-> IF \E c \in Reached : matchedColumn[c] = r
                                          THEN potentialRow[r] + delta ELSE potentialRow[r]]
      /\ potentialColumn' = [c \in Index |-> IF c \in Reached THEN potentialColumn[c] - delta
                                             ELSE potentialColumn[c]]
      /\ minReducedCost' = [c \in Column |-> IF c \in rest THEN cost[c] - delta ELSE cost[c]]
      /\ column0' = next
      /\ pc' = IF matchedColumn[next] = 0 THEN "augment" ELSE "search"
      /\ UNCHANGED <<weights, matchedColumn, row>>
  BY DEF Search, Lowered, Reached, Index
<1>2. \A c \in rest : /\ cost[c] \in Nat
                      /\ previous[c] \in Reached
                      /\ cost[c] = Reduced(matchedColumn[previous[c]], c)
                      /\ \A d \in Reached : cost[c] <= Reduced(matchedColumn[d], c)
  BY <1>1, SearchCosts
<1>3. next \in rest /\ \A d \in rest : delta <= cost[d]
  <2> HIDE DEF cost
  <2>1. rest \subseteq Column
    OBVIOUS
  <2>2. QED
    BY <1>1, <1>2, <2>1, NearestLeast
<1>4. delta \in Nat
  BY <1>2, <1>3
<1>5. Typed /\ Matched
  BY DEF IInv
<1>6. Reached \subseteq Index /\ \A d \in Reached : matchedColumn[d] \in Row
  BY <1>1, <1>5, ReachedRow
<1>7. Column \subseteq Index /\ Row \subseteq Index /\ 0 \notin Column
  BY AssignmentAssumption DEF Row, Column, Index
<1>8. \A c \in Index \ rest : previous[c] = previousColumn[c]
  OBVIOUS
<1>9. \A c \in Column : c \notin rest => cost[c] = minReducedCost[c]
  OBVIOUS
<1>10. DOMAIN previous = Index /\ previous = [c \in Index |-> previous[c]]
  OBVIOUS
<1> HIDE DEF better, cost, previous, next, delta
<1>11. Typed'
  <2>1. previousColumn' \in [Index -> Index]
    <3>1. previousColumn \in [Index -> Index]
      BY <1>5 DEF Typed
    <3>2. \A c \in Index : previous[c] \in Index
      BY <1>2, <1>6, <1>8, <3>1
    <3>3. QED
      BY <1>1, <1>10, <3>2
  <2>2. potentialRow' \in [Index -> Int] /\ potentialColumn' \in [Index -> Int]
    <3>1. potentialRow \in [Index -> Int] /\ potentialColumn \in [Index -> Int]
      BY <1>5 DEF Typed
    <3>2. QED
      BY <1>1, <1>4, <3>1
  <2>3. minReducedCost' \in [Column -> Int \cup {Infinity}]
    <3>1. minReducedCost \in [Column -> Int \cup {Infinity}]
      BY <1>5 DEF Typed
    <3>2. \A c \in Column : IF c \in rest THEN cost[c] - delta \in Int
                            ELSE cost[c] \in Int \cup {Infinity}
      BY <1>2, <1>4, <1>9, <3>1
    <3>3. QED
      BY <1>1, <3>2
  <2>4. used' \subseteq Index /\ column0' \in Index /\ pc' \in {"search", "augment"}
    BY <1>1, <1>3, <1>6, <1>7
  <2>5. /\ weights' \in [Row -> [Column -> -Scale .. Scale]]
        /\ matchedColumn' \in [Index -> Index] /\ row' \in Index
    BY <1>1, <1>5 DEF Typed
  <2>6. QED
    BY <2>1, <2>2, <2>3, <2>4, <2>5 DEF Typed
<1>12. Matched'
  <2>1. \A c \in Index : matchedColumn'[c] <= row'
    BY <1>1, <1>5 DEF Matched
  <2>2. Injective(Index)
    BY <1>1, <1>5 DEF Matched
  <2>3. Injective(Index)' /\ Injective(Index \ {column0})'
    BY <1>1, <2>2 DEF Injective
  <2>4. Reached' = Reached \cup {next} /\ column0' = next /\ used' = Reached
    BY <1>1 DEF Reached
  <2>5. column0 \in Reached /\ 0 \in Reached /\ \A c \in Reached : matchedColumn[c] # 0
    BY <1>1, <1>5 DEF Matched, Reached
  <2>6. next \notin Reached /\ next # 0
    BY <1>3, <1>7
  <2>7. pc' = "search" => matchedColumn[next] # 0
    BY <1>1
  <2>8. pc' \in {"search", "augment"}
    BY <1>1
  <2>9. pc' = "search" => \A c \in Reached' : matchedColumn'[c] # 0
    BY <1>1, <2>4, <2>5, <2>7
  <2>10. QED
    BY <2>1, <2>3, <2>4, <2>5, <2>6, <2>8, <2>9 DEF Matched
<1> DEFINE After(r, c) == MaxWeight' - weights'[r][c] - potentialRow'[r] - potentialColumn'[c]
           RowReached(r) == \E d \in Reached : matchedColumn[d] = r
<1>13. \A r \in Row, c \in Column :
          /\ Reduced(r, c) \in Int /\ Reduced(r, c) >= 0
          /\ RowReached(r) /\ c \notin Reached => After(r, c) = Reduced(r, c) - delta
          /\ ~RowReached(r) /\ c \in Reached => After(r, c) = Reduced(r, c) + delta
          /\ (RowReached(r) <=> c \in Reached) => After(r, c) = Reduced(r, c)
  <2>1. UNCHANGED weights /\ delta \in Int /\ pc = "search"
    BY <1>1, <1>4
  <2>2. /\ potentialRow' = [r \in Index |-> IF \E c \in Reached : matchedColumn[c] = r
                                            THEN potentialRow[r] + delta ELSE potentialRow[r]]
        /\ potentialColumn' = [c \in Index |-> IF c \in Reached THEN potentialColumn[c] - delta
                                               ELSE potentialColumn[c]]
    BY <1>1
  <2>3. QED
    BY <2>1, <2>2, SearchReduced
<1>14. \A d \in Reached : RowReached(matchedColumn[d])
  OBVIOUS
<1> HIDE DEF RowReached
<1>15. Cheapest'
  <2>1. used' # {}
    BY <1>1 DEF Reached
  <2>2. SUFFICES ASSUME NEW c \in Column, c \notin Reached'
                 PROVE  CheapestAt(c)'
    BY <2>1 DEF Cheapest
  <2>3. c \in rest /\ c \notin Reached /\ c \in Index
    BY <1>1, <1>7, <2>2 DEF Reached
  <2>4. /\ minReducedCost'[c] = cost[c] - delta
        /\ previousColumn'[c] = previous[c]
        /\ used' = Reached /\ matchedColumn' = matchedColumn
    BY <1>1, <2>3
  <2>5. \A d \in Reached : /\ matchedColumn[d] \in Row
                           /\ After(matchedColumn[d], c) = Reduced(matchedColumn[d], c) - delta
                           /\ Reduced(matchedColumn[d], c) \in Int
    BY <1>6, <1>13, <1>14, <2>3
  <2>6. /\ cost[c] \in Nat
        /\ previous[c] \in Reached
        /\ cost[c] = Reduced(matchedColumn[previous[c]], c)
        /\ \A d \in Reached : cost[c] <= Reduced(matchedColumn[d], c)
    BY <1>2, <2>3
  <2>7. minReducedCost'[c] = After(matchedColumn[previous[c]], c)
    BY <2>4, <2>5, <2>6
  <2>8. \A d \in Reached : minReducedCost'[c] <= After(matchedColumn[d], c)
    BY <1>4, <2>4, <2>5, <2>6
  <2>9. minReducedCost'[c] \in Int
    BY <1>4, <2>4, <2>6
  <2>10. QED
    BY <2>4, <2>6, <2>7, <2>8, <2>9 DEF CheapestAt, Reduced
<1>16. WayBack'
  <2>1. PICK order \in [Index -> Nat] : Ordered(order)
    BY <1>1 DEF IInv, WayBack
  <2>2. \A c \in Reached : order[c] <= order[column0]
    BY <1>1, <2>1 DEF Ordered
  <2>3. column0 \in Reached /\ next \notin Reached /\ next \in Column /\ next \in Index
    BY <1>3, <1>7 DEF Reached
  <2>4. order[column0] \in Nat /\ \A c \in Reached : order[c] \in Nat
    BY <1>6, <2>3
  <2>5. PICK later \in [Index -> Nat] : /\ later[next] = order[column0] + 1
                                       /\ \A c \in Reached : later[c] = order[c]
    <3> DEFINE further == [i \in Index |-> IF i = next THEN order[column0] + 1 ELSE order[i]]
    <3>1. further \in [Index -> Nat]
      BY <2>4
    <3>2. further[next] = order[column0] + 1 /\ \A c \in Reached : further[c] = order[c]
      BY <1>6, <2>3
    <3> HIDE DEF further
    <3>3. QED
      BY <3>1, <3>2
  <2>6. Reached' = Reached \cup {next} /\ used' = Reached /\ matchedColumn' = matchedColumn
        /\ column0' = next
    BY <1>1 DEF Reached
  <2>7. \A c \in Reached' : later[c] <= later[next]
    BY <2>2, <2>4, <2>5, <2>6
  <2>8. ASSUME NEW c \in Reached, c # 0
        PROVE  /\ previousColumn'[c] \in Reached
               /\ later[previousColumn'[c]] < later[c]
               /\ After(matchedColumn[previousColumn'[c]], c) = 0
    <3>1. c \in Index /\ c \in Column
      BY <1>6, <2>8, AssignmentAssumption DEF Index, Column
    <3>2. previousColumn'[c] = previousColumn[c]
      BY <1>1, <1>8, <2>8, <3>1
    <3>3. /\ previousColumn[c] \in used
          /\ order[previousColumn[c]] < order[c]
          /\ Reduced(matchedColumn[previousColumn[c]], c) = 0
      BY <2>1, <2>2, <2>8 DEF Ordered
    <3>4. previousColumn[c] \in Reached
      BY <3>3 DEF Reached
    <3>5. After(matchedColumn[previousColumn[c]], c) = Reduced(matchedColumn[previousColumn[c]], c)
      <4>1. matchedColumn[previousColumn[c]] \in Row /\ RowReached(matchedColumn[previousColumn[c]])
        BY <1>6, <1>14, <3>4
      <4>2. QED
        BY <1>13, <2>8, <3>1, <4>1
    <3>6. QED
      BY <2>5, <3>2, <3>3, <3>4, <3>5
  <2>9. /\ previousColumn'[next] \in Reached
        /\ later[previousColumn'[next]] < later[next]
        /\ After(matchedColumn[previousColumn'[next]], next) = 0
    <3>1. previousColumn'[next] = previous[next] /\ previous[next] \in Reached
      BY <1>1, <1>2, <1>3, <2>3
    <3>2. /\ matchedColumn[previous[next]] \in Row /\ RowReached(matchedColumn[previous[next]])
      BY <1>6, <1>14, <3>1
    <3>3. /\ After(matchedColumn[previous[next]], next)
                = Reduced(matchedColumn[previous[next]], next) - delta
          /\ Reduced(matchedColumn[previous[next]], next) \in Int
      BY <1>13, <2>3, <3>2
    <3>4. Reduced(matchedColumn[previous[next]], next) = delta
      BY <1>2, <1>3 DEF delta
    <3>5. order[previous[next]] <= order[column0] /\ order[previous[next]] \in Nat
      BY <2>2, <2>4, <3>1
    <3>6. QED
      BY <1>4, <2>4, <2>5, <3>1, <3>3, <3>4, <3>5
  <2>10. \A c \in Reached' \ {0} :
            /\ previousColumn'[c] \in used'
            /\ later[previousColumn'[c]] < later[c]
            /\ After(matchedColumn'[previousColumn'[c]], c) = 0
    BY <2>6, <2>8, <2>9
  <2>11. Ordered(later)'
    BY <2>6, <2>7, <2>10 DEF Ordered, Reduced
  <2>12. QED
    BY <2>11 DEF WayBack
<1>17. PotentialsSound'
  <2>1. ASSUME NEW r \in Row, NEW c \in Column PROVE After(r, c) >= 0
    <3>1. CASE RowReached(r) /\ c \notin Reached
      <4>1. PICK d \in Reached : matchedColumn[d] = r
        BY <3>1 DEF RowReached
      <4>2. c \in rest
        BY <3>1
      <4>3. cost[c] <= Reduced(r, c) /\ delta <= cost[c] /\ cost[c] \in Nat
        BY <1>2, <1>3, <4>1, <4>2
      <4>4. QED
        BY <1>4, <1>13, <3>1, <4>3
    <3>2. CASE ~RowReached(r) /\ c \in Reached
      BY <1>4, <1>13, <3>2
    <3>3. CASE RowReached(r) <=> c \in Reached
      BY <1>13, <3>3
    <3>4. QED
      BY <3>1, <3>2, <3>3
  <2>2. ASSUME NEW c \in Column, matchedColumn[c] # 0 PROVE After(matchedColumn[c], c) = 0
    <3>1. matchedColumn[c] \in Row /\ Reduced(matchedColumn[c], c) = 0
      <4>1. matchedColumn[c] \in Index
        BY <1>5, <1>7 DEF Typed
      <4>2. QED
        BY <2>2, <4>1, AssignmentAssumption DEF IInv, PotentialsSound, Index, Row
    <3>2. RowReached(matchedColumn[c]) => c \in Reached
      <4>1. Injective(Index)
        BY <1>1, <1>5 DEF Matched
      <4>2. QED
        BY <1>6, <1>7, <2>2, <4>1 DEF RowReached, Injective
    <3>3. RowReached(matchedColumn[c]) <=> c \in Reached
      BY <1>14, <3>2
    <3>4. QED
      BY <1>13, <3>1, <3>3
  <2>3. matchedColumn' = matchedColumn
    BY <1>1
  <2>4. QED
    BY <2>1, <2>2, <2>3 DEF PotentialsSound, Reduced
<1>18. QED
  BY <1>11, <1>12, <1>15, <1>16, <1>17 DEF IInv

----------------------------------------------------------------------------
(* The other steps *)

\* Potentials stay sound when they and the rows matched with the columns do
\* not change, but for a column that is matched without cost.
LEMMA SoundKept ==
    ASSUME PotentialsSound, UNCHANGED <<weights, potentials>>,
           \A c \in Column : \/ matchedColumn'[c] = matchedColumn[c]
                             \/ Reduced(matchedColumn'[c], c) = 0
    PROVE  PotentialsSound'
<1>1. MaxWeight' = MaxWeight /\ UNCHANGED <<weights, potentialRow, potentialColumn>>
  BY DEF MaxWeight, potentials
<1>2. QED
  BY <1>1 DEF PotentialsSound, Reduced

LEMMA InitStep == Init => IInv
<1> SUFFICES ASSUME Init PROVE IInv
  OBVIOUS
<1>1. 0 \in Index /\ Column \subseteq Index /\ Row \subseteq Index
  BY AssignmentAssumption DEF Index, Row, Column
<1>2. Typed
  <2>1. weights \in [Row -> [Column -> -Scale .. Scale]]
    BY AssignmentAssumption DEF Init
  <2>2. QED
    BY <1>1, <2>1 DEF Init, Typed, Index
<1>3. Matched
  BY <1>1 DEF Init, Matched, Injective, Index, Column
<1>4. Cheapest /\ WayBack
  BY DEF Init, Cheapest, WayBack
<1>5. PotentialsSound
  <2>1. \A r \in Row, c \in Column : potentialRow[r] = 0 /\ potentialColumn[c] = 0
    BY <1>1 DEF Init, Index
  <2>2. \A r \in Row, c \in Column : Reduced(r, c) >= 0
    BY <1>2, <2>1, MaxWeightType DEF Reduced
  <2>3. \A c \in Column : matchedColumn[c] = 0
    BY <1>1 DEF Init, Index
  <2>4. QED
    BY <2>2, <2>3 DEF PotentialsSound
<1>6. QED
  BY <1>2, <1>3, <1>4, <1>5 DEF IInv

LEMMA StartRowStep == IInv /\ StartRow => IInv'
<1> SUFFICES ASSUME IInv, StartRow PROVE IInv'
  OBVIOUS
<1>1. /\ pc = "rows" /\ pc' = "search" /\ column0' = 0 /\ used' = {}
      /\ row' = row + 1 /\ row < Count
      /\ matchedColumn' = [matchedColumn EXCEPT ![0] = row + 1]
      /\ minReducedCost' = [c \in Column |-> Infinity]
      /\ UNCHANGED <<weights, potentials, previousColumn>>
  BY DEF StartRow
<1>2. /\ matchedColumn \in [Index -> Index] /\ row \in Index
      /\ \A c \in Index : matchedColumn[c] <= row
      /\ Injective(Column)
  BY <1>1 DEF IInv, Typed, Matched
<1>3. row \in Nat /\ row + 1 \in Index /\ 0 \in Index
      /\ Index = Column \cup {0} /\ 0 \notin Column
  <2>1. Count \in Nat /\ row \in 0 .. Count /\ row < Count
    BY <1>1, <1>2, AssignmentAssumption DEF Index
  <2>2. row \in Nat /\ row + 1 \in 0 .. Count
    BY <2>1
  <2>3. 0 \in 0 .. Count /\ 0 .. Count = (1 .. Count) \cup {0} /\ 0 \notin 1 .. Count
    BY <2>1
  <2>4. QED
    BY <2>2, <2>3 DEF Index, Column
<1>4. /\ matchedColumn' \in [Index -> Index]
      /\ matchedColumn'[0] = row + 1
      /\ \A c \in Column : matchedColumn'[c] = matchedColumn[c] /\ matchedColumn[c] <= row
  BY <1>1, <1>2, <1>3
<1>5. \A c \in Column : matchedColumn[c] \in Nat
  BY <1>2, <1>3 DEF Index
<1>6. Typed'
  BY <1>1, <1>3, <1>4 DEF IInv, Typed, potentials
<1>7. Matched'
  <2>1. \A c \in Index : matchedColumn'[c] <= row'
    BY <1>1, <1>3, <1>4, <1>5
  <2>2. \A c \in Column : matchedColumn'[c] # matchedColumn'[0]
    BY <1>3, <1>4, <1>5
  <2>3. \A c, d \in Column : matchedColumn'[c] = matchedColumn'[d] /\ matchedColumn'[c] # 0 => c = d
    BY <1>2, <1>4 DEF Injective
  <2>4. Injective(Index)'
    BY <1>3, <2>2, <2>3 DEF Injective
  <2>5. Reached' = {0}
    BY <1>1 DEF Reached
  <2>6. QED
    BY <1>1, <1>3, <1>4, <2>1, <2>4, <2>5 DEF Matched
<1>8. Cheapest'
  BY <1>1 DEF Cheapest
<1>9. WayBack'
  <2>1. PICK order \in [Index -> Nat] : order = [i \in Index |-> 0]
    OBVIOUS
  <2>2. Reached' = {0} /\ order[0] = 0
    BY <1>1, <1>3, <2>1 DEF Reached
  <2>3. Ordered(order)'
    BY <1>1, <2>2 DEF Ordered
  <2>4. QED
    BY <2>3 DEF WayBack
<1>10. PotentialsSound'
  BY <1>1, <1>4, SoundKept DEF IInv
<1>11. QED
  BY <1>6, <1>7, <1>8, <1>9, <1>10 DEF IInv

LEMMA AugmentStep == IInv /\ Augment => IInv'
<1> SUFFICES ASSUME IInv, Augment PROVE IInv'
  OBVIOUS
<1> DEFINE previous == previousColumn[column0]
<1>1. /\ pc = "augment"
      /\ matchedColumn' = [matchedColumn EXCEPT ![column0] = matchedColumn[previous]]
      /\ column0' = previous
      /\ pc' = IF previous = 0 THEN "rows" ELSE "augment"
      /\ UNCHANGED <<weights, potentials, previousColumn, minReducedCost, used, row>>
  BY DEF Augment
<1>2. PICK order \in [Index -> Nat] : Ordered(order)
  BY <1>1 DEF IInv, WayBack
<1>3. /\ matchedColumn \in [Index -> Index] /\ column0 \in Index /\ column0 # 0
      /\ used \subseteq Index /\ 0 \in used /\ row \in Index
      /\ \A c \in Index : matchedColumn[c] <= row
      /\ Injective(Index \ {column0})
  BY <1>1 DEF IInv, Typed, Matched
<1>4. \A i \in Index : order[i] \in Nat
  OBVIOUS
<1>5. /\ previous \in used
      /\ order[previous] < order[column0]
      /\ Reduced(matchedColumn[previous], column0) = 0
  BY <1>2, <1>3, <1>4 DEF Ordered, Reached
<1>6. previous \in Index /\ previous # column0
  BY <1>3, <1>4, <1>5
<1> HIDE DEF previous
<1>7. /\ matchedColumn' \in [Index -> Index]
      /\ matchedColumn'[column0] = matchedColumn[previous]
      /\ \A c \in Index \ {column0} : matchedColumn'[c] = matchedColumn[c]
  BY <1>1, <1>3, <1>6
<1>8. Typed'
  BY <1>1, <1>6, <1>7 DEF IInv, Typed, potentials
<1>9. Matched'
  <2>1. \A c \in Index : matchedColumn'[c] <= row'
    BY <1>1, <1>3, <1>6, <1>7
  <2>2. Injective(Index \ {column0})'
    <3>1. SUFFICES ASSUME NEW c \in Index \ {previous}, NEW d \in Index \ {previous},
                          matchedColumn'[c] = matchedColumn'[d], matchedColumn'[c] # 0
                   PROVE  c = d
      BY <1>1 DEF Injective
    <3>2. CASE c # column0 /\ d # column0
      BY <1>3, <1>7, <3>1, <3>2 DEF Injective
    <3>3. CASE c = column0 /\ d # column0
      BY <1>3, <1>6, <1>7, <3>1, <3>3 DEF Injective
    <3>4. CASE c # column0 /\ d = column0
      BY <1>3, <1>6, <1>7, <3>1, <3>4 DEF Injective
    <3>5. QED
      BY <3>2, <3>3, <3>4
  <2>3. previous = 0 => Column \subseteq Index \ {previous}
    BY AssignmentAssumption DEF Index, Column
  <2>4. previous = 0 => Injective(Column)'
    BY <1>1, <2>2, <2>3 DEF Injective
  <2>5. QED
    BY <1>1, <1>3, <2>1, <2>2, <2>4 DEF Matched
<1>10. Cheapest'
  BY <1>1 DEF Cheapest
<1>11. WayBack'
  <2>1. Reached' \subseteq Reached /\ Reached' \subseteq Index /\ used' = used
    BY <1>1, <1>3, <1>5, <1>6 DEF Reached
  <2>2. MaxWeight' = MaxWeight /\ UNCHANGED <<weights, potentialRow, potentialColumn>>
    BY <1>1 DEF MaxWeight, potentials
  <2>3. ASSUME NEW c \in Reached', c # 0, order[c] <= order[previous]
        PROVE  /\ previousColumn'[c] \in used'
               /\ order[previousColumn'[c]] < order[c]
               /\ MaxWeight' - weights'[matchedColumn'[previousColumn'[c]]][c]
                    - potentialRow'[matchedColumn'[previousColumn'[c]]] - potentialColumn'[c] = 0
    <3>1. order[c] <= order[column0] /\ order[c] < order[column0] /\ c \in Reached
      BY <1>3, <1>4, <1>5, <1>6, <2>1, <2>3
    <3>2. /\ previousColumn[c] \in used
          /\ order[previousColumn[c]] < order[c]
          /\ Reduced(matchedColumn[previousColumn[c]], c) = 0
      BY <1>2, <2>3, <3>1 DEF Ordered
    <3>3. previousColumn[c] \in Index \ {column0}
      BY <1>3, <1>4, <2>1, <3>1, <3>2
    <3>4. QED
      BY <1>1, <1>7, <2>1, <2>2, <3>2, <3>3 DEF Reduced
  <2>4. pc' # "search" /\ column0' = previous
    BY <1>1
  <2>5. Ordered(order)'
    BY <2>3, <2>4 DEF Ordered, Reduced
  <2>6. QED
    BY <2>5 DEF WayBack
<1>12. PotentialsSound'
  <2>1. \A c \in Column : \/ matchedColumn'[c] = matchedColumn[c]
                          \/ Reduced(matchedColumn'[c], c) = 0
    <3>1. Column \subseteq Index
      BY AssignmentAssumption DEF Column, Index
    <3>2. SUFFICES ASSUME NEW c \in Column, matchedColumn'[c] # matchedColumn[c]
                   PROVE  Reduced(matchedColumn'[c], c) = 0
      OBVIOUS
    <3>3. c = column0
      BY <1>7, <3>1, <3>2
    <3>4. QED
      BY <1>5, <1>7, <3>3
  <2>2. QED
    BY <1>1, <2>1, SoundKept DEF IInv
<1>13. QED
  BY <1>8, <1>9, <1>10, <1>11, <1>12 DEF IInv

\* The end of the loop over the rows, and the steps that change nothing.
LEMMA EndStep == IInv /\ (Finish \/ UNCHANGED vars) => IInv'
<1> SUFFICES ASSUME IInv, Finish \/ UNCHANGED vars PROVE IInv'
  OBVIOUS
<1>1. /\ UNCHANGED <<weights, potentials, matchedColumn, previousColumn, minReducedCost, used,
                     row, column0>>
      /\ (pc = "rows" /\ pc' = "done") \/ pc' = pc
  BY DEF Finish, vars
<1>2. /\ UNCHANGED <<weights, potentialRow, potentialColumn, matchedColumn, previousColumn>>
      /\ UNCHANGED <<minReducedCost, used, row, column0, Reached, MaxWeight>>
  BY <1>1 DEF potentials, Reached, MaxWeight
<1>3. Typed'
  BY <1>1, <1>2 DEF IInv, Typed
<1>4. Matched'
  BY <1>1, <1>2 DEF IInv, Matched, Injective
<1>5. Cheapest'
  BY <1>1, <1>2 DEF IInv, Cheapest, CheapestAt, Reduced
<1>6. WayBack'
  BY <1>1, <1>2 DEF IInv, WayBack, Ordered, Reduced
<1>7. PotentialsSound'
  BY <1>1, SoundKept DEF IInv
<1>8. QED
  BY <1>3, <1>4, <1>5, <1>6, <1>7 DEF IInv

\* At every moment of solveMaximumWeightAssignment, for any weights: no pair
\* of a neighbour and a slot costs less than its potentials, and pairs that
\* are matched cost just as much.
THEOREM PotentialsSoundCorrect == Spec => []PotentialsSound
<1>1. Init => IInv
  BY InitStep
<1>2. IInv /\ [Next]_vars => IInv'
  BY StartRowStep, SearchStep, AugmentStep, EndStep DEF Next, Return
<1>3. IInv => PotentialsSound
  BY DEF IInv
<1>4. QED
  BY <1>1, <1>2, <1>3, PTL DEF Spec

----------------------------------------------------------------------------
(* Sums *)

\* What is true of 0, and of n if it is true of n - 1, is true up to any bound.
LEMMA Induction ==
    ASSUME NEW b \in Nat, NEW G, 0 \in G,
           \A n \in 1 .. b : n - 1 \in G => n \in G
    PROVE  0 .. b \subseteq G
<1> DEFINE S == (0 .. b) \ G
<1>1. SUFFICES ASSUME S # {} PROVE FALSE
  OBVIOUS
<1>2. PICK m \in S : \A n \in S : m <= n
  <2>1. S \subseteq Nat
    OBVIOUS
  <2> HIDE DEF S
  <2>2. QED
    BY <1>1, <2>1, LeastNatural
<1>3. m \in 1 .. b /\ m - 1 \in 0 .. b /\ ~(m <= m - 1)
  OBVIOUS
<1>4. m - 1 \in G
  BY <1>2, <1>3
<1>5. QED
  BY <1>3, <1>4

\* What is true of the empty set, and of a set if it is true of what is left
\* when any one element is taken, is true of the subsets of a finite set.
LEMMA SetInduction ==
    ASSUME NEW S, IsFiniteSet(S), NEW G, {} \in G,
           \A s \in SUBSET S : s # {} /\ (\A x \in s : s \ {x} \in G) => s \in G
    PROVE  SUBSET S \subseteq G
<1> DEFINE Rest == {s \in SUBSET S : s \notin G}
<1>1. SUFFICES ASSUME Rest # {} PROVE FALSE
  OBVIOUS
<1>2. Rest \subseteq FiniteSubsetsOf(S)
  BY FS_Subset DEF FiniteSubsetsOf
<1>3. PICK B \in Rest : \A C \in Rest : <<C, B>> \notin StrictSubsetOrdering(S)
  <2> HIDE DEF Rest
  <2>1. QED
    BY <1>1, <1>2, FS_StrictSubsetOrderingWellFounded, WFMin
<1>4. B \in SUBSET S /\ B # {}
  OBVIOUS
<1>5. ASSUME NEW x \in B PROVE B \ {x} \in G
  <2>1. B \ {x} \in SUBSET S /\ B \in SUBSET S /\ B \ {x} \subseteq B /\ B \ {x} # B
    BY <1>4
  <2>2. <<B \ {x}, B>> \in StrictSubsetOrdering(S)
    BY <2>1 DEF StrictSubsetOrdering
  <2>3. QED
    BY <1>3, <2>1, <2>2
<1>6. QED
  BY <1>4, <1>5

Taken(s) == CHOOSE x \in s : TRUE

\* F is the sum of f over the subsets of S.
SumsOver(F, S, f) ==
    F = [s \in SUBSET S |-> IF s = {} THEN 0 ELSE f[Taken(s)] + F[s \ {Taken(s)}]]

\* SumFunction is the sum over the domain.
LEMMA SumDefined ==
    ASSUME NEW f, IsFiniteSet(DOMAIN f)
    PROVE  \E F : SumsOver(F, DOMAIN f, f) /\ SumFunction(f) = F[DOMAIN f]
<1> DEFINE S == DOMAIN f
           Body(F, s) == IF s = {} THEN 0 ELSE f[Taken(s)] + F[s \ {Taken(s)}]
           Small(b) == {s \in SUBSET S : Cardinality(s) <= b}
           Defined(F, b) == F = [s \in Small(b) |-> Body(F, s)]
           G == {b \in Nat : \E F : Defined(F, b)}
<1>0. Cardinality(S) \in Nat
  BY FS_CardinalityType
<1>a. \A s \in SUBSET S : IsFiniteSet(s) /\ Cardinality(s) \in Nat /\ Cardinality(s) <= Cardinality(S)
                          /\ (Cardinality(s) = 0 <=> s = {})
  BY FS_Subset, FS_CardinalityType, FS_EmptySet
<1>b. ASSUME NEW s \in SUBSET S, s # {}
      PROVE  /\ Taken(s) \in s /\ s \ {Taken(s)} \in SUBSET S
             /\ Cardinality(s \ {Taken(s)}) = Cardinality(s) - 1
  <2>1. Taken(s) \in s
    BY <1>b DEF Taken
  <2>2. QED
    BY <1>a, <2>1, FS_RemoveElement
<1>1. 0 \in G
  <2> DEFINE F == [s \in Small(0) |-> 0]
  <2>1. \A s \in Small(0) : s = {}
    BY <1>a
  <2>2. F = [s \in Small(0) |-> Body(F, s)]
    BY <2>1
  <2>3. QED
    BY <2>2
<1>2. ASSUME NEW b \in 1 .. Cardinality(S), b - 1 \in G
      PROVE  b \in G
  <2>1. PICK F : Defined(F, b - 1)
    BY <1>2
  <2> DEFINE H == [s \in Small(b) |-> Body(F, s)]
  <2>2. ASSUME NEW s \in Small(b - 1) PROVE s \in Small(b) /\ H[s] = F[s]
    <3>1. s \in SUBSET S /\ Cardinality(s) \in Nat /\ Cardinality(s) <= b - 1
      BY <1>a
    <3>2. s \in Small(b)
      BY <1>0, <3>1
    <3>3. F[s] = Body(F, s)
      BY <2>1
    <3> HIDE DEF Small, Body
    <3>4. QED
      BY <3>2, <3>3
  <2>3. ASSUME NEW s \in Small(b) PROVE Body(F, s) = Body(H, s)
    <3>1. CASE s = {}
      BY <3>1
    <3>2. CASE s # {}
      <4> DEFINE r == s \ {Taken(s)}
      <4>1. r \in SUBSET S /\ Cardinality(r) = Cardinality(s) - 1 /\ Cardinality(s) \in Nat
            /\ Cardinality(s) <= b
        BY <1>a, <1>b, <3>2
      <4>2. r \in Small(b - 1)
        <5> HIDE DEF r
        <5>1. Cardinality(r) <= b - 1
          BY <1>0, <4>1
        <5>2. QED
          BY <4>1, <5>1
      <4>3. H[r] = F[r]
        <5> HIDE DEF r, H, Small
        <5>1. QED
          BY <2>2, <4>2
      <4> HIDE DEF H
      <4>4. QED
        BY <3>2, <4>3
    <3>3. QED
      BY <3>1, <3>2
  <2>4. H = [s \in Small(b) |-> Body(H, s)]
    <3> HIDE DEF Body, Small
    <3>1. QED
      BY <2>3
  <2>5. b \in Nat /\ \E K : Defined(K, b)
    <3>1. Defined(H, b)
      <4> HIDE DEF H, Small, Body
      <4>1. QED
        BY <2>4
    <3> HIDE DEF H, Defined
    <3>2. QED
      BY <1>0, <3>1
  <2>6. QED
    BY <2>5
<1>3. \E F : Defined(F, Cardinality(S))
  <2>1. Cardinality(S) \in G
    <3> HIDE DEF G
    <3>1. QED
      BY <1>0, <1>1, <1>2, Induction
  <2>2. QED
    BY <2>1
<1>4. Small(Cardinality(S)) = SUBSET S
  BY <1>a
<1>5. \E F : F = [s \in SUBSET S |-> IF s = {} THEN 0 ELSE f[Taken(s)] + F[s \ {Taken(s)}]]
  <2> HIDE DEF Small
  <2>1. QED
    BY <1>3, <1>4
<1>6. QED
  BY <1>5 DEF SumFunction, SumFunctionOnSet, FoldFunctionOnSet, MapThenFoldSet, SumsOver, Taken

\* Sums of integers over a finite set.
Summed(F, S, f) == IsFiniteSet(S) /\ (\A x \in S : f[x] \in Int) /\ SumsOver(F, S, f)

\* Sums, step by step.
LEMMA SumStep ==
    ASSUME NEW S, NEW f, NEW F, SumsOver(F, S, f)
    PROVE  /\ F[{}] = 0
           /\ \A s \in SUBSET S : s # {} =>
                 /\ Taken(s) \in s
                 /\ F[s] = f[Taken(s)] + F[s \ {Taken(s)}]
<1>1. \A s \in SUBSET S : F[s] = IF s = {} THEN 0 ELSE f[Taken(s)] + F[s \ {Taken(s)}]
  BY DEF SumsOver
<1>2. {} \in SUBSET S
  OBVIOUS
<1>3. QED
  BY <1>1, <1>2 DEF Taken

LEMMA SumTyped ==
    ASSUME NEW S, NEW f, NEW F, Summed(F, S, f)
    PROVE  \A s \in SUBSET S : F[s] \in Int
<1> DEFINE G == {s \in SUBSET S : F[s] \in Int}
<1> USE DEF Summed
<1>1. {} \in G
  BY SumStep
<1>2. ASSUME NEW s \in SUBSET S, s # {}, \A x \in s : s \ {x} \in G PROVE s \in G
  <2>1. Taken(s) \in s /\ F[s] = f[Taken(s)] + F[s \ {Taken(s)}]
    BY <1>2, SumStep
  <2>2. F[s \ {Taken(s)}] \in Int /\ f[Taken(s)] \in Int
    BY <1>2, <2>1
  <2>3. QED
    BY <2>1, <2>2
<1>3. SUBSET S \subseteq G
  <2> HIDE DEF G
  <2>1. QED
    BY <1>1, <1>2, SetInduction
<1>4. QED
  BY <1>3

\* F is a sum of f whichever element is taken first.
TakesAny(F, S, f) == \A s \in SUBSET S : \A y \in s : F[s] = f[y] + F[s \ {y}]

\* The sum does not depend on which element is taken first.
LEMMA SumTakes ==
    ASSUME NEW S, NEW f, NEW F, Summed(F, S, f)
    PROVE  TakesAny(F, S, f)
<1> DEFINE G == {s \in SUBSET S : \A y \in s : F[s] = f[y] + F[s \ {y}]}
<1>0. IsFiniteSet(S) /\ (\A x \in S : f[x] \in Int) /\ SumsOver(F, S, f)
  BY DEF Summed
<1>1. {} \in G
  OBVIOUS
<1>2. ASSUME NEW s \in SUBSET S, s # {}, \A x \in s : s \ {x} \in G PROVE s \in G
  <2> SUFFICES ASSUME NEW y \in s PROVE F[s] = f[y] + F[s \ {y}]
    OBVIOUS
  <2> DEFINE x == Taken(s)
  <2>1. x \in s /\ F[s] = f[x] + F[s \ {x}]
    BY <1>0, <1>2, SumStep
  <2> HIDE DEF x
  <2>2. CASE y = x
    BY <2>1, <2>2
  <2>3. CASE y # x
    <3> DEFINE r == (s \ {x}) \ {y}
    <3>1. s \ {x} \in G /\ s \ {y} \in G /\ y \in s \ {x} /\ x \in s \ {y}
      BY <1>2, <2>1, <2>3
    <3>2. F[s \ {x}] = f[y] + F[r]
      BY <3>1
    <3>3. F[s \ {y}] = f[x] + F[r]
      <4>1. (s \ {y}) \ {x} = r
        OBVIOUS
      <4>2. F[s \ {y}] = f[x] + F[(s \ {y}) \ {x}]
        BY <3>1
      <4>3. QED
        BY <4>1, <4>2
    <3>4. f[x] \in Int /\ f[y] \in Int /\ F[r] \in Int
      <4>1. r \in SUBSET S
        OBVIOUS
      <4> HIDE DEF r
      <4>2. QED
        BY <1>0, <2>1, <4>1, SumTyped
    <3> HIDE DEF r
    <3>5. QED
      BY <2>1, <3>2, <3>3, <3>4
  <2>4. QED
    BY <2>2, <2>3
<1>3. SUBSET S \subseteq G
  <2> HIDE DEF G
  <2>1. QED
    BY <1>0, <1>1, <1>2, SetInduction
<1>4. QED
  BY <1>3 DEF TakesAny

Image(g, s) == {g[c] : c \in s}

\* A sum that is bounded term by term, where one part of the bound is a sum
\* over the values of a permutation.
LEMMA SumBounded ==
    ASSUME NEW S, NEW R,
           NEW g \in [S -> R], \A c, d \in S : g[c] = g[d] => c = d,
           NEW f, NEW F, Summed(F, S, f),
           NEW u, NEW U, Summed(U, R, u),
           NEW q, NEW Q, Summed(Q, S, q)
    PROVE  /\ (\A c \in S : f[c] <= u[g[c]] + q[c]) => F[S] <= U[Image(g, S)] + Q[S]
           /\ (\A c \in S : f[c] = u[g[c]] + q[c]) => F[S] = U[Image(g, S)] + Q[S]
<1> DEFINE Bounded(s) ==
              /\ (\A c \in S : f[c] <= u[g[c]] + q[c]) => F[s] <= U[Image(g, s)] + Q[s]
              /\ (\A c \in S : f[c] = u[g[c]] + q[c]) => F[s] = U[Image(g, s)] + Q[s]
           G == {s \in SUBSET S : Bounded(s)}
<1>0. /\ IsFiniteSet(S) /\ \A c \in S : f[c] \in Int /\ q[c] \in Int
      /\ \A r \in R : u[r] \in Int
      /\ SumsOver(F, S, f) /\ SumsOver(U, R, u) /\ SumsOver(Q, S, q)
  BY DEF Summed
<1>1. {} \in G
  <2>1. Image(g, {}) = {}
    BY DEF Image
  <2>2. F[{}] = 0 /\ U[{}] = 0 /\ Q[{}] = 0
    BY <1>0, SumStep
  <2>3. F[{}] <= U[Image(g, {})] + Q[{}] /\ F[{}] = U[Image(g, {})] + Q[{}]
    <3>1. ASSUME NEW a, NEW b, NEW c, a = 0, b = 0, c = 0 PROVE a <= b + c /\ a = b + c
      BY <3>1
    <3>2. QED
      BY <2>1, <2>2, <3>1
  <2>4. QED
    BY <2>3
<1>a. TakesAny(F, S, f)
  BY SumTakes
<1>b. TakesAny(Q, S, q)
  BY SumTakes
<1>c. TakesAny(U, R, u)
  BY SumTakes
<1>2. ASSUME NEW s \in SUBSET S, s # {}, \A x \in s : s \ {x} \in G PROVE s \in G
  <2>1. PICK x \in s : TRUE
    BY <1>2
  <2> DEFINE r == s \ {x}
             i == Image(g, r)
  <2>2. Bounded(r)
    BY <1>2, <2>1
  <2>3. r \in SUBSET S /\ Image(g, s) \in SUBSET R /\ g[x] \in Image(g, s) /\ i = Image(g, s) \ {g[x]}
        /\ i \in SUBSET R
    BY DEF Image
  <2>4. F[s] = f[x] + F[r] /\ Q[s] = q[x] + Q[r]
    BY <1>a, <1>b, <2>1 DEF TakesAny
  <2>5. U[Image(g, s)] = u[g[x]] + U[i]
    BY <1>c, <2>3 DEF TakesAny
  <2>6. F[r] \in Int /\ Q[r] \in Int /\ U[i] \in Int
    <3> HIDE DEF r, i
    <3>1. QED
      BY <2>3, SumTyped
  <2>7. f[x] \in Int /\ q[x] \in Int /\ u[g[x]] \in Int
    BY <1>0
  <2> HIDE DEF r, i
  <2>8. Bounded(s)
    <3>1. ASSUME \A c \in S : f[c] <= u[g[c]] + q[c] PROVE F[s] <= U[Image(g, s)] + Q[s]
      <4>1. F[r] <= U[i] + Q[r] /\ f[x] <= u[g[x]] + q[x]
        BY <2>2, <3>1 DEF i
      <4>2. QED
        BY <2>4, <2>5, <2>6, <2>7, <4>1
    <3>2. ASSUME \A c \in S : f[c] = u[g[c]] + q[c] PROVE F[s] = U[Image(g, s)] + Q[s]
      <4>1. F[r] = U[i] + Q[r] /\ f[x] = u[g[x]] + q[x]
        BY <2>2, <3>2 DEF i
      <4>2. QED
        BY <2>4, <2>5, <2>6, <2>7, <4>1
    <3>3. QED
      BY <3>1, <3>2
  <2>9. QED
    BY <2>8
<1>3. SUBSET S \subseteq G
  <2> HIDE DEF G
  <2>1. QED
    BY <1>0, <1>1, <1>2, SetInduction
<1>4. QED
  BY <1>3

----------------------------------------------------------------------------
(* Where the rows are *)

\* The columns in which rows placed so far are: on the way back the column it
\* has come to holds a row that is also elsewhere.
Carriers ==
    CASE pc = "search" -> Index
      [] pc = "augment" -> Index \ {column0}
      [] OTHER -> Column

\* No row is lost, and the loop over the rows ends with the last one.
RowsPlaced ==
    /\ \A r \in 1 .. row : \E c \in Carriers : matchedColumn[c] = r
    /\ pc = "done" => row = Count

LEMMA RowsPlacedInit == Init => RowsPlaced
BY DEF Init, RowsPlaced

LEMMA RowsPlacedStep == IInv /\ RowsPlaced /\ [Next]_vars => RowsPlaced'
<1> SUFFICES ASSUME IInv, RowsPlaced, [Next]_vars PROVE RowsPlaced'
  OBVIOUS
<1>1. /\ matchedColumn \in [Index -> Index] /\ row \in Index /\ column0 \in Index
      /\ Index = Column \cup {0} /\ 0 \notin Column /\ 0 \in Index
      /\ pc \in {"rows", "search", "augment", "done"}
  <2>1. Index = Column \cup {0} /\ 0 \notin Column /\ 0 \in Index
    BY AssignmentAssumption DEF Index, Column
  <2>2. QED
    BY <2>1 DEF IInv, Typed
<1>2. CASE StartRow
  <2>1. /\ pc = "rows" /\ row < Count /\ row' = row + 1 /\ pc' = "search"
        /\ matchedColumn' = [matchedColumn EXCEPT ![0] = row + 1]
    BY <1>2 DEF StartRow
  <2>2. Carriers = Column /\ Carriers' = Index
    BY <2>1 DEF Carriers
  <2>3. ASSUME NEW r \in 1 .. row' PROVE \E c \in Index : matchedColumn'[c] = r
    <3>1. CASE r = row + 1
      BY <1>1, <2>1, <3>1
    <3>2. CASE r # row + 1
      <4>1. r \in 1 .. row
        BY <1>1, <2>1, <3>2 DEF Index
      <4>2. PICK c \in Column : matchedColumn[c] = r
        BY <2>2, <4>1 DEF RowsPlaced
      <4>3. c \in Index /\ c # 0
        BY <1>1
      <4>4. matchedColumn'[c] = r
        BY <1>1, <2>1, <4>2, <4>3
      <4>5. QED
        BY <4>3, <4>4
    <3>3. QED
      BY <3>1, <3>2
  <2>4. QED
    BY <2>1, <2>2, <2>3 DEF RowsPlaced
<1>3. CASE Search
  <2>1. PICK next : /\ column0' = next
                    /\ pc' = IF matchedColumn[next] = 0 THEN "augment" ELSE "search"
    BY <1>3 DEF Search
  <2>2. pc = "search" /\ UNCHANGED <<matchedColumn, row>>
    BY <1>3 DEF Search
  <2>3. Carriers = Index /\ \A c \in Index : matchedColumn[c] # 0 => c \in Carriers'
    BY <2>1, <2>2 DEF Carriers, Index
  <2>4. ASSUME NEW r \in 1 .. row PROVE \E c \in Carriers' : matchedColumn[c] = r
    <3>1. PICK c \in Index : matchedColumn[c] = r
      BY <2>3 DEF RowsPlaced
    <3>2. r # 0
      OBVIOUS
    <3>3. QED
      BY <2>3, <3>1, <3>2
  <2>5. pc' # "done"
    BY <2>1
  <2>6. QED
    BY <2>2, <2>4, <2>5 DEF RowsPlaced
<1>4. CASE Augment
  <2> DEFINE previous == previousColumn[column0]
  <2>1. /\ pc = "augment"
        /\ matchedColumn' = [matchedColumn EXCEPT ![column0] = matchedColumn[previous]]
        /\ column0' = previous
        /\ pc' = IF previous = 0 THEN "rows" ELSE "augment"
        /\ row' = row
    BY <1>4 DEF Augment
  <2>2. PICK order \in [Index -> Nat] : Ordered(order)
    BY <2>1 DEF IInv, WayBack
  <2>3. column0 # 0 /\ used \subseteq Index
    BY <2>1 DEF IInv, Matched, Typed
  <2>4. previous \in used /\ order[previous] < order[column0]
    <3>1. column0 \in Reached \ {0} /\ order[column0] <= order[column0]
      BY <1>1, <2>3 DEF Reached
    <3>2. QED
      BY <2>2, <3>1 DEF Ordered
  <2>5. previous \in Index /\ previous # column0
    BY <1>1, <2>3, <2>4
  <2> HIDE DEF previous
  <2>6. Carriers = Index \ {column0} /\ Carriers' = Index \ {previous}
    BY <1>1, <2>1 DEF Carriers
  <2>7. ASSUME NEW r \in 1 .. row PROVE \E c \in Carriers' : matchedColumn'[c] = r
    <3>1. PICK c \in Index \ {column0} : matchedColumn[c] = r
      BY <2>6 DEF RowsPlaced
    <3>2. CASE c = previous
      BY <1>1, <2>1, <2>5, <2>6, <3>1, <3>2
    <3>3. CASE c # previous
      <4>1. matchedColumn'[c] = r /\ c \in Carriers'
        BY <1>1, <2>1, <2>6, <3>1, <3>3
      <4>2. QED
        BY <4>1
    <3>4. QED
      BY <3>2, <3>3
  <2>8. pc' # "done"
    BY <2>1
  <2>9. QED
    BY <2>1, <2>7, <2>8 DEF RowsPlaced
<1>5. CASE Finish
  <2>1. pc = "rows" /\ pc' = "done" /\ row = Count /\ UNCHANGED <<matchedColumn, row>>
    BY <1>5 DEF Finish
  <2>2. Carriers = Column /\ Carriers' = Column
    BY <2>1 DEF Carriers
  <2>3. QED
    BY <2>1, <2>2 DEF RowsPlaced
<1>6. CASE UNCHANGED vars
  <2>1. UNCHANGED <<pc, column0, matchedColumn, row>>
    BY <1>6 DEF vars
  <2>2. QED
    BY <2>1 DEF RowsPlaced, Carriers
<1>7. QED
  BY <1>2, <1>3, <1>4, <1>5, <1>6 DEF Next, Return

----------------------------------------------------------------------------
(* Permutations *)

Permutation(g) == g \in [Column -> Row] /\ \A c, d \in Column : g[c] = g[d] => c = d

\* There are as many rows as columns.
LEMMA Equinumerous ==
    IsFiniteSet(Column) /\ IsFiniteSet(Row) /\ Row = Column
<1>1. 1 \in Int /\ Count \in Int
  BY AssignmentAssumption
<1>2. QED
  BY <1>1, FS_Interval DEF Row, Column

\* So a permutation gives every row away.
LEMMA PermutationOnto ==
    ASSUME NEW g, Permutation(g)
    PROVE  Image(g, Column) = Row
<1>1. g \in Injection(Column, Row)
  BY DEF Permutation, Injection, IsInjective
<1>2. g \in Surjection(Column, Row)
  BY <1>1, Equinumerous, FS_Injection
<1>3. g \in [Column -> Row] /\ \A r \in Row : \E c \in Column : g[c] = r
  BY <1>2 DEF Surjection
<1>4. QED
  BY <1>3 DEF Image

\* When the loop has ended the columns have different rows, none of them 0.
LEMMA ResultPermutation ==
    ASSUME IInv, RowsPlaced, pc = "done"
    PROVE  Permutation([c \in Column |-> matchedColumn[c]])
<1>1. /\ matchedColumn \in [Index -> Index] /\ Injective(Column)
      /\ Column \subseteq Index /\ \A i \in Index : i # 0 => i \in Row
  <2>1. Column \subseteq Index /\ \A i \in Index : i # 0 => i \in Row
    BY AssignmentAssumption DEF Index, Row, Column
  <2>2. QED
    BY <2>1 DEF IInv, Typed, Matched
<1>2. \A r \in Row : \E c \in Column : matchedColumn[c] = r
  BY DEF RowsPlaced, Carriers, Row
<1> DEFINE h == [r \in Row |-> CHOOSE c \in Column : matchedColumn[c] = r]
<1>3. \A r \in Row : h[r] \in Column /\ matchedColumn[h[r]] = r
  BY <1>2
<1>4. h \in [Row -> Column]
  BY <1>3
<1> HIDE DEF h
<1>5. h \in Injection(Row, Column)
  <2>1. \A r, s \in Row : h[r] = h[s] => r = s
    BY <1>3
  <2>2. QED
    BY <1>4, <2>1 DEF Injection, IsInjective
<1>6. h \in Surjection(Row, Column)
  BY <1>5, Equinumerous, FS_Injection
<1>7. \A c \in Column : \E r \in Row : h[r] = c
  BY <1>6 DEF Surjection
<1>8. \A c \in Column : matchedColumn[c] \in Row
  BY <1>3, <1>7
<1>9. \A c, d \in Column : matchedColumn[c] = matchedColumn[d] => c = d
  <2>1. \A c \in Column : matchedColumn[c] # 0
    BY <1>8, AssignmentAssumption DEF Row
  <2>2. QED
    BY <1>1, <2>1 DEF Injective
<1>10. QED
  BY <1>8, <1>9 DEF Permutation

----------------------------------------------------------------------------
(* The weight of a permutation *)

Weight(g) == SumFunction([c \in Column |-> weights[g[c]][c]])

\* No permutation has more weight than the potentials allow, and one that
\* costs nothing has as much.
LEMMA WeightBounded ==
    ASSUME IInv
    PROVE  \E b \in Int : \A g : Permutation(g) =>
              /\ Weight(g) <= b
              /\ (\A c \in Column : Reduced(g[c], c) = 0) => Weight(g) = b
<1> DEFINE u == [r \in Row |-> 0 - potentialRow[r]]
           q == [c \in Column |-> MaxWeight - potentialColumn[c]]
<1>1. /\ MaxWeight \in Int
      /\ \A r \in Row : potentialRow[r] \in Int
      /\ \A c \in Column : potentialColumn[c] \in Int
      /\ \A r \in Row, c \in Column : weights[r][c] \in Int
  <2>1. potentialRow \in [Index -> Int] /\ potentialColumn \in [Index -> Int]
    BY DEF IInv, Typed
  <2>2. Row \subseteq Index /\ Column \subseteq Index
    BY AssignmentAssumption DEF Row, Column, Index
  <2>3. QED
    BY <2>1, <2>2, MaxWeightType DEF IInv
<1>2. DOMAIN u = Row /\ DOMAIN q = Column
      /\ (\A r \in Row : u[r] = 0 - potentialRow[r] /\ u[r] \in Int)
      /\ (\A c \in Column : q[c] = MaxWeight - potentialColumn[c] /\ q[c] \in Int)
  BY <1>1
<1> HIDE DEF u, q
<1>3. PICK U : SumsOver(U, Row, u)
  BY <1>2, Equinumerous, SumDefined
<1>4. PICK Q : SumsOver(Q, Column, q)
  BY <1>2, Equinumerous, SumDefined
<1>5. Summed(U, Row, u) /\ Summed(Q, Column, q)
  BY <1>2, <1>3, <1>4, Equinumerous DEF Summed
<1>6. U[Row] + Q[Column] \in Int
  <2>1. U[Row] \in Int
    BY <1>5, SumTyped
  <2>2. Q[Column] \in Int
    BY <1>5, SumTyped
  <2>3. QED
    BY <2>1, <2>2
<1>7. ASSUME NEW g, Permutation(g)
      PROVE  /\ Weight(g) <= U[Row] + Q[Column]
             /\ (\A c \in Column : Reduced(g[c], c) = 0) => Weight(g) = U[Row] + Q[Column]
  <2> DEFINE f == [c \in Column |-> weights[g[c]][c]]
  <2>1. g \in [Column -> Row] /\ (\A c, d \in Column : g[c] = g[d] => c = d) /\ Image(g, Column) = Row
    BY <1>7, PermutationOnto DEF Permutation
  <2>2. DOMAIN f = Column /\ \A c \in Column : f[c] = weights[g[c]][c] /\ f[c] \in Int
    BY <1>1, <2>1
  <2>3. Weight(g) = SumFunction(f)
    BY DEF Weight
  <2> HIDE DEF f
  <2>4. PICK F : SumsOver(F, Column, f) /\ Weight(g) = F[Column]
    BY <2>2, <2>3, Equinumerous, SumDefined
  <2>5. Summed(F, Column, f)
    BY <2>2, <2>4, Equinumerous DEF Summed
  <2>6. ASSUME NEW c \in Column
        PROVE  /\ f[c] <= u[g[c]] + q[c]
               /\ Reduced(g[c], c) = 0 => f[c] = u[g[c]] + q[c]
    <3>1. g[c] \in Row
      BY <2>1
    <3>2. /\ Reduced(g[c], c) = MaxWeight - weights[g[c]][c] - potentialRow[g[c]] - potentialColumn[c]
          /\ Reduced(g[c], c) >= 0
      BY <3>1 DEF IInv, PotentialsSound, Reduced
    <3>3. /\ u[g[c]] = 0 - potentialRow[g[c]] /\ q[c] = MaxWeight - potentialColumn[c]
          /\ f[c] = weights[g[c]][c] /\ weights[g[c]][c] \in Int
          /\ potentialRow[g[c]] \in Int /\ potentialColumn[c] \in Int
      BY <1>1, <1>2, <2>2, <3>1
    <3>4. QED
      BY <1>1, <3>2, <3>3
  <2>7. /\ (\A c \in Column : f[c] <= u[g[c]] + q[c]) => F[Column] <= U[Image(g, Column)] + Q[Column]
        /\ (\A c \in Column : f[c] = u[g[c]] + q[c]) => F[Column] = U[Image(g, Column)] + Q[Column]
    BY <1>5, <2>1, <2>5, SumBounded
  <2>8. QED
    BY <2>1, <2>4, <2>6, <2>7
<1>8. QED
  BY <1>6, <1>7

LEMMA DoneOptimal == IInv /\ RowsPlaced => AssignmentOptimal
<1> SUFFICES ASSUME IInv, RowsPlaced, pc = "done"
             PROVE  LET result == [c \in Column |-> matchedColumn[c]]
                    IN  /\ Permutation(result)
                        /\ \A g : Permutation(g) => Weight(g) <= Weight(result)
  BY DEF AssignmentOptimal, Permutation, Weight
<1> DEFINE result == [c \in Column |-> matchedColumn[c]]
<1>1. Permutation(result)
  BY ResultPermutation
<1>2. PICK b \in Int : \A g : Permutation(g) =>
              /\ Weight(g) <= b
              /\ (\A c \in Column : Reduced(g[c], c) = 0) => Weight(g) = b
  BY WeightBounded
<1>3. \A c \in Column : Reduced(result[c], c) = 0
  <2>1. \A c \in Column : result[c] \in Row /\ result[c] = matchedColumn[c]
    BY <1>1 DEF Permutation
  <2>2. \A c \in Column : matchedColumn[c] # 0
    BY <2>1, AssignmentAssumption DEF Row
  <2>3. QED
    BY <2>1, <2>2 DEF IInv, PotentialsSound
<1> HIDE DEF result
<1>4. Weight(result) = b
  BY <1>1, <1>2, <1>3
<1>5. QED
  BY <1>1, <1>2, <1>4 DEF result

\* What solveMaximumWeightAssignment returns is a permutation of the
\* neighbours, and no permutation has more weight, for any weights.
THEOREM AssignmentOptimalCorrect == Spec => []AssignmentOptimal
<1>1. Init => IInv /\ RowsPlaced
  BY InitStep, RowsPlacedInit
<1>2. IInv /\ RowsPlaced /\ [Next]_vars => IInv' /\ RowsPlaced'
  BY StartRowStep, SearchStep, AugmentStep, EndStep, RowsPlacedStep DEF Next, Return
<1>3. IInv /\ RowsPlaced => AssignmentOptimal
  BY DoneOptimal
<1>4. QED
  BY <1>1, <1>2, <1>3, PTL DEF Spec

----------------------------------------------------------------------------
(* Sequences of lists, one after the other *)

\* f[i] is the first i of the sequences x, one after the other.
Flattens(f, x, n) == f = [i \in 1 .. n |-> IF i = 1 THEN x[i] ELSE f[i - 1] \o x[i]]

\* The library's definition of FlattenSeq by recursion defines that.
LEMMA FlattenDefined ==
    ASSUME NEW n \in Nat \ {0}, NEW x, DOMAIN x = 1 .. n, Len(x) = n
    PROVE  \E f : Flattens(f, x, n) /\ FlattenSeq(x) = f[n]
<1> DEFINE Body(f, i) == IF i = 1 THEN x[i] ELSE f[i - 1] \o x[i]
           Defined(f, b) == f = [i \in 1 .. b |-> Body(f, i)]
           G == {b \in Nat : \E f : Defined(f, b)}
<1>1. 0 \in G
  <2> DEFINE f == [i \in 1 .. 0 |-> 0]
  <2>1. f = [i \in 1 .. 0 |-> Body(f, i)]
    OBVIOUS
  <2>2. QED
    BY <2>1
<1>2. ASSUME NEW b \in 1 .. n, b - 1 \in G
      PROVE  b \in G
  <2>1. PICK f : Defined(f, b - 1)
    BY <1>2
  <2> DEFINE g == [i \in 1 .. b |-> IF i = b THEN Body(f, b) ELSE f[i]]
  <2>2. ASSUME NEW i \in 1 .. b PROVE g[i] = Body(g, i)
    <3>0. i # 1 => i - 1 \in 1 .. b /\ i - 1 # b
      OBVIOUS
    <3>1. i # 1 => g[i - 1] = f[i - 1]
      <4> HIDE DEF Body
      <4>1. QED
        BY <3>0
    <3>2. Body(g, i) = Body(f, i)
      <4> HIDE DEF g
      <4>1. QED
        BY <3>1
    <3>3. CASE i = b
      <4> HIDE DEF Body
      <4>1. g[i] = Body(f, i)
        BY <3>3
      <4>2. QED
        BY <3>2, <4>1
    <3>4. CASE i # b
      <4>1. i \in 1 .. b - 1
        BY <3>4
      <4> HIDE DEF Body
      <4>2. f[i] = Body(f, i)
        BY <2>1, <4>1
      <4>3. g[i] = f[i]
        BY <3>4
      <4>4. QED
        BY <3>2, <4>2, <4>3
    <3>5. QED
      BY <3>3, <3>4
  <2>3. g = [i \in 1 .. b |-> g[i]]
    OBVIOUS
  <2>4. g = [i \in 1 .. b |-> Body(g, i)]
    <3> HIDE DEF g, Body
    <3>1. QED
      BY <2>2, <2>3
  <2>5. b \in Nat /\ \E h : Defined(h, b)
    <3> HIDE DEF g, Body
    <3>1. QED
      BY <2>4
  <2>6. QED
    BY <2>5
<1>3. \E f : Defined(f, n)
  <2>1. n \in G
    <3> HIDE DEF G
    <3>1. 0 .. n \subseteq G
      BY <1>1, <1>2, Induction
    <3>2. QED
      BY <3>1
  <2>2. QED
    BY <2>1
<1>4. \E f : f = [i \in 1 .. n |-> IF i = 1 THEN x[i] ELSE f[i - 1] \o x[i]]
  BY <1>3
<1>5. Len(x) # 0
  OBVIOUS
<1>6. FlattenSeq(x) = (CHOOSE f : f = [i \in 1 .. n |-> IF i = 1 THEN x[i] ELSE f[i - 1] \o x[i]])[n]
  BY <1>5 DEF FlattenSeq
<1>7. QED
  BY <1>4, <1>6 DEF Flattens

\* It does not depend on sequences that come later.
LEMMA FlattenSame ==
    ASSUME NEW n \in Nat, NEW m \in 0 .. n, NEW x, NEW y, NEW f, NEW g,
           Flattens(f, x, n), Flattens(g, y, m), \A i \in 1 .. m : x[i] = y[i]
    PROVE  \A i \in 1 .. m : f[i] = g[i]
<1> DEFINE G == {i \in 0 .. m : i = 0 \/ f[i] = g[i]}
<1>0. /\ \A i \in 1 .. n : f[i] = IF i = 1 THEN x[i] ELSE f[i - 1] \o x[i]
      /\ \A i \in 1 .. m : g[i] = IF i = 1 THEN y[i] ELSE g[i - 1] \o y[i]
  BY DEF Flattens
<1>1. 0 \in G
  OBVIOUS
<1>2. ASSUME NEW i \in 1 .. m, i - 1 \in G PROVE i \in G
  <2>1. f[i] = IF i = 1 THEN x[i] ELSE f[i - 1] \o x[i]
    <3>1. i \in 1 .. n
      OBVIOUS
    <3>2. QED
      BY <1>0, <3>1
  <2>2. g[i] = IF i = 1 THEN y[i] ELSE g[i - 1] \o y[i]
    BY <1>0
  <2>3. i = 1 \/ f[i - 1] = g[i - 1]
    BY <1>2
  <2>4. QED
    BY <2>1, <2>2, <2>3
<1>3. 0 .. m \subseteq G
  <2> HIDE DEF G
  <2>1. m \in Nat
    OBVIOUS
  <2>2. QED
    BY <1>1, <1>2, <2>1, Induction
<1>4. QED
  BY <1>3

\* What is before place i, and where the elements of x[i] are.
Before(f, i) == IF i = 1 THEN 0 ELSE Len(f[i - 1])

LaidOut(f, x, E, i) ==
    /\ f[i] \in Seq(E) /\ Len(f[i]) \in Nat /\ Len(x[i]) \in Nat
    /\ Len(f[i]) = Before(f, i) + Len(x[i])
    /\ \A k \in 1 .. Len(x[i]) : f[i][Before(f, i) + k] = x[i][k]
    /\ i # 1 => \A k \in 1 .. Len(f[i - 1]) : f[i][k] = f[i - 1][k]

\* Lengths add up.
LEMMA FlattenTyped ==
    ASSUME NEW n \in Nat, NEW E, NEW x, \A i \in 1 .. n : x[i] \in Seq(E),
           NEW f, Flattens(f, x, n)
    PROVE  \A i \in 1 .. n : LaidOut(f, x, E, i)
<1> DEFINE G == {i \in 0 .. n : i = 0 \/ f[i] \in Seq(E)}
<1>0. \A i \in 1 .. n : f[i] = IF i = 1 THEN x[i] ELSE f[i - 1] \o x[i]
  BY DEF Flattens
<1>1. 0 \in G
  OBVIOUS
<1>2. ASSUME NEW i \in 1 .. n, i - 1 \in G PROVE i \in G
  <2>1. i = 1 \/ f[i - 1] \in Seq(E)
    BY <1>2
  <2>2. f[i] \in Seq(E)
    <3>1. f[i] = IF i = 1 THEN x[i] ELSE f[i - 1] \o x[i]
      BY <1>0
    <3>2. CASE i = 1
      BY <3>1, <3>2
    <3>3. CASE i # 1
      <4>1. PICK s \in Seq(E), t \in Seq(E) : s = f[i - 1] /\ t = x[i]
        BY <2>1, <3>3
      <4>2. f[i] = s \o t
        BY <1>0, <3>3, <4>1
      <4>c. s \o t \in Seq(E)
        OBVIOUS
      <4>3. QED
        BY <4>2, <4>c
    <3>4. QED
      BY <3>2, <3>3
  <2>3. QED
    BY <2>2
<1>3. 0 .. n \subseteq G
  <2> HIDE DEF G
  <2>1. QED
    BY <1>1, <1>2, Induction
<1>4. ASSUME NEW i \in 1 .. n PROVE f[i] \in Seq(E)
  BY <1>3
<1>5. ASSUME NEW i \in 1 .. n PROVE LaidOut(f, x, E, i)
  <2>1. CASE i = 1
    <3>1. f[i] = x[i] /\ x[i] \in Seq(E) /\ f[i] \in Seq(E)
      BY <1>0, <1>4, <2>1
    <3>2. Len(f[i]) \in Nat /\ Before(f, i) = 0
      BY <2>1, <3>1 DEF Before
    <3>3. QED
      BY <2>1, <3>1, <3>2 DEF LaidOut
  <2>2. CASE i # 1
    <3>1. i - 1 \in 1 .. n
      BY <2>2
    <3>2. PICK s \in Seq(E), t \in Seq(E) : s = f[i - 1] /\ t = x[i]
      BY <1>4, <3>1
    <3>3. f[i] = s \o t /\ Before(f, i) = Len(s)
      BY <1>0, <2>2, <3>2 DEF Before
    <3>4. /\ s \o t \in Seq(E) /\ Len(s \o t) \in Nat /\ Len(t) \in Nat
          /\ Len(s \o t) = Len(s) + Len(t)
          /\ \A k \in 1 .. Len(t) : (s \o t)[Len(s) + k] = t[k]
          /\ \A k \in 1 .. Len(s) : (s \o t)[k] = s[k]
      OBVIOUS
    <3>5. QED
      BY <3>2, <3>3, <3>4 DEF LaidOut
  <2>3. QED
    BY <2>1, <2>2
<1>6. QED
  BY <1>5

\* What came first stays in front.
InFront(f, i, j) ==
    /\ Len(f[i]) <= Len(f[j])
    /\ \A k \in 1 .. Len(f[i]) : f[j][k] = f[i][k]

LEMMA FlattenRises ==
    ASSUME NEW n \in Nat, NEW E, NEW x, \A i \in 1 .. n : x[i] \in Seq(E),
           NEW f, Flattens(f, x, n), NEW i \in 1 .. n
    PROVE  \A j \in i .. n : InFront(f, i, j)
<1>0. \A j \in 1 .. n :
         /\ Len(f[j]) \in Nat /\ Len(x[j]) \in Nat
         /\ j # 1 => /\ Len(f[j]) = Len(f[j - 1]) + Len(x[j])
                     /\ \A k \in 1 .. Len(f[j - 1]) : f[j][k] = f[j - 1][k]
  <2>1. \A j \in 1 .. n : LaidOut(f, x, E, j)
    BY FlattenTyped
  <2>2. QED
    BY <2>1 DEF LaidOut, Before
<1> DEFINE G == {d \in 0 .. n : i + d <= n => InFront(f, i, i + d)}
<1>1. 0 \in G
  <2>1. InFront(f, i, i)
    BY <1>0 DEF InFront
  <2>2. i + 0 = i
    OBVIOUS
  <2>3. QED
    BY <2>1, <2>2
<1>2. ASSUME NEW d \in 1 .. n, d - 1 \in G PROVE d \in G
  <2>1. CASE i + d <= n
    <3>1. PICK j \in 2 .. n : j = i + d /\ j - 1 = i + (d - 1) /\ i + (d - 1) <= n
      BY <2>1
    <3>2. InFront(f, i, j - 1)
      BY <1>2, <3>1
    <3>3. /\ Len(f[j]) \in Nat /\ Len(x[j]) \in Nat /\ Len(f[i]) \in Nat /\ Len(f[j - 1]) \in Nat
          /\ Len(f[j]) = Len(f[j - 1]) + Len(x[j])
          /\ \A k \in 1 .. Len(f[j - 1]) : f[j][k] = f[j - 1][k]
      <4>1. j \in 1 .. n /\ j # 1 /\ j - 1 \in 1 .. n
        OBVIOUS
      <4>2. QED
        BY <1>0, <4>1
    <3>4. InFront(f, i, j)
      <4>0. Len(f[i]) <= Len(f[j - 1])
        BY <3>2 DEF InFront
      <4>1. Len(f[i]) <= Len(f[j])
        <5>1. ASSUME NEW a \in Nat, NEW b \in Nat, NEW c \in Nat, NEW e \in Nat, a <= b, c = b + e
              PROVE  a <= c
          BY <5>1
        <5>2. QED
          BY <3>3, <4>0, <5>1
      <4>2. ASSUME NEW k \in 1 .. Len(f[i]) PROVE f[j][k] = f[i][k]
        <5>1. k \in 1 .. Len(f[j - 1]) /\ f[j - 1][k] = f[i][k]
          BY <3>2, <3>3 DEF InFront
        <5>2. QED
          BY <3>3, <5>1
      <4>3. QED
        BY <4>1, <4>2 DEF InFront
    <3>5. QED
      BY <3>1, <3>4
  <2>2. CASE ~(i + d <= n)
    BY <2>2
  <2>3. QED
    BY <2>1, <2>2
<1>3. 0 .. n \subseteq G
  <2> HIDE DEF G
  <2>1. QED
    BY <1>1, <1>2, Induction
<1>4. ASSUME NEW j \in i .. n PROVE InFront(f, i, j)
  <2>1. j - i \in 0 .. n /\ i + (j - i) = j /\ j <= n
    OBVIOUS
  <2>2. QED
    BY <1>3, <2>1
<1>5. QED
  BY <1>4

----------------------------------------------------------------------------
(* Rewriting the lists of neighbours *)

\* A sum is smaller than another that is nowhere smaller, and somewhere larger.
LEMMA SumLess ==
    ASSUME NEW S, IsFiniteSet(S), NEW f, NEW k, DOMAIN f = S, DOMAIN k = S,
           \A c \in S : f[c] \in Int /\ k[c] \in Int /\ f[c] <= k[c],
           NEW x \in S, f[x] < k[x]
    PROVE  SumFunction(f) \in Int /\ SumFunction(k) \in Int /\ SumFunction(f) < SumFunction(k)
<1>1. PICK F : SumsOver(F, S, f) /\ SumFunction(f) = F[S]
  BY SumDefined
<1>2. PICK K : SumsOver(K, S, k) /\ SumFunction(k) = K[S]
  BY SumDefined
<1>3. Summed(F, S, f) /\ Summed(K, S, k)
  BY <1>1, <1>2 DEF Summed
<1>4. TakesAny(F, S, f) /\ TakesAny(K, S, k)
  BY <1>3, SumTakes
<1>5. \A s \in SUBSET S : F[s] \in Int /\ K[s] \in Int
  BY <1>3, SumTyped
<1> DEFINE G == {s \in SUBSET S : F[s] <= K[s]}
<1>6. {} \in G
  <2>1. F[{}] = 0 /\ K[{}] = 0
    BY <1>1, <1>2, SumStep
  <2>2. QED
    BY <2>1
<1>7. ASSUME NEW s \in SUBSET S, s # {}, \A y \in s : s \ {y} \in G PROVE s \in G
  <2>1. PICK y \in s : TRUE
    BY <1>7
  <2>2. F[s] = f[y] + F[s \ {y}] /\ K[s] = k[y] + K[s \ {y}]
    BY <1>4 DEF TakesAny
  <2>3. F[s \ {y}] <= K[s \ {y}] /\ f[y] <= k[y]
    BY <1>7
  <2>4. F[s \ {y}] \in Int /\ K[s \ {y}] \in Int /\ f[y] \in Int /\ k[y] \in Int
    BY <1>5
  <2>5. QED
    BY <2>2, <2>3, <2>4
<1>8. SUBSET S \subseteq G
  <2> HIDE DEF G
  <2>1. QED
    BY <1>6, <1>7, SetInduction
<1>9. F[S \ {x}] <= K[S \ {x}]
  BY <1>8
<1>10. F[S] = f[x] + F[S \ {x}] /\ K[S] = k[x] + K[S \ {x}]
  BY <1>4 DEF TakesAny
<1>11. F[S \ {x}] \in Int /\ K[S \ {x}] \in Int /\ f[x] \in Int /\ k[x] \in Int
  BY <1>5
<1>12. QED
  BY <1>1, <1>2, <1>9, <1>10, <1>11

\* An injection of a finite set into itself reaches everything.
LEMMA InjectionOnto ==
    ASSUME NEW S, IsFiniteSet(S), NEW f \in [S -> S], \A c, d \in S : f[c] = f[d] => c = d
    PROVE  \A r \in S : \E c \in S : f[c] = r
<1>1. f \in Injection(S, S)
  BY DEF Injection, IsInjective
<1>2. f \in Surjection(S, S)
  BY <1>1, FS_Injection
<1>3. QED
  BY <1>2 DEF Surjection

LEMMA InputTypes ==
    ASSUME input \in [Atom -> AtomInputs], NEW a \in Atom
    PROVE  /\ input[a].typed \in BOOLEAN /\ input[a].oriented \in BOOLEAN
           /\ input[a].symmetry \in Symmetries \cup {NoSymmetry}
           /\ input[a].shell \in Seq(Slot \cup {NoDirection})
BY ShellAssumption

LEMMA SymmetryTypes ==
    /\ IsFiniteSet(Slot)
    /\ \A f \in Symmetries :
          /\ f \in [Slot -> Slot]
          /\ \A c, d \in Slot : f[c] = f[d] => c = d
          /\ \A r \in Slot : \E c \in Slot : f[c] = r
<1>1. IsFiniteSet(Slot)
  <2>1. 1 \in Int /\ Coordination \in Int
    BY ShellAssumption
  <2>2. QED
    BY <2>1, FS_Interval DEF Slot
<1>2. ASSUME NEW f \in Symmetries
      PROVE  f \in [Slot -> Slot] /\ \A c, d \in Slot : f[c] = f[d] => c = d
  BY ShellAssumption
<1>3. ASSUME NEW f \in Symmetries PROVE \A r \in Slot : \E c \in Slot : f[c] = r
  <2>1. PICK S : S = Slot
    OBVIOUS
  <2>2. IsFiniteSet(S)
    BY <1>1, <2>1
  <2>a. PICK g \in [S -> S] : g = f
    BY <1>2, <2>1
  <2>b. \A c, d \in S : g[c] = g[d] => c = d
    BY <1>2, <2>1, <2>a
  <2>3. \A r \in S : \E c \in S : g[c] = r
    BY <2>2, <2>b, InjectionOnto
  <2>4. QED
    BY <2>1, <2>a, <2>3
<1>4. QED
  BY <1>1, <1>2, <1>3

----------------------------------------------------------------------------
(* Where the lists are *)

LEMMA ShellLayout ==
    ASSUME input \in [Atom -> AtomInputs], NEW a \in Atom
    PROVE  /\ Start(a) \in Nat /\ Length(a) \in Nat /\ Total \in Nat
           /\ Start(a) + Length(a) <= Total
           /\ \A s \in 1 .. Length(a) : Directions[Start(a) + s] = input[a].shell[s]
           /\ \A b \in Atom : a < b => Start(a) + Length(a) <= Start(b)
<1>1. PICK n \in Nat \ {0} : n = NumAtoms
  BY ShellAssumption
<1>2. Atom = 1 .. n /\ n \in Atom
  BY <1>1 DEF Atom
<1>3. PICK E : E = Slot \cup {NoDirection}
  OBVIOUS
<1>4. PICK x : x = [b \in 1 .. n |-> input[b].shell]
  OBVIOUS
<1>5. \A b \in 1 .. n : x[b] \in Seq(E) /\ x[b] = input[b].shell
  BY <1>2, <1>3, <1>4, InputTypes
<1>6. DOMAIN x = 1 .. n /\ Len(x) = n
  BY <1>4
<1>7. PICK f : Flattens(f, x, n) /\ FlattenSeq(x) = f[n]
  BY <1>6, FlattenDefined
<1>8. Directions = f[n]
  <2>1. Directions = FlattenSeq(x)
    BY <1>2, <1>4 DEF Directions
  <2>2. QED
    BY <1>7, <2>1
<1>9. \A b \in 1 .. n : LaidOut(f, x, E, b)
  BY <1>5, <1>7, FlattenTyped
<1>10. ASSUME NEW b \in 1 .. n
       PROVE  Start(b) = Before(f, b)
  <2>1. PICK y : y = [c \in 1 .. b - 1 |-> input[c].shell]
    OBVIOUS
  <2>2. Start(b) = Len(FlattenSeq(y))
    BY <2>1 DEF Start
  <2>3. b - 1 \in Nat /\ DOMAIN y = 1 .. b - 1 /\ Len(y) = b - 1
    BY <2>1
  <2>4. CASE b = 1
    <3>1. Len(y) = 0
      BY <2>3, <2>4
    <3>2. FlattenSeq(y) = y
      BY <3>1 DEF FlattenSeq
    <3>3. QED
      BY <2>2, <2>4, <3>1, <3>2 DEF Before
  <2>5. CASE b # 1
    <3>1. b - 1 \in Nat \ {0} /\ b - 1 \in 0 .. n /\ b - 1 \in 1 .. b - 1
      BY <2>5
    <3>2. PICK g : Flattens(g, y, b - 1) /\ FlattenSeq(y) = g[b - 1]
      BY <2>3, <3>1, FlattenDefined
    <3>3. \A c \in 1 .. b - 1 : x[c] = y[c]
      BY <1>5, <2>1
    <3>4. \A c \in 1 .. b - 1 : f[c] = g[c]
      BY <1>7, <3>1, <3>2, <3>3, FlattenSame
    <3>5. QED
      BY <2>2, <2>5, <3>1, <3>2, <3>4 DEF Before
  <2>6. QED
    BY <2>4, <2>5
<1>11. ASSUME NEW b \in 1 .. n
       PROVE  /\ Start(b) \in Nat /\ Length(b) \in Nat /\ Len(f[b]) \in Nat
              /\ Start(b) + Length(b) = Len(f[b]) /\ Length(b) = Len(x[b])
  <2>1. Length(b) = Len(x[b])
    BY <1>5 DEF Length
  <2>2. Len(f[b]) \in Nat /\ Len(x[b]) \in Nat /\ Len(f[b]) = Before(f, b) + Len(x[b])
    BY <1>9 DEF LaidOut
  <2>3. Before(f, b) \in Nat
    <3>1. CASE b = 1
      BY <3>1 DEF Before
    <3>2. CASE b # 1
      <4>1. b - 1 \in 1 .. n
        BY <3>2
      <4>2. Len(f[b - 1]) \in Nat
        BY <1>9, <4>1 DEF LaidOut
      <4>3. QED
        BY <3>2, <4>2 DEF Before
    <3>3. QED
      BY <3>1, <3>2
  <2>4. QED
    BY <1>10, <2>1, <2>2, <2>3
<1>12. Total = Len(f[n])
  BY <1>1, <1>2, <1>11 DEF Total
<1>13. a \in 1 .. n /\ n \in a .. n /\ n \in 1 .. n
  BY <1>2
<1>14. \A j \in a .. n : /\ Len(f[a]) <= Len(f[j])
                         /\ \A k \in 1 .. Len(f[a]) : f[j][k] = f[a][k]
  <2>1. \A j \in a .. n : InFront(f, a, j)
    BY <1>5, <1>7, <1>13, FlattenRises
  <2>2. QED
    BY <2>1 DEF InFront
<1>15. Start(a) + Length(a) <= Total
  BY <1>11, <1>12, <1>13, <1>14
<1>16. ASSUME NEW s \in 1 .. Length(a)
       PROVE  Directions[Start(a) + s] = input[a].shell[s]
  <2>1. /\ Start(a) \in Nat /\ Length(a) \in Nat /\ Length(a) = Len(x[a])
        /\ Start(a) + Length(a) = Len(f[a])
    BY <1>11, <1>13
  <2>2. Start(a) + s \in 1 .. Len(f[a])
    BY <2>1
  <2>3. f[n][Start(a) + s] = f[a][Start(a) + s]
    BY <1>13, <1>14, <2>2
  <2>4. f[a][Before(f, a) + s] = x[a][s]
    BY <1>9, <1>13, <2>1 DEF LaidOut
  <2>5. QED
    BY <1>5, <1>8, <1>10, <1>13, <2>3, <2>4
<1>17. ASSUME NEW b \in Atom, a < b
       PROVE  Start(a) + Length(a) <= Start(b)
  <2>1. b \in 1 .. n /\ b # 1 /\ b - 1 \in a .. n
    BY <1>2, <1>13, <1>17
  <2>2. Len(f[a]) <= Len(f[b - 1])
    BY <1>14, <2>1
  <2>3. Start(b) = Len(f[b - 1])
    BY <1>10, <2>1 DEF Before
  <2>4. QED
    BY <1>11, <1>13, <2>2, <2>3
<1>18. QED
  BY <1>11, <1>12, <1>13, <1>15, <1>16, <1>17

LEMMA EntriesApart ==
    ASSUME input \in [Atom -> AtomInputs], NEW a \in Atom
    PROVE  /\ Entries(a) \subseteq 1 .. Total
           /\ \A b \in Atom : b # a => Entries(a) \cap Entries(b) = {}
           /\ \A s \in Exported(a) :
                 /\ s \in Nat /\ s \in 1 .. Length(a) /\ s \in Slot
                 /\ Start(a) + s \in Entries(a) /\ Start(a) + s - Start(a) = s
           /\ \A p \in Entries(a) : p \in Nat /\ p - Start(a) \in Nat
                                       /\ Start(a) + (p - Start(a)) = p
           /\ \A p \in 1 .. Total : p - Start(a) \in Exported(a) => p \in Entries(a)
           /\ Length(a) >= Coordination => Exported(a) = Slot
           /\ IsFiniteSet(Exported(a))
<1>1. /\ Start(a) \in Nat /\ Length(a) \in Nat /\ Total \in Nat /\ Coordination \in Nat
      /\ Start(a) + Length(a) <= Total
  BY ShellLayout, ShellAssumption
<1>2. Atom \subseteq Nat
  BY DEF Atom
<1>3. ASSUME NEW b \in Atom, b # a PROVE Entries(a) \cap Entries(b) = {}
  <2>1. /\ Start(b) \in Nat /\ Length(b) \in Nat
        /\ a < b => Start(a) + Length(a) <= Start(b)
        /\ b < a => Start(b) + Length(b) <= Start(a)
    BY ShellLayout
  <2>2. a < b \/ b < a
    BY <1>2, <1>3
  <2>3. QED
    BY <1>1, <2>1, <2>2 DEF Entries
<1>4. \A s \in Exported(a) : s \in Nat /\ s \in 1 .. Length(a) /\ s \in Slot
  BY <1>1 DEF Exported, Slot
<1>5. /\ Entries(a) \subseteq 1 .. Total
      /\ \A p \in Entries(a) : p \in Nat /\ p - Start(a) \in Nat
                                  /\ Start(a) + (p - Start(a)) = p
  BY <1>1 DEF Entries
<1>6. \A s \in Exported(a) : Start(a) + s \in Entries(a) /\ Start(a) + s - Start(a) = s
  BY <1>1, <1>4 DEF Entries
<1>7. ASSUME NEW p \in 1 .. Total, p - Start(a) \in Exported(a) PROVE p \in Entries(a)
  BY <1>1, <1>4, <1>7 DEF Entries
<1>8. ASSUME Length(a) >= Coordination PROVE Exported(a) = Slot
  BY <1>1, <1>8 DEF Exported, Slot
<1>9. IsFiniteSet(Exported(a))
  <2>1. Exported(a) \subseteq Slot
    BY <1>4
  <2>2. QED
    BY <2>1, SymmetryTypes, FS_Subset
<1>10. QED
  BY <1>3, <1>4, <1>5, <1>6, <1>7, <1>8, <1>9

----------------------------------------------------------------------------
(* What one visit writes *)

\* The entries E of the array list are those that were there, in some order.
Rearranged(list, E) ==
    /\ \A p \in E : list[p] \in E
    /\ \A q \in E : \E p \in E : list[p] = q

\* f orders S.
Order(f, S) == f \in [S -> S] /\ \A c, d \in S : f[c] = f[d] => c = d

\* The list of a is still as it was, or has neighbour c in slot f[c].
Untouched(a) == \A p \in Entries(a) : newIndices[p] = p

PlacedBy(list, a, f) ==
    /\ \A p \in 1 .. Total : p \notin Entries(a) => list[p] = newIndices[p]
    /\ Rearranged(list, Entries(a))
    /\ \A c \in Exported(a) : list[Start(a) + f[c]] = Start(a) + c

\* An order of the slots of a list changes no other entry of the array, and
\* the list keeps its entries.
LEMMA PlacedKeeps ==
    ASSUME input \in [Atom -> AtomInputs], NEW a \in Atom,
           Untouched(a), NEW f, Order(f, Exported(a))
    PROVE  PlacedBy(Placed(a, f), a, f)
<1>1. PICK S : S = Exported(a)
  OBVIOUS
<1>2. PICK b \in Nat : b = Start(a)
  BY ShellLayout
<1>t. Total \in Nat
  BY ShellLayout
<1>3. PICK E : E = Entries(a)
  OBVIOUS
<1>4. /\ E \subseteq 1 .. Total
      /\ \A s \in S : s \in Nat /\ b + s \in E /\ b + s - b = s
      /\ \A p \in E : b + (p - b) = p
      /\ \A p \in 1 .. Total : p - b \in S => p \in E
  BY <1>1, <1>2, <1>3, EntriesApart
<1>5. f \in [S -> S] /\ \A c, d \in S : f[c] = f[d] => c = d
  BY <1>1 DEF Order
<1>6. \A r \in S : \E c \in S : f[c] = r
  <2>1. IsFiniteSet(S)
    BY <1>1, EntriesApart
  <2>2. QED
    BY <1>5, <2>1, InjectionOnto
<1> DEFINE Back(r) == CHOOSE c \in S : f[c] = r
<1>7. \A r \in S : Back(r) \in S /\ f[Back(r)] = r
  BY <1>6
<1>8. \A c \in S : Back(f[c]) = c
  <2>1. \A c \in S : f[c] \in S
    BY <1>5
  <2> HIDE DEF Back
  <2>2. QED
    BY <1>5, <1>7, <2>1
<1>9. \A p \in 1 .. Total :
         Placed(a, f)[p] = IF p - b \in S THEN b + Back(p - b) ELSE newIndices[p]
  BY <1>1, <1>2 DEF Placed
<1> HIDE DEF Back
<1>10. \A p \in 1 .. Total : p \notin E => Placed(a, f)[p] = newIndices[p]
  BY <1>4, <1>9
<1>11. \A c \in S : Placed(a, f)[b + f[c]] = b + c
  <2> SUFFICES ASSUME NEW c \in S PROVE Placed(a, f)[b + f[c]] = b + c
    OBVIOUS
  <2>1. f[c] \in S
    BY <1>5
  <2>2. PICK p : p = b + f[c]
    OBVIOUS
  <2>a. \A q \in S : b + q \in 1 .. Total /\ b + q - b = q
    BY <1>4, Zenon
  <2>b. b + f[c] \in 1 .. Total /\ b + f[c] - b = f[c]
    BY <2>1, <2>a, Zenon
  <2>3. p \in 1 .. Total /\ p - b = f[c]
    BY <1>4, <2>1, <2>2, <2>b
  <2>4. Placed(a, f)[p] = b + Back(f[c])
    BY <1>9, <2>1, <2>3
  <2>5. QED
    BY <1>8, <2>2, <2>4
<1>12. ASSUME NEW p \in E PROVE Placed(a, f)[p] \in E
  <2>1. p \in 1 .. Total
    BY <1>4
  <2>2. CASE p - b \in S
    BY <1>4, <1>7, <1>9, <2>1, <2>2
  <2>3. CASE p - b \notin S
    BY <1>3, <1>9, <2>1, <2>3 DEF Untouched
  <2>4. QED
    BY <2>2, <2>3
<1>13. ASSUME NEW q \in E PROVE \E p \in E : Placed(a, f)[p] = q
  <2>1. CASE q - b \in S
    <3>1. f[q - b] \in S
      BY <1>5, <2>1
    <3>2. b + f[q - b] \in E /\ Placed(a, f)[b + f[q - b]] = b + (q - b)
      BY <1>4, <1>11, <2>1, <3>1
    <3>3. QED
      BY <1>4, <3>2
  <2>2. CASE q - b \notin S
    <3>1. q \in 1 .. Total
      BY <1>4
    <3>2. Placed(a, f)[q] = q
      BY <1>3, <1>9, <2>2, <3>1 DEF Untouched
    <3>3. QED
      BY <3>2
  <2>3. QED
    BY <2>1, <2>2
<1>14. Rearranged(Placed(a, f), E)
  BY <1>12, <1>13 DEF Rearranged
<1>15. QED
  BY <1>1, <1>2, <1>3, <1>10, <1>11, <1>14 DEF PlacedBy

\* So does the symmetry of the atom if every place it leads to is in the list,
\* and only then.
LEMMA MovedKeeps ==
    ASSUME input \in [Atom -> AtomInputs], NEW a \in Atom,
           \A p \in Entries(a) : newIndices[p] = p,
           symmetry[a] \in Symmetries
    PROVE  /\ \A p \in 1 .. Total : p \notin Entries(a) => Moved(a)[p] = newIndices[p]
           /\ Length(a) >= Coordination =>
                 /\ Found(a) = Slot
                 /\ \A s \in Slot : Moved(a)[Start(a) + s] = Start(a) + symmetry[a][s]
           /\ Found(a) = Exported(a) =>
                 (Rearranged(Moved(a), Entries(a))
                    <=> \A s \in Exported(a) : symmetry[a][s] <= Length(a))
<1>1. PICK S : S = Exported(a)
  OBVIOUS
<1>2. PICK b \in Nat : b = Start(a)
  BY ShellLayout
<1>t. Total \in Nat
  BY ShellLayout
<1>l. PICK l \in Nat : l = Length(a)
  BY ShellLayout
<1>3. PICK E : E = Entries(a)
  OBVIOUS
<1>4. /\ E \subseteq 1 .. Total
      /\ \A s \in S : s \in Slot /\ s \in Nat /\ b + s \in E /\ b + s - b = s
      /\ \A p \in E : b + (p - b) = p
      /\ \A p \in 1 .. Total : p - b \in S => p \in E
      /\ IsFiniteSet(S)
  BY <1>1, <1>2, <1>3, EntriesApart
<1>5. PICK g : g = symmetry[a]
  OBVIOUS
<1>6. /\ g \in [Slot -> Slot]
      /\ \A c, d \in Slot : g[c] = g[d] => c = d
  BY <1>5, SymmetryTypes
<1>7. PICK F : F = Found(a)
  OBVIOUS
<1>8. F \subseteq S
  BY <1>1, <1>7 DEF Found
<1>9. \A p \in 1 .. Total :
         Moved(a)[p] = IF p - b \in F THEN b + g[p - b] ELSE newIndices[p]
  BY <1>2, <1>5, <1>7 DEF Moved
<1>10. \A p \in 1 .. Total : p \notin E => Moved(a)[p] = newIndices[p]
  BY <1>4, <1>8, <1>9
<1>11. ASSUME NEW s \in F PROVE Moved(a)[b + s] = b + g[s]
  <2>1. PICK p : p = b + s
    OBVIOUS
  <2>2. \A q \in S : b + q \in 1 .. Total /\ b + q - b = q
    BY <1>4, Zenon
  <2>3. s \in S
    BY <1>8
  <2>4. p \in 1 .. Total /\ p - b = s
    BY <1>4, <2>1, <2>2, <2>3
  <2>5. Moved(a)[p] = b + g[s]
    BY <1>9, <1>11, <2>4
  <2>6. QED
    BY <2>1, <2>5
<1>12. ASSUME Length(a) >= Coordination
       PROVE  F = Slot
  <2>1. S = Slot
    BY <1>1, <1>12, EntriesApart
  <2>2. Coordination \in Nat
    BY ShellAssumption
  <2>3. \A s \in S : \A t \in 1 .. s : t \in Slot
    BY <2>1, <2>2 DEF Slot
  <2>4. \A t \in Slot : g[t] \in S
    BY <1>6, <2>1
  <2>5. \A t \in Slot : b + g[t] \in 1 .. Total
    BY <1>4, <2>4
  <2>6. \A p \in 1 .. Total : p <= Total
    BY <1>t
  <2>7. \A t \in Slot : b + g[t] <= Total
    BY <2>5, <2>6, Zenon
  <2>8. \A s \in S : \A t \in 1 .. s : b + g[t] <= Total
    BY <2>3, <2>7, Zenon
  <2>9. F = S
    BY <1>1, <1>2, <1>5, <1>7, <2>8 DEF Found
  <2>10. QED
    BY <2>1, <2>9
<1>13. ASSUME F = S, Rearranged(Moved(a), E), NEW s \in S
       PROVE  g[s] <= l
  <2>1. Moved(a)[b + s] = b + g[s] /\ b + s \in E
    BY <1>4, <1>11, <1>13
  <2>2. b + g[s] \in E
    BY <1>13, <2>1 DEF Rearranged
  <2>3. g[s] \in Nat
    <3>1. g[s] \in Slot
      BY <1>4, <1>6
    <3>2. QED
      BY <3>1, ShellAssumption DEF Slot
  <2>4. E = b + 1 .. b + l
    BY <1>2, <1>l, <1>3 DEF Entries
  <2>5. QED
    BY <2>2, <2>3, <2>4
<1>14. ASSUME F = S, \A s \in S : g[s] <= l
       PROVE  Rearranged(Moved(a), E)
  <2>1. \A s \in S : g[s] \in S
    BY <1>l, <1>1, <1>4, <1>6, <1>14 DEF Exported
  <2>2. \A r \in S : \E c \in S : g[c] = r
    <3>1. PICK h : h = [c \in S |-> g[c]]
      OBVIOUS
    <3>2. h \in [S -> S] /\ \A c, d \in S : h[c] = h[d] => c = d
      BY <1>4, <1>6, <2>1, <3>1
    <3>3. \A r \in S : \E c \in S : h[c] = r
      BY <1>4, <3>2, InjectionOnto
    <3>4. QED
      BY <3>1, <3>3
  <2>3. ASSUME NEW p \in E PROVE Moved(a)[p] \in E
    <3>1. p \in 1 .. Total
      BY <1>4
    <3>2. CASE p - b \in F
      BY <1>4, <1>9, <1>14, <2>1, <3>1, <3>2
    <3>3. CASE p - b \notin F
      BY <1>3, <1>9, <3>1, <3>3
    <3>4. QED
      BY <3>2, <3>3
  <2>4. ASSUME NEW q \in E PROVE \E p \in E : Moved(a)[p] = q
    <3>1. CASE q - b \in S
      <4>1. PICK c \in S : g[c] = q - b
        BY <2>2, <3>1
      <4>2. Moved(a)[b + c] = b + (q - b) /\ b + c \in E
        BY <1>4, <1>11, <1>14, <4>1
      <4>3. QED
        BY <1>4, <4>2
    <3>2. CASE q - b \notin S
      <4>1. q \in 1 .. Total
        BY <1>4
      <4>2. Moved(a)[q] = q
        BY <1>3, <1>8, <1>9, <3>2, <4>1
      <4>3. QED
        BY <4>2
    <3>3. QED
      BY <3>1, <3>2
  <2>5. QED
    BY <2>3, <2>4 DEF Rearranged
<1>15. F = S => (Rearranged(Moved(a), E) <=> \A s \in S : g[s] <= l)
  BY <1>13, <1>14
<1>16. Length(a) >= Coordination =>
          F = Slot /\ \A s \in Slot : Moved(a)[b + s] = b + g[s]
  BY <1>11, <1>12
<1>17. QED
  BY <1>1, <1>2, <1>l, <1>3, <1>5, <1>7, <1>10, <1>15, <1>16

\* What was found to fit are orders of the slots, and none of them fits worse
\* than another.
LEMMA AssignedOrders ==
    ASSUME input \in [Atom -> AtomInputs], NEW a \in Atom,
           NEW f \in Assigned(a)
    PROVE  Order(f, Exported(a))
BY DEF Assigned, IsInjective, Order

\* A list with a neighbour in each slot of an atom that is oriented is
\* assigned in one way, that of the symmetry that says where they are.
LEMMA TruthAssigned ==
    ASSUME input \in [Atom -> AtomInputs], NEW a \in Atom,
           Truthful(a), input[a].oriented
    PROVE  Assigned(a) = {input[a].symmetry} /\ ~GeometryFails(a)
<1>1. PICK S : S = Slot
  OBVIOUS
<1>2. PICK g : g = input[a].symmetry
  OBVIOUS
<1>3. /\ g \in Symmetries /\ IsFiniteSet(S) /\ g \in [S -> S]
      /\ \A c, d \in S : g[c] = g[d] => c = d
  <2>1. g \in Symmetries
    BY <1>2, InputTypes DEF Truthful
  <2>2. QED
    BY <1>1, <2>1, SymmetryTypes
<1>4. Exported(a) = S
  BY <1>1, EntriesApart DEF Truthful
<1>5. PICK dir : dir = [s \in S |-> Directions[Start(a) + s]]
  OBVIOUS
<1>6. \A s \in S : Directions[Start(a) + s] = g[s] /\ dir[s] = g[s]
  <2>1. ASSUME NEW s \in S PROVE Directions[Start(a) + s] = g[s]
    <3>1. s \in 1 .. Length(a)
      BY <1>4, EntriesApart
    <3>2. Directions[Start(a) + s] = input[a].shell[s]
      BY <3>1, ShellLayout
    <3>3. QED
      BY <1>1, <1>2, <3>2 DEF Truthful
  <2>2. QED
    BY <1>5, <2>1
<1>7. /\ NoDirection \notin S /\ Fit \in [S -> [S -> 0 .. 2]]
      /\ \A d, e \in S : Fit[d][e] = 2 <=> d = e
  BY <1>1, ShellAssumption
<1> DEFINE FitOf(f) == [s \in S |-> Fit[Directions[Start(a) + s]][f[s]]]
           Orders == {f \in [S -> S] : \A c, d \in S : f[c] = f[d] => c = d}
<1>8. Assigned(a) =
        {f \in Orders : \A h \in Orders : SumFunction(FitOf(h)) <= SumFunction(FitOf(f))}
  <2>1. ~(~input[a].oriented \/ \E s \in S : Directions[Start(a) + s] = NoDirection)
    BY <1>3, <1>6, <1>7
  <2>2. \A f \in [S -> S] : IsInjective(f) <=> \A c, d \in S : f[c] = f[d] => c = d
    BY DEF IsInjective
  <2>3. Orders = {f \in [S -> S] : IsInjective(f)}
    BY <2>2
  <2> HIDE DEF Orders
  <2>4. QED
    BY <1>4, <2>1, <2>3 DEF Assigned, FitAt
<1>10. \A f \in [S -> S] : \A s \in S :
          FitOf(f)[s] = Fit[g[s]][f[s]] /\ FitOf(f)[s] \in 0 .. 2 /\ (FitOf(f)[s] = 2 <=> f[s] = g[s])
  BY <1>3, <1>6, <1>7
<1>11. \A f : DOMAIN FitOf(f) = S
  OBVIOUS
<1>12. g \in Orders
  BY <1>3
<1>13. ASSUME NEW f \in Orders, f # g
       PROVE  /\ SumFunction(FitOf(f)) \in Int /\ SumFunction(FitOf(g)) \in Int
              /\ SumFunction(FitOf(f)) < SumFunction(FitOf(g))
  <2>1. f \in [S -> S]
    OBVIOUS
  <2>2. PICK x \in S : f[x] # g[x]
    BY <1>3, <1>13, <2>1
  <2>3. PICK u : u = FitOf(f)
    OBVIOUS
  <2>4. PICK k : k = FitOf(g)
    OBVIOUS
  <2>5. DOMAIN u = S /\ DOMAIN k = S
    BY <1>11, <2>3, <2>4
  <2>6. \A c \in S : u[c] \in 0 .. 2 /\ k[c] = 2 /\ (u[c] = 2 <=> f[c] = g[c])
    <3> HIDE DEF FitOf
    <3>1. ASSUME NEW c \in S PROVE u[c] \in 0 .. 2 /\ (u[c] = 2 <=> f[c] = g[c])
      BY <1>10, <2>1, <2>3
    <3>2. ASSUME NEW c \in S PROVE k[c] = 2
      BY <1>3, <1>10, <2>4
    <3>3. QED
      BY <3>1, <3>2
  <2>7. \A c \in S : u[c] \in Int /\ k[c] \in Int /\ u[c] <= k[c]
    BY <2>6
  <2>8. u[x] < k[x]
    <3>1. u[x] \in 0 .. 2 /\ u[x] # 2 /\ k[x] = 2
      BY <2>2, <2>6
    <3>2. QED
      BY <3>1
  <2>9. SumFunction(u) \in Int /\ SumFunction(k) \in Int /\ SumFunction(u) < SumFunction(k)
    BY <1>3, <2>5, <2>7, <2>8, SumLess
  <2>10. QED
    BY <2>3, <2>4, <2>9
<1>14. SumFunction(FitOf(g)) <= SumFunction(FitOf(g))
  <2>1. PICK F : SumsOver(F, S, FitOf(g)) /\ SumFunction(FitOf(g)) = F[S]
    BY <1>3, <1>11, SumDefined
  <2>2. Summed(F, S, FitOf(g))
    <3> HIDE DEF FitOf
    <3>1. ASSUME NEW s \in S PROVE FitOf(g)[s] \in Int
      <4>1. FitOf(g)[s] \in 0 .. 2
        BY <1>3, <1>10
      <4>2. QED
        BY <4>1
    <3>2. QED
      BY <1>3, <2>1, <3>1 DEF Summed
  <2>3. F[S] \in Int
    <3> HIDE DEF FitOf
    <3>1. QED
      BY <2>2, SumTyped
  <2>4. QED
    BY <2>1, <2>3
<1>15. g \in Assigned(a)
  <2>1. \A h \in Orders : SumFunction(FitOf(h)) <= SumFunction(FitOf(g))
    <3> HIDE DEF FitOf, Orders
    <3>1. ASSUME NEW h \in Orders PROVE SumFunction(FitOf(h)) <= SumFunction(FitOf(g))
      <4>1. CASE h = g
        BY <1>14, <4>1
      <4>2. CASE h # g
        BY <1>13, <4>2
      <4>3. QED
        BY <4>1, <4>2
    <3>2. QED
      BY <3>1
  <2> HIDE DEF FitOf, Orders
  <2>2. QED
    BY <1>8, <1>12, <2>1
<1>16. ASSUME NEW f \in Assigned(a) PROVE f = g
  <2> HIDE DEF FitOf, Orders
  <2>1. f \in Orders /\ SumFunction(FitOf(g)) <= SumFunction(FitOf(f))
    BY <1>8, <1>12
  <2>2. SUFFICES ASSUME f # g PROVE FALSE
    OBVIOUS
  <2>3. /\ SumFunction(FitOf(f)) \in Int /\ SumFunction(FitOf(g)) \in Int
        /\ SumFunction(FitOf(f)) < SumFunction(FitOf(g))
    BY <1>13, <2>1, <2>2
  <2>4. QED
    BY <2>1, <2>3
<1>17. Fits(a, g)
  <2> SUFFICES ASSUME NEW s \in S PROVE Fit[Directions[Start(a) + s]][g[s]] >= 1
    BY <1>4 DEF Fits, FitAt
  <2>1. Directions[Start(a) + s] = g[s] /\ g[s] \in S
    BY <1>3, <1>6
  <2>2. Fit[g[s]][g[s]] = 2
    BY <1>7, <2>1
  <2>3. QED
    BY <2>1, <2>2
<1>18. QED
  BY <1>2, <1>15, <1>16, <1>17 DEF GeometryFails

----------------------------------------------------------------------------
(* The loop over the atoms *)

\* Atom a, whose list is in the array list, whose symmetry is sym and whose
\* vectors are slots, is as ShellsCanonical says.
ShellDone(a, list, sym, slots) ==
    /\ Rearranged(list, Entries(a)) \/ (BySymmetry(a) /\ LeadsAway(a))
    /\ OnlyBySymmetry(a) /\ LeadsAway(a) => ~Rearranged(list, Entries(a))
    /\ Truthful(a) =>
          /\ sym = Same
          /\ \A s \in Slot :
                /\ slots[s] = Ideal
                /\ Directions[list[Start(a) + s]] =
                      IF input[a].oriented THEN s ELSE input[a].symmetry[input[a].symmetry[s]]

\* Atoms visited are done, the lists of the others still as they were.
ShellInv ==
    /\ input \in [Atom -> AtomInputs] /\ atom \in 0 .. NumAtoms + 1
    /\ DOMAIN newSymmetry = Atom /\ DOMAIN newVectors = Atom
    /\ atom # 0 =>
          /\ indices = [p \in 1 .. Total |-> p]
          /\ symmetry = [a \in Atom |-> input[a].symmetry]
          /\ \A a \in Atom :
                IF a < atom THEN ShellDone(a, newIndices, newSymmetry[a], newVectors[a])
                ELSE \A p \in Entries(a) : newIndices[p] = p
    /\ atom = 0 => \A a \in Atom : ShellDone(a, indices, symmetry[a], vectors[a])

LEMMA ShellInitStep == ShellInit => ShellInv
<1> SUFFICES ASSUME ShellInit PROVE ShellInv
  OBVIOUS
<1>1. /\ input \in [Atom -> AtomInputs] /\ atom = 1
      /\ indices = [p \in 1 .. Total |-> p] /\ newIndices = indices
      /\ symmetry = [a \in Atom |-> input[a].symmetry]
      /\ newSymmetry = [a \in Atom |-> NoSymmetry]
      /\ newVectors = [a \in Atom |-> [s \in Slot |-> Zero]]
  BY DEF ShellInit
<1>2. atom \in 0 .. NumAtoms + 1 /\ \A a \in Atom : ~(a < atom)
  <2>1. NumAtoms \in Nat
    BY ShellAssumption
  <2>2. QED
    BY <1>1, <2>1 DEF Atom
<1>3. \A a \in Atom : \A p \in Entries(a) : newIndices[p] = p
  <2>1. \A a \in Atom : Entries(a) \subseteq 1 .. Total
    BY <1>1, EntriesApart
  <2>2. QED
    BY <1>1, <2>1
<1>4. DOMAIN newSymmetry = Atom /\ DOMAIN newVectors = Atom /\ atom # 0
  BY <1>1
<1>5. QED
  BY <1>1, <1>2, <1>3, <1>4 DEF ShellInv

\* Where the lists are and what is to be done with them depends on the input only.
LEMMA SameConstants ==
    Atom' = Atom /\ Slot' = Slot /\ Same' = Same
BY DEF Atom, Slot, Same

LEMMA SameLayout ==
    input' = input => Total' = Total /\ Directions' = Directions
BY DEF Total, Start, Length, Directions, Atom

LEMMA SameEntries ==
    ASSUME NEW a
    PROVE  input' = input =>
             /\ Start(a)' = Start(a) /\ Length(a)' = Length(a)
             /\ Entries(a)' = Entries(a)
BY DEF Start, Length, Entries

LEMMA SameTruth ==
    ASSUME NEW a
    PROVE  input' = input =>
             /\ Truthful(a)' <=> Truthful(a)
             /\ BySymmetry(a)' <=> BySymmetry(a)
             /\ OnlyBySymmetry(a)' <=> OnlyBySymmetry(a)
             /\ LeadsAway(a)' <=> LeadsAway(a)
<1> SUFFICES ASSUME input' = input
             PROVE  /\ Truthful(a)' <=> Truthful(a)
                    /\ BySymmetry(a)' <=> BySymmetry(a)
                    /\ OnlyBySymmetry(a)' <=> OnlyBySymmetry(a)
                    /\ LeadsAway(a)' <=> LeadsAway(a)
  OBVIOUS
<1>1. Truthful(a)' <=> Truthful(a)
  BY DEF Truthful, Length, Slot
<1>2. /\ Slot' = Slot /\ Total' = Total /\ Directions' = Directions
      /\ Start(a)' = Start(a) /\ Length(a)' = Length(a)
  BY SameConstants, SameLayout, SameEntries
<1>3. Exported(a)' = Exported(a)
  BY <1>2 DEF Exported
<1>4. Assigned(a)' = Assigned(a)
  BY <1>2, <1>3 DEF Assigned, FitAt
<1>5. LeadsAway(a)' <=> LeadsAway(a)
  BY <1>2, <1>3 DEF LeadsAway
<1>6. ASSUME NEW f PROVE Fits(a, f)' <=> Fits(a, f)
  BY <1>2, <1>3 DEF Fits, FitAt
<1>7. GeometryFails(a)' <=> GeometryFails(a)
  BY <1>4, <1>6 DEF GeometryFails
<1>8. BySymmetry(a)' <=> BySymmetry(a)
  BY <1>2, <1>7 DEF BySymmetry
<1>9. OnlyBySymmetry(a)' <=> OnlyBySymmetry(a)
  BY <1>4, <1>6, <1>8 DEF OnlyBySymmetry
<1>10. QED
  BY <1>1, <1>5, <1>8, <1>9

\* A visit that leaves the lists of others alone and does what it should with
\* its own keeps the invariant.
LEMMA VisitKeeps ==
    ASSUME ShellInv, atom \in Atom, NEW list, NEW sym, NEW slots,
           Write(atom, list, sym, slots),
           \A p \in 1 .. Total : p \notin Entries(atom) => list[p] = newIndices[p],
           ShellDone(atom, list, sym, slots)
    PROVE  ShellInv'
<1>1. /\ newIndices' = list
      /\ newSymmetry' = [newSymmetry EXCEPT ![atom] = sym]
      /\ newVectors' = [newVectors EXCEPT ![atom] = slots]
      /\ atom' = atom + 1
      /\ UNCHANGED <<input, given, indices, symmetry, vectors>>
  BY DEF Write, context
<1>2. /\ input \in [Atom -> AtomInputs]
      /\ DOMAIN newSymmetry = Atom /\ DOMAIN newVectors = Atom
      /\ NumAtoms \in Nat /\ Atom = 1 .. NumAtoms
      /\ indices = [p \in 1 .. Total |-> p]
      /\ symmetry = [a \in Atom |-> input[a].symmetry]
      /\ \A a \in Atom :
                IF a < atom THEN ShellDone(a, newIndices, newSymmetry[a], newVectors[a])
                ELSE \A p \in Entries(a) : newIndices[p] = p
  <2>1. NumAtoms \in Nat /\ Atom = 1 .. NumAtoms
    BY ShellAssumption DEF ShellInv, Atom
  <2>2. atom # 0
    BY <2>1
  <2>3. QED
    BY <2>1, <2>2 DEF ShellInv
<1>4. /\ atom' \in 0 .. NumAtoms + 1 /\ atom' # 0
      /\ \A a \in Atom : a < atom' <=> a < atom \/ a = atom
      /\ \A a \in Atom : ~(a < atom')  => a # atom /\ ~(a < atom)
  BY <1>1, <1>2
<1>5. Total' = Total /\ Atom' = Atom
  BY <1>1, SameConstants, SameLayout
<1>e. ASSUME NEW a PROVE Entries(a)' = Entries(a)
  BY <1>1, SameEntries
<1>6. ASSUME NEW a \in Atom, a # atom
      PROVE  /\ \A p \in Entries(a) : list[p] = newIndices[p]
             /\ newSymmetry'[a] = newSymmetry[a] /\ newVectors'[a] = newVectors[a]
  <2>1. Entries(a) \subseteq 1 .. Total /\ Entries(a) \cap Entries(atom) = {}
    BY <1>2, <1>6, EntriesApart
  <2>2. QED
    BY <1>1, <1>2, <1>6, <2>1
<1>7. ASSUME NEW a \in Atom, a < atom'
      PROVE  ShellDone(a, newIndices', newSymmetry'[a], newVectors'[a])
  <2>1. CASE a = atom
    BY <1>1, <1>2, <2>1
  <2>2. CASE a # atom
    <3>1. a < atom
      BY <1>4, <1>7, <2>2
    <3>2. ShellDone(a, newIndices, newSymmetry[a], newVectors[a])
      BY <1>2, <3>1
    <3>3. \A p \in Entries(a) : list[p] = newIndices[p]
      BY <1>6, <2>2
    <3>4. Rearranged(newIndices, Entries(a)) <=> Rearranged(list, Entries(a))
      BY <3>3 DEF Rearranged
    <3>5. Truthful(a) => \A s \in Slot : list[Start(a) + s] = newIndices[Start(a) + s]
      <4>1. Truthful(a) => Exported(a) = Slot
        BY <1>2, EntriesApart DEF Truthful
      <4>2. \A s \in Exported(a) : Start(a) + s \in Entries(a)
        BY <1>2, EntriesApart
      <4>3. QED
        BY <3>3, <4>1, <4>2
    <3>6. ShellDone(a, list, newSymmetry[a], newVectors[a])
      BY <3>2, <3>4, <3>5 DEF ShellDone
    <3>7. QED
      BY <1>1, <1>6, <2>2, <3>6
  <2>3. QED
    BY <2>1, <2>2
<1>8. ASSUME NEW a \in Atom, a < atom'
      PROVE  ShellDone(a, newIndices, newSymmetry[a], newVectors[a])'
  <2>1. ShellDone(a, newIndices', newSymmetry'[a], newVectors'[a])
    BY <1>7, <1>8
  <2>2. /\ Slot' = Slot /\ Same' = Same
    BY SameConstants
  <2>3. Directions' = Directions /\ input' = input
    BY <1>1, SameLayout
  <2>4. /\ Start(a)' = Start(a) /\ Length(a)' = Length(a)
        /\ Entries(a)' = Entries(a)
    BY <1>1, SameEntries
  <2>5. /\ (Truthful(a)' <=> Truthful(a)) /\ (LeadsAway(a)' <=> LeadsAway(a))
        /\ (BySymmetry(a)' <=> BySymmetry(a)) /\ (OnlyBySymmetry(a)' <=> OnlyBySymmetry(a))
    BY <1>1, SameTruth
  <2>6. QED
    BY <2>1, <2>2, <2>3, <2>4, <2>5 DEF ShellDone, Rearranged
<1>9. ASSUME NEW a \in Atom, ~(a < atom')
      PROVE  \A p \in Entries(a) : newIndices'[p] = p
  <2>1. a # atom /\ ~(a < atom)
    BY <1>4, <1>9
  <2>2. QED
    BY <1>1, <1>2, <1>6, <2>1
<1>10. DOMAIN newSymmetry' = Atom /\ DOMAIN newVectors' = Atom
  BY <1>1, <1>2
<1>11. symmetry' = [a \in Atom |-> input'[a].symmetry] /\ indices' = [p \in 1 .. Total |-> p]
       /\ input' \in [Atom -> AtomInputs]
  BY <1>1, <1>2
<1>12. QED
  BY <1>4, <1>5, <1>e, <1>8, <1>9, <1>10, <1>11 DEF ShellInv

\* When all lists are replaced they are those that were made.
LEMMA PublishStep == ShellInv /\ Publish => ShellInv'
<1> SUFFICES ASSUME ShellInv, Publish PROVE ShellInv'
  OBVIOUS
<1>1. /\ atom = NumAtoms + 1 /\ atom' = 0
      /\ indices' = newIndices /\ symmetry' = newSymmetry /\ vectors' = newVectors
      /\ UNCHANGED <<input, given, newIndices, newSymmetry, newVectors>>
  BY DEF Publish
<1>2. /\ input \in [Atom -> AtomInputs]
      /\ DOMAIN newSymmetry = Atom /\ DOMAIN newVectors = Atom
      /\ NumAtoms \in Nat /\ Atom = 1 .. NumAtoms
  BY ShellAssumption DEF ShellInv, Atom
<1>3. Atom' = Atom
  BY SameConstants
<1>4. \A a \in Atom : ShellDone(a, newIndices, newSymmetry[a], newVectors[a])
  BY <1>1, <1>2 DEF ShellInv
<1>5. ASSUME NEW a \in Atom PROVE ShellDone(a, indices, symmetry[a], vectors[a])'
  <2>1. ShellDone(a, newIndices, newSymmetry[a], newVectors[a])
    BY <1>4
  <2>2. /\ Slot' = Slot /\ Same' = Same
    BY SameConstants
  <2>3. Directions' = Directions /\ input' = input
    BY <1>1, SameLayout
  <2>4. /\ Start(a)' = Start(a) /\ Length(a)' = Length(a)
        /\ Entries(a)' = Entries(a)
    BY <1>1, SameEntries
  <2>5. /\ (Truthful(a)' <=> Truthful(a)) /\ (LeadsAway(a)' <=> LeadsAway(a))
        /\ (BySymmetry(a)' <=> BySymmetry(a)) /\ (OnlyBySymmetry(a)' <=> OnlyBySymmetry(a))
    BY <1>1, SameTruth
  <2>6. QED
    BY <1>1, <2>1, <2>2, <2>3, <2>4, <2>5 DEF ShellDone, Rearranged
<1>6. QED
  BY <1>1, <1>2, <1>3, <1>5 DEF ShellInv

LEMMA ReturnStep == ShellInv /\ UNCHANGED shellVars => ShellInv'
<1> SUFFICES ASSUME ShellInv, UNCHANGED shellVars PROVE ShellInv'
  OBVIOUS
<1>1. UNCHANGED <<input, given, indices, symmetry, vectors, newIndices, newSymmetry, newVectors, atom>>
  BY DEF shellVars, context
<1>2. ASSUME NEW a
      PROVE  /\ ShellDone(a, newIndices, newSymmetry[a], newVectors[a]) =>
                   ShellDone(a, newIndices, newSymmetry[a], newVectors[a])'
             /\ ShellDone(a, indices, symmetry[a], vectors[a]) =>
                   ShellDone(a, indices, symmetry[a], vectors[a])'
  <2>2. /\ Slot' = Slot /\ Same' = Same
    BY SameConstants
  <2>3. Directions' = Directions /\ input' = input
    BY <1>1, SameLayout
  <2>4. /\ Start(a)' = Start(a) /\ Length(a)' = Length(a)
        /\ Entries(a)' = Entries(a)
    BY <1>1, SameEntries
  <2>5. /\ (Truthful(a)' <=> Truthful(a)) /\ (LeadsAway(a)' <=> LeadsAway(a))
        /\ (BySymmetry(a)' <=> BySymmetry(a)) /\ (OnlyBySymmetry(a)' <=> OnlyBySymmetry(a))
    BY <1>1, SameTruth
  <2>6. QED
    BY <1>1, <2>2, <2>3, <2>4, <2>5 DEF ShellDone, Rearranged
<1>3. Atom' = Atom /\ Total' = Total
  BY <1>1, SameConstants, SameLayout
<1>e. ASSUME NEW a PROVE Entries(a)' = Entries(a)
  BY <1>1, SameEntries
<1>4. CASE atom = 0
  BY <1>1, <1>2, <1>3, <1>4 DEF ShellInv
<1>5. CASE atom # 0
  BY <1>1, <1>2, <1>3, <1>5, <1>e DEF ShellInv
<1>6. QED
  BY <1>4, <1>5

LEMMA BeforeVisit ==
    ASSUME ShellInv, atom \in Atom
    PROVE  /\ input \in [Atom -> AtomInputs]
           /\ Coordination \in Nat \ {0}
           /\ indices = [p \in 1 .. Total |-> p]
           /\ symmetry[atom] = input[atom].symmetry
           /\ \A p \in Entries(atom) : newIndices[p] = p
<1>1. atom # 0 /\ ~(atom < atom)
  BY ShellAssumption DEF ShellInv, Atom
<1>2. input \in [Atom -> AtomInputs]
  BY DEF ShellInv
<1>3. Coordination \in Nat \ {0}
  BY ShellAssumption
<1>4. symmetry[atom] = input[atom].symmetry
  BY <1>1 DEF ShellInv
<1>5. \A p \in Entries(atom) : newIndices[p] = p
  BY <1>1 DEF ShellInv
<1>6. indices = [p \in 1 .. Total |-> p]
  BY <1>1 DEF ShellInv
<1>7. QED
  BY <1>2, <1>3, <1>4, <1>5, <1>6

LEMMA UnchangedRearranged ==
    ASSUME NEW list, NEW E, \A p \in E : list[p] = p
    PROVE  Rearranged(list, E)
BY DEF Rearranged

LEMMA SkipStep ==
    ASSUME ShellInv, atom \in Atom, SkipAtom(atom)
    PROVE  ShellInv'
<1>1. /\ ~input[atom].typed \/ Length(atom) = 0
      /\ Write(atom, newIndices, symmetry[atom], newVectors[atom])
  BY DEF SkipAtom
<1>2. ~Truthful(atom) /\ ~BySymmetry(atom)
  BY <1>1, BeforeVisit DEF Truthful, BySymmetry
<1>3. Rearranged(newIndices, Entries(atom))
  BY BeforeVisit, UnchangedRearranged
<1>4. ShellDone(atom, newIndices, symmetry[atom], newVectors[atom])
  BY <1>2, <1>3 DEF ShellDone, OnlyBySymmetry
<1>5. QED
  BY <1>1, <1>4, VisitKeeps

LEMMA KeepStep ==
    ASSUME ShellInv, atom \in Atom, KeepShell(atom)
    PROVE  ShellInv'
<1>1. PICK slots : symmetry[atom] = NoSymmetry /\ Write(atom, newIndices, NoSymmetry, slots)
  BY DEF KeepShell
<1>2. ~Truthful(atom) /\ ~BySymmetry(atom)
  BY <1>1, BeforeVisit DEF Truthful, BySymmetry
<1>3. Rearranged(newIndices, Entries(atom))
  BY BeforeVisit, UnchangedRearranged
<1>4. ShellDone(atom, newIndices, NoSymmetry, slots)
  BY <1>2, <1>3 DEF ShellDone, OnlyBySymmetry
<1>5. QED
  BY <1>1, <1>4, VisitKeeps

\* A neighbour of a list with truthful symmetry is where the symmetry says.
LEMMA TruthDirections ==
    ASSUME input \in [Atom -> AtomInputs], NEW a \in Atom,
           Truthful(a)
    PROVE  /\ Exported(a) = Slot /\ input[a].symmetry \in Symmetries
           /\ Length(a) >= Coordination
           /\ \A c \in Slot : Directions[Start(a) + c] = input[a].symmetry[c]
<1>1. Exported(a) = Slot
  BY EntriesApart DEF Truthful
<1>2. input[a].symmetry \in Symmetries
  BY InputTypes DEF Truthful
<1>3. ASSUME NEW c \in Slot PROVE Directions[Start(a) + c] = input[a].symmetry[c]
  <2>1. c \in 1 .. Length(a)
    BY <1>1, EntriesApart
  <2>2. Directions[Start(a) + c] = input[a].shell[c]
    BY <2>1, ShellLayout
  <2>3. QED
    BY <2>2 DEF Truthful
<1>4. QED
  BY <1>1, <1>2, <1>3 DEF Truthful

LEMMA GeometryStep ==
    ASSUME ShellInv, atom \in Atom, PlaceByGeometry(atom)
    PROVE  ShellInv'
<1>1. PICK f \in Assigned(atom) :
         Fits(atom, f) /\ Write(atom, Placed(atom, f), Same,
                  IdealIn(Exported(atom), newVectors[atom]))
  BY DEF PlaceByGeometry
<1>2. /\ input \in [Atom -> AtomInputs]
      /\ \A p \in Entries(atom) : newIndices[p] = p
  BY BeforeVisit
<1>3. PlacedBy(Placed(atom, f), atom, f)
  <2>1. Order(f, Exported(atom))
    BY <1>2, AssignedOrders
  <2>2. QED
    BY <1>2, <2>1, PlacedKeeps DEF Untouched
<1> DEFINE list == Placed(atom, f)
           slots == IdealIn(Exported(atom), newVectors[atom])
<1>4. /\ \A p \in 1 .. Total : p \notin Entries(atom) => list[p] = newIndices[p]
      /\ Rearranged(list, Entries(atom))
      /\ \A c \in Exported(atom) : list[Start(atom) + f[c]] = Start(atom) + c
  BY <1>3 DEF PlacedBy
<1>5. input[atom].oriented
  <2>1. Assigned(atom) # {}
    OBVIOUS
  <2>2. QED
    BY <2>1 DEF Assigned
<1>6. ASSUME Truthful(atom)
      PROVE  \A s \in Slot : Directions[list[Start(atom) + s]] = s /\ slots[s] = Ideal
  <2> SUFFICES ASSUME NEW s \in Slot
               PROVE  Directions[list[Start(atom) + s]] = s /\ slots[s] = Ideal
    OBVIOUS
  <2>1. f = input[atom].symmetry
    BY <1>2, <1>5, <1>6, TruthAssigned
  <2>2. /\ Exported(atom) = Slot /\ f \in Symmetries
        /\ \A c \in Slot : Directions[Start(atom) + c] = f[c]
    BY <1>2, <1>6, <2>1, TruthDirections
  <2>3. PICK c \in Slot : f[c] = s
    BY <1>2, <2>2, SymmetryTypes
  <2>4. list[Start(atom) + f[c]] = Start(atom) + c
    BY <1>4, <2>2
  <2> HIDE DEF list
  <2>5. Directions[list[Start(atom) + s]] = s
    BY <2>2, <2>3, <2>4
  <2>6. slots[s] = Ideal
    BY <2>2 DEF IdealIn
  <2>7. QED
    BY <2>5, <2>6
<1> HIDE DEF list
<1> HIDE DEF slots
<1>7. ~OnlyBySymmetry(atom)
  BY <1>1 DEF OnlyBySymmetry
<1>8. ShellDone(atom, list, Same, slots)
  BY <1>4, <1>5, <1>6, <1>7 DEF ShellDone
<1>9. Write(atom, list, Same, slots)
  BY <1>1 DEF list, slots
<1>10. QED
  BY <1>4, <1>8, <1>9, VisitKeeps

\* All slots are found if and only if the symmetry does not lead out of the array.
LEMMA FoundAll ==
    ASSUME input \in [Atom -> AtomInputs], NEW a \in Atom
    PROVE  Found(a) = Exported(a)
             <=> \A s \in Exported(a) : Start(a) + symmetry[a][s] <= Total
<1>1. ASSUME NEW s \in Exported(a)
      PROVE  s \in 1 .. s /\ \A t \in 1 .. s : t \in Exported(a)
  <2>1. s \in Nat \ {0} /\ Coordination \in Nat /\ Length(a) \in Nat
        /\ s <= Coordination /\ s <= Length(a)
    BY ShellAssumption, ShellLayout DEF Exported, Slot
  <2>2. QED
    BY <2>1 DEF Exported, Slot
<1>2. QED
  BY <1>1, Zenon DEF Found

LEMMA SlotsOfSymmetry ==
    ASSUME input \in [Atom -> AtomInputs], NEW a \in Atom, symmetry[a] \in Symmetries,
           NEW s \in Exported(a)
    PROVE  symmetry[a][s] \in Int /\ Length(a) \in Int
<1>1. Length(a) \in Nat /\ s \in Slot
  BY ShellLayout DEF Exported
<1>2. symmetry[a][s] \in Slot
  BY <1>1, SymmetryTypes
<1>3. QED
  BY <1>1, <1>2, ShellAssumption DEF Slot

LEMMA SymmetryStep ==
    ASSUME ShellInv, atom \in Atom, PlaceBySymmetry(atom)
    PROVE  ShellInv'
<1> DEFINE list == Moved(atom)
           slots == IdealIn(Found(atom), newVectors[atom])
<1>1. /\ input[atom].typed /\ Length(atom) > 0 /\ symmetry[atom] # NoSymmetry
      /\ GeometryFails(atom) /\ Found(atom) = Exported(atom)
      /\ Write(atom, list, Same, slots)
  BY DEF PlaceBySymmetry
<1>2. /\ input \in [Atom -> AtomInputs]
      /\ symmetry[atom] = input[atom].symmetry
      /\ \A p \in Entries(atom) : newIndices[p] = p
  BY BeforeVisit
<1>3. symmetry[atom] \in Symmetries
  BY <1>1, <1>2, InputTypes
<1>4. /\ \A p \in 1 .. Total : p \notin Entries(atom) => list[p] = newIndices[p]
      /\ Length(atom) >= Coordination =>
            /\ Found(atom) = Slot
            /\ \A s \in Slot : list[Start(atom) + s] = Start(atom) + symmetry[atom][s]
      /\ Rearranged(list, Entries(atom))
            <=> \A s \in Exported(atom) : symmetry[atom][s] <= Length(atom)
  BY <1>1, <1>2, <1>3, MovedKeeps
<1> HIDE DEF list, slots
<1>5. BySymmetry(atom) /\ (Rearranged(list, Entries(atom)) <=> ~LeadsAway(atom))
  <2>1. BySymmetry(atom)
    BY <1>1, <1>2 DEF BySymmetry
  <2>2. LeadsAway(atom) <=> \E s \in Exported(atom) : symmetry[atom][s] > Length(atom)
    BY <1>1, <1>2, FoundAll DEF LeadsAway
  <2>3. \A s \in Exported(atom) : symmetry[atom][s] \in Int /\ Length(atom) \in Int
    BY <1>2, <1>3, SlotsOfSymmetry
  <2>4. QED
    BY <1>4, <2>1, <2>2, <2>3
<1>6. ASSUME Truthful(atom), NEW s \in Slot
      PROVE  /\ slots[s] = Ideal /\ ~input[atom].oriented
             /\ Directions[list[Start(atom) + s]] = input[atom].symmetry[input[atom].symmetry[s]]
  <2>1. ~input[atom].oriented
    <3>1. input[atom].oriented => ~GeometryFails(atom)
      BY <1>2, <1>6, TruthAssigned
    <3>2. QED
      BY <1>1, <3>1
  <2>2. PICK g : g = input[atom].symmetry
    OBVIOUS
  <2>3. /\ g \in Symmetries /\ Length(atom) >= Coordination
        /\ \A c \in Slot : Directions[Start(atom) + c] = g[c]
    BY <1>2, <1>6, <2>2, TruthDirections
  <2>4. g[s] \in Slot
    BY <2>3, SymmetryTypes
  <2>5. Found(atom) = Slot /\ list[Start(atom) + s] = Start(atom) + g[s]
    BY <1>2, <1>4, <2>2, <2>3
  <2>6. slots[s] = Ideal
    BY <2>5 DEF IdealIn, slots
  <2>7. QED
    BY <2>1, <2>2, <2>3, <2>4, <2>5, <2>6
<1>7. ShellDone(atom, list, Same, slots)
  BY <1>5, <1>6 DEF ShellDone
<1>8. Write(atom, list, Same, slots)
  BY <1>1 DEF list, slots
<1>9. QED
  BY <1>4, <1>7, <1>8, VisitKeeps

LEMMA RestoreStep ==
    ASSUME ShellInv, atom \in Atom, RestoreShell(atom)
    PROVE  ShellInv'
<1> DEFINE list == Restored(atom, Moved(atom))
<1>1. PICK slots :
         /\ symmetry[atom] # NoSymmetry /\ Found(atom) # Exported(atom)
         /\ Write(atom, list, symmetry[atom], slots)
  BY DEF RestoreShell
<1>2. /\ input \in [Atom -> AtomInputs]
      /\ symmetry[atom] = input[atom].symmetry
      /\ indices = [p \in 1 .. Total |-> p]
      /\ \A p \in Entries(atom) : newIndices[p] = p
  BY BeforeVisit
<1>3. symmetry[atom] \in Symmetries
  BY <1>1, <1>2, InputTypes
<1>4. /\ \A p \in 1 .. Total : p \notin Entries(atom) => Moved(atom)[p] = newIndices[p]
      /\ Length(atom) >= Coordination => Found(atom) = Slot
  BY <1>2, <1>3, MovedKeeps
<1>5. \A p \in 1 .. Total :
         list[p] = IF p \in Entries(atom) THEN indices[p] ELSE Moved(atom)[p]
  BY DEF Restored
<1>6. Entries(atom) \subseteq 1 .. Total
  BY <1>2, EntriesApart
<1> HIDE DEF list
<1>7. \A p \in 1 .. Total : p \notin Entries(atom) => list[p] = newIndices[p]
  BY <1>4, <1>5
<1>8. \A p \in Entries(atom) : list[p] = p
  BY <1>2, <1>5, <1>6
<1>9. Rearranged(list, Entries(atom))
  BY <1>8, UnchangedRearranged
<1>10. ~Truthful(atom)
  <2>1. Truthful(atom) => Exported(atom) = Slot /\ Length(atom) >= Coordination
    BY <1>2, TruthDirections
  <2>2. QED
    BY <1>1, <1>4, <2>1
<1>11. ~LeadsAway(atom)
  BY <1>1, <1>2, FoundAll DEF LeadsAway
<1>12. ShellDone(atom, list, symmetry[atom], slots)
  BY <1>9, <1>10, <1>11 DEF ShellDone
<1>13. QED
  BY <1>1, <1>7, <1>12, VisitKeeps

LEMMA ShellStep == ShellInv /\ [ShellNext]_shellVars => ShellInv'
<1>1. ASSUME ShellInv, atom \in Atom, VisitAtom(atom) PROVE ShellInv'
  BY <1>1, SkipStep, KeepStep, GeometryStep, SymmetryStep, RestoreStep DEF VisitAtom
<1>2. QED
  BY <1>1, PublishStep, ReturnStep DEF ShellNext, ReturnShells

LEMMA ShellsDone == ShellInv => ShellsCanonical
<1> SUFFICES ASSUME ShellInv, atom = 0, NEW a \in Atom
             PROVE  ShellKept(a) /\ ShellConventional(a)
  BY DEF ShellsCanonical
<1>1. ShellDone(a, indices, symmetry[a], vectors[a])
  BY DEF ShellInv
<1>2. ShellConventional(a)
  BY <1>1 DEF ShellDone, ShellConventional
<1>3. ASSUME NEW E PROVE {indices[p] : p \in E} = E <=> Rearranged(indices, E)
  BY DEF Rearranged
<1>4. ShellKept(a)
  BY <1>1, <1>3 DEF ShellDone, ShellKept
<1>5. QED
  BY <1>2, <1>4

\* When the call returns the lists that have lost neighbours are exactly those
\* that were rewritten by a symmetry that leads to the lists behind them.  Lists
\* that are full and true to the symmetry of their atom have their neighbours in
\* the slots of the directions they are in if they were rewritten by geometry,
\* and in the slots that the symmetry maps to those when applied twice if they
\* were rewritten by symmetry.
THEOREM ShellsCanonicalCorrect == ShellSpec => []ShellsCanonical
<1>1. ShellInit => ShellInv
  BY ShellInitStep
<1>2. ShellInv /\ [ShellNext]_shellVars => ShellInv'
  BY ShellStep
<1>3. ShellInv => ShellsCanonical
  BY ShellsDone
<1>4. QED
  BY <1>1, <1>2, <1>3, PTL DEF ShellSpec
=============================================================================
