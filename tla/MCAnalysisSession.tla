------------------------- MODULE MCAnalysisSession -------------------------
(***************************************************************************)
(* Four analyses: two identifications of one frame of three atoms, one of  *)
(* a frame without ids, and a session nothing was identified in.           *)
(***************************************************************************)
EXTENDS AnalysisSession

CONSTANTS Crystal, v1, v2, v3

MCCoordination == [t \in {Crystal} |-> 1]

Vectors(n) == [i \in 0 .. (n - 1) |-> [s \in 0 .. 1 |-> IF i = 0 /\ s = 0 THEN v1 ELSE IF i = 0 THEN v2 ELSE v3]]

\* Two grains, lists of two, one and no neighbours.
TwoGrains ==
    [natoms |-> 3, ids |-> [i \in 0 .. 2 |-> <<5, 2, 9>>[i + 1]],
     types |-> [i \in 0 .. 2 |-> IF i = 2 THEN Other ELSE Crystal],
     clusterOf |-> [i \in 0 .. 2 |-> <<1, 2, 0>>[i + 1]],
     counts |-> [i \in 0 .. 2 |-> <<2, 1, 0>>[i + 1]],
     offsets |-> [i \in 0 .. 2 |-> <<0, 2, 3>>[i + 1]],
     indices |-> [k \in 0 .. 2 |-> <<1, 2, 0>>[k + 1]],
     vectors |-> Vectors(3), overrides |-> FALSE,
     clusters |-> {1, 2}, links |-> {<<1, 2>>, <<2, 1>>}]

\* One grain in the same frame, canonicalised.
OneGrain ==
    [TwoGrains EXCEPT
        !.types = [i \in 0 .. 2 |-> Crystal],
        !.clusterOf = [i \in 0 .. 2 |-> 1],
        !.counts = [i \in 0 .. 2 |-> <<1, 0, 2>>[i + 1]],
        !.offsets = [i \in 0 .. 2 |-> <<0, 1, 1>>[i + 1]],
        !.indices = [k \in 0 .. 2 |-> <<2, 1, 0>>[k + 1]],
        !.overrides = TRUE,
        !.clusters = {1}, !.links = {}]

\* A frame of two atoms without ids.
NoIds ==
    [natoms |-> 2, ids |-> Null,
     types |-> [i \in 0 .. 1 |-> Crystal],
     clusterOf |-> [i \in 0 .. 1 |-> i + 1],
     counts |-> [i \in 0 .. 1 |-> 1],
     offsets |-> [i \in 0 .. 1 |-> i],
     indices |-> [k \in 0 .. 1 |-> 1 - k],
     vectors |-> Vectors(2), overrides |-> FALSE,
     clusters |-> {1, 2}, links |-> {<<1, 2>>, <<2, 1>>}]

\* The AnalysisContext prepareAnalysisSession makes: no structure, no neighbours.
Prepared ==
    [natoms |-> 3, ids |-> TwoGrains.ids,
     types |-> [i \in 0 .. 2 |-> Other], clusterOf |-> [i \in 0 .. 2 |-> 0],
     counts |-> Null, offsets |-> Null, indices |-> Null,
     vectors |-> Vectors(3), overrides |-> FALSE,
     clusters |-> {}, links |-> {}]

MCAnalyses == {TwoGrains, OneGrain, NoIds, Prepared}
=============================================================================
