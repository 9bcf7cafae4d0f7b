SPECIFICATION Spec
CONSTANTS
    Count = 3
    Scale = 3
    Infinity = Infinity
    Matrices <- MCMatrices
INVARIANTS
    PotentialsSound
    AssignmentOptimal
