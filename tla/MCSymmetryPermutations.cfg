SPECIFICATION SymmetrySpec
CONSTANTS
    Shells <- MCShells
    Locals <- MCLocals
    Tolerance <- MCTolerance
INVARIANTS
    EnumerationComplete
    ProductsPlaced
    AdaptedTruthful
