SPECIFICATION ChoiceSpec
CONSTANTS
    Fcc = Fcc
    Hcp = Hcp
    Other = Other
    NoOverlap = NoOverlap
    NumAtoms = 4
    Types = {Fcc, Hcp}
    InputCrystalType = Fcc
    FallbackTypes = {Fcc}
    Tm <- MCTm
    Id = 0
    Mul <- MCMul
    Inv <- MCInv
    Inputs <- MCInputs
INVARIANTS
    AtomCountExact
    SymmetryCarried
    Exhaustive
    EveryAtomSettled
    SymmetriesCanonical
PROPERTIES
    FramesKept
    BuildEnds
CHECK_DEADLOCK FALSE
