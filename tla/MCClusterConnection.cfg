SPECIFICATION Spec
CONSTANTS
    NoOverlap = NoOverlap
    NumAtoms = 4
    NumClusters = 3
    MaxNeighbors = 3
    Tm <- MCTm
    Id <- MCId
    Mul <- MCMul
    Inv <- MCInv
    Inputs <- MCInputs
INVARIANTS
    LinksExact
    FirstBondDecides
    ReverseAdjacency
    ListsExtended
PROPERTIES
    ConnectsGraph
CHECK_DEADLOCK FALSE
