SPECIFICATION Spec
CONSTANTS
    Tm <- MCTm
    Id <- MCId
    Mul <- MCMul
    Inv <- MCInv
    NumClusters = 4
    TransitionSeqs <- MCTransitionSeqs
    NoLink = NoLink
INVARIANTS
    HierarchyExact
    TransportConsistent
    RootsByRank
PROPERTIES
    ImplementsPartition
    RebuildEnds
