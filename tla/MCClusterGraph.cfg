SPECIFICATION Spec
CONSTANTS
    Tm <- MCTm
    Id <- MCId
    Mul <- MCMul
    Inv <- MCInv
    InputTm <- MCInputTm
    AutoIds = TRUE
    ImportIds = {}
    MaxClusters = 5
    MaxPool = 6
    MaxDistance = 3
INVARIANTS
    ReversePairs
    TransitionsAreWalks
    DisconnectedSound
VIEW StateView
CHECK_DEADLOCK FALSE
