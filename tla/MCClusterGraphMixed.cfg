SPECIFICATION Spec
CONSTANTS
    Tm <- MCTm
    Id <- MCId
    Mul <- MCMul
    Inv <- MCInv
    InputTm <- MCInputTm
    AutoIds = TRUE
    ImportIds = {2, 3}
    MaxClusters = 4
    MaxPool = 3
    MaxDistance = 2
INVARIANT
    InsertSucceeds
CHECK_DEADLOCK FALSE
