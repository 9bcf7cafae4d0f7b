SPECIFICATION Spec
CONSTANTS
    Tm <- MCTm
    Id <- MCId
    Mul <- MCMul
    Inv <- MCInv
    InputTm <- MCInputTm
    AutoIds = FALSE
    ImportIds = {1, 3, 4}
    MaxClusters = 4
    MaxPool = 9
    MaxDistance = 3
INVARIANT
    FindClusterExact
PROPERTY
    DetermineAnswers
CHECK_DEADLOCK FALSE
