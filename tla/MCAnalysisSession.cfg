SPECIFICATION Spec
CONSTANTS
    Analyses <- MCAnalyses
    Coordination <- MCCoordination
    MaxNeighbors = 2
    Other = Other
    Crystal = Crystal
    v1 = v1
    v2 = v2
    v3 = v3
    ZeroVector = ZeroVector
    Fraction = Fraction
    Spoiled = Spoiled
    Null = Null
    MaxExports = 2
    MaxLoads = 3
    MaxFaults = 2
INVARIANTS
    ReloadExact
    AtomsMatch
    OneImport
CHECK_DEADLOCK FALSE
