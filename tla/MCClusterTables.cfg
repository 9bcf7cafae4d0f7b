SPECIFICATION TablesSpec
CONSTANTS
    NoFile = NoFile
    NotExported = NotExported
    Tm <- MCTm
    Id <- MCId
    Mul <- MCMul
    Inv <- MCInv
    InputCrystal = "fcc"
    Other = "other"
    Symmetries <- MCSymmetries
    MinClusterSize = 50
    Inputs <- MCInputs
    OldTables <- MCOldTables
INVARIANTS
    ImportExact
    RoundTrip
    GrainsKept
    GrainsMeetAtDefects
    DissolvedTogether
CHECK_DEADLOCK FALSE
