SPECIFICATION Spec
CONSTANTS
    Threads = {t1, t2}
    RootLists <- MCRootLists
    DefaultRoots <- MCDefaultRoots
    NoRoot = NoRoot
    FilesBelow <- MCFilesBelow
    File <- MCFile
    Malformed = Malformed
    Names <- MCNames
    Key <- MCKey
    MaxChanges = 2
    Failed = Failed
    NoEntry = NoEntry
    NoShape = NoShape
INVARIANTS
    LookupExact
    ReferencesLast
    SharedAgrees
PROPERTY
    CallsEnd
