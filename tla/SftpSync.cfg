SPECIFICATION FairSpec
CONSTANTS
    Paths <- MCPaths
    TempNames <- MCTempNames
    None = None
    MaxEpoch = 2
    MaxCuts = 2
INVARIANTS
    SyncInv
    SuccessMeansMirrored
    NoHalfFileInPlace
    OrderIsAccepted
PROPERTIES
    ListedEntriesStay
    SyncsConverge
CHECK_DEADLOCK FALSE
