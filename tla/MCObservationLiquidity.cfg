CONSTANTS
    MaxBlocks = 4
    ReorgDepth = 0
    MaxReturns = 0
    Kinds = {"swap", "mint"}
    EntryPoints = {TRUE}
    StreamBehind = FALSE
    ReplayLimit = 4
    JournalLimit = 4
    MaxSessions = 1
    MaxFaults = 0
    MaxDuplicates = 0
    MaxRefreshes = 0
    ProofLimit = 9
SPECIFICATION ObsSpec
CHECK_DEADLOCK FALSE
INVARIANTS ConfirmedLiquidity
