CONSTANTS
    MaxBlocks = 3
    ReorgDepth = 1
    MaxReturns = 0
    Kinds = {"swap", "mint"}
    EntryPoints = {TRUE, FALSE}
    StreamBehind = FALSE
    ReplayLimit = 4
    JournalLimit = 4
    MaxSessions = 1
    MaxFaults = 1
    MaxDuplicates = 0
    MaxRefreshes = 1
    ProofLimit = 1
SPECIFICATION ObsSpec
CHECK_DEADLOCK FALSE
INVARIANTS PublishedCurrent BaselineCoherent BufferComplete ConfirmedState
