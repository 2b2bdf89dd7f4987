CONSTANTS
    MaxBlocks = 3
    ReorgDepth = 1
    MaxReturns = 0
    Kinds = {"mint", "odd"}
    EntryPoints = {TRUE}
    StreamBehind = FALSE
    ReplayLimit = 1
    JournalLimit = 4
    MaxSessions = 2
    MaxFaults = 1
    MaxDuplicates = 1
    MaxRefreshes = 0
    ProofLimit = 9
SPECIFICATION ObsFairSpec
CHECK_DEADLOCK FALSE
INVARIANTS ObsTypeOK ConfirmedState
PROPERTY Recovers IdleConfirmed
