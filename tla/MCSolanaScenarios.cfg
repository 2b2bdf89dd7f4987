SPECIFICATION MCSpec
CONSTANTS
    Left = left
    Right = right
    LeftArray = la
    RightArray = ra
    Pool = pool
    Arrays = {la, ra}
    FeeConfigs = {config}
    Positions = {left, right}
    Start = left
    Around <- AroundPosition
    MaxAttempts = 2
    ReaderBehind = FALSE
    StreamLag = 1
    MaxSlot = 2
    MaxRuns = 2
    MaxFailures = 1
INVARIANTS SolTypeOK CachedExact CachedFollowed RetainedNotUndone
PROPERTY CacheFenced
CHECK_DEADLOCK FALSE
