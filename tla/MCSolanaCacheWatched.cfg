SPECIFICATION Spec
CONSTANTS
    Left = left
    Right = right
    LeftArray = la
    RightArray = ra
    Pool = pool
    Arrays = {la, ra}
    FeeConfigs = {}
    Positions = {left, right}
    Start = left
    Around <- AroundPosition
    MaxAttempts = 2
    ReaderBehind = FALSE
    StreamLag = 1
    MaxSlot = 2
    MaxRuns = 1
    MaxFailures = 0
INVARIANT UsedAddressesWatched
CHECK_DEADLOCK FALSE
