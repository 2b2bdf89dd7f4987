SPECIFICATION Spec
CONSTANTS
    Left = left
    Right = right
    LeftArray = la
    RightArray = la
    Pool = pool
    Arrays = {la}
    FeeConfigs = {config}
    Positions = {left, right}
    Start = left
    Around <- AroundPosition
    MaxAttempts = 2
    ReaderBehind = FALSE
    StreamLag = 1
    MaxSlot = 2
    MaxRuns = 1
    MaxFailures = 0
INVARIANT QuotedFeeExact
CHECK_DEADLOCK FALSE
