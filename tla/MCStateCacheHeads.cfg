SPECIFICATION Spec
CONSTANTS
    Kinds = {"change"}
    Runners = {r1}
    MaxBlocks = 3
    ReorgDepth = 1
    MaxReturns = 0
    MaxSessions = 1
    MaxFailures = 0
    UseChanges = FALSE
    HeadRegress = TRUE
INVARIANT
    LogsReflected
