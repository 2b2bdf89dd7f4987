SPECIFICATION Spec
CONSTANTS
    Kinds = {"change"}
    Runners = {r1}
    MaxBlocks = 4
    ReorgDepth = 1
    MaxReturns = 1
    MaxSessions = 1
    MaxFailures = 0
    UseChanges = FALSE
    HeadRegress = FALSE
INVARIANTS
    TypeOK
    FloorRespected
    BlockCoherent
    LogsReflected
PROPERTY CacheFenced
CONSTRAINT ReturnsEarly
