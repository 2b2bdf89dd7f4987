SPECIFICATION FairSpec
CONSTANTS
    Kinds = {"change"}
    Runners = {r1, r2}
    MaxBlocks = 2
    ReorgDepth = 1
    MaxReturns = 1
    MaxSessions = 2
    MaxFailures = 1
    UseChanges = TRUE
    HeadRegress = FALSE
INVARIANTS
    OneSession
    NoLostChange
PROPERTY
    QuotesServed
