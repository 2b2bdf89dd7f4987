CONSTANTS
    MaxTx = 4
    MaxTop = 1
    Words <- MCWords
    Ticks <- MCTicks
    WordSize = 2
    TxLimit <- MCTxLimit
    ReplayLimit = 1
    MaxFailures = 1
SPECIFICATION FairSpec
INVARIANTS RetainedTypeOK Coherent ConfirmedCurrent RecoveryIncludes
PROPERTY SettlesRun
CHECK_DEADLOCK FALSE
