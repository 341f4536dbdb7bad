SPECIFICATION Spec
CONSTANTS
    Scenarios <- SmallScenarios
    QueueSize = 1
    TransferCap = 3
    MaxTransfers = 2
    RecoveryLimit = 1
INVARIANTS InOrder NoGap Reclaimed
PROPERTY OverflowSettles
CHECK_DEADLOCK FALSE
