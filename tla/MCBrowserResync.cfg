SPECIFICATION Spec
CONSTANTS
    Scenarios <- ResyncScenarios
    QueueSize = 1
    TransferCap = 3
    MaxTransfers = 2
    RecoveryLimit = 1
INVARIANT ResyncRetainsStream
CHECK_DEADLOCK FALSE
