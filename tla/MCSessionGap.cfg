SPECIFICATION Spec
CONSTANTS
    Scenarios <- GapScenarios
    MaxCompleted = 2
    Requests = {"a", "b", "c", "x"}
    Anonymous = {"x"}
    LedgerCapacity = 2
    DetachedLimit = 2
INVARIANT GapClosed
CHECK_DEADLOCK FALSE
