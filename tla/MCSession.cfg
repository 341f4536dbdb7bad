SPECIFICATION Spec
CONSTANTS
    Scenarios <- SessionScenarios
    MaxCompleted = 2
    Requests = {"a", "b", "c", "x"}
    Anonymous = {"x"}
    LedgerCapacity = 2
    DetachedLimit = 2
INVARIANTS LatchesAgree CompactionEndsItself SentOnce NoLimbo QuestionsAgree
PROPERTIES NoWorkEvicted ClosingEnds
CHECK_DEADLOCK FALSE
