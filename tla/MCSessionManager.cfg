SPECIFICATION Spec
CONSTANTS
    Keys = {"a", "b"}
    Jobs = {1, 2, 3}
    Flights = {1, 2, 3, 4}
    Scenarios <- ManagerScenarios
    RetiredRouteLimit = 1
    RetryAttempts = 2
INVARIANTS NoOrphan SparesOwned SlotsAccounted DeletedStaysGone
PROPERTIES PermitSpec JobsEnd LossHeals
CHECK_DEADLOCK FALSE
