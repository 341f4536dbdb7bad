SPECIFICATION ClientsSpec
CONSTANTS
    Chats = {c1}
    Payloads = {p}
    NoItem = NoItem
    MaxRevision = 4
    MaxAppends = 3
    MaxFaults = 2
INVARIANTS
    AcknowledgedItemsSurvive
    ItemHeldOnce
    RevisionNamesContent
PROPERTY DispatchIsSticky
CHECK_DEADLOCK FALSE
