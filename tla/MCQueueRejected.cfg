SPECIFICATION Spec
CONSTANTS
    m1 = m1
    m2 = m2
    m3 = m3
    Chats = {c}
    Payloads = {m1, m2, m3}
    NoItem = NoItem
    MaxRevision = 30
    Chat = c
    Texts = {"t1", "t2", "t3"}
    TextOf <- OwnText
    Anonymous = {}
    Faults <- FaultNames
    Limits <- RejectLimits
    MaxItems = 2
    MaxSends = 3
    MaxJobs = 2
INVARIANTS
    GuardOwned
CHECK_DEADLOCK FALSE
