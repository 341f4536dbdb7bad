SPECIFICATION LiveSpec
CONSTANTS
    m1 = m1
    m2 = m2
    m3 = m3
    Chats = {c}
    Payloads = {m1, m2}
    NoItem = NoItem
    MaxRevision = 30
    Chat = c
    Texts = {"t1", "t2", "t3"}
    TextOf <- OwnText
    Anonymous = {m1}
    Faults <- FaultNames
    Limits <- QueueLimits
    MaxItems = 2
    MaxSends = 2
    MaxJobs = 2
INVARIANTS
    OneDeliveryAtATime
    AtMostOnce
    NothingVanishes
    Ordered
PROPERTIES
    QueueDrains
CHECK_DEADLOCK FALSE
