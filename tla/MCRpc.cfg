SPECIFICATION LiveSpec
CONSTANTS
    c1 = c1
    c2 = c2
    NoCall = NoCall
    Calls = {c1, c2}
    Scenarios <- RpcScenarios
    EventBuffer = 1
    MaxAttempts = 2
    MaxEpochs = 3
    MaxFlights = 2
    MaxEvents = 1
    MaxFaults = 1
INVARIANTS
    SettledOnce
    NegotiatedBeforeUse
    FencedFlightIsSilent
PROPERTIES
    Settles
    CloseEnds
CHECK_DEADLOCK FALSE
