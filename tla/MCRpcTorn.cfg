SPECIFICATION LiveSpec
CONSTANTS
    c1 = c1
    c2 = c2
    NoCall = NoCall
    Calls = {c1, c2}
    Scenarios <- TornScenarios
    EventBuffer = 1
    MaxAttempts = 1
    MaxEpochs = 2
    MaxFlights = 1
    MaxEvents = 0
    MaxFaults = 1
PROPERTIES
    NoFrameAfterTorn
CHECK_DEADLOCK FALSE
