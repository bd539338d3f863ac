SPECIFICATION Spec
CONSTANTS
    Prompts = {p1}
    SendCapacity = 2
    Capacity = 1
    PongWait = 3
    PingPeriod = 2
    MaxEvents = 1
    MaxInbox = 2
INVARIANTS TypeOK ClosedAfterPrompts
PROPERTIES OnlyLongWorkTimesOut PumpsEnd
