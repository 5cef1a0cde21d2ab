SPECIFICATION Spec
CONSTANTS
    Policy <- MCPolicy
    MaxDuration = 7
    Errors <- MCErrors
    DiscardReasons = {"resync"}
    EventBufferSize = 1
    MaxEvents = 5
    MaxRequests = 1
    MaxAttempts = 5
INVARIANTS
    OneCutForARequest
    EventsAreCounted
    ReportsAreTrue
PROPERTIES
    ReopensInPolicy
    BrokerNotPressed
CHECK_DEADLOCK FALSE
