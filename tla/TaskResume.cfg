SPECIFICATION Spec
CONSTANTS
    Messages <- SomeMessages
    NoEvent = NoEvent
    MaxSends = 3
    MaxAsks = 2
    MaxFaults = 1
    MaxCrashes = 0
INVARIANT ResumedWasPersisted
CHECK_DEADLOCK FALSE
