SPECIFICATION Spec
CONSTANTS
    NULL = NULL
    Step = 15
    Settle = 1
    Target = 2
    ReadbackTolerance = 1
    Tolerance = 1
    RetentionTolerance = 2
    MaxEvents = 2
    MaxTime = 4
    MaxEpoch = 3
    MaxOffset = 1
    MaxLate = 2
PROPERTY EveryAttemptIsSeen
