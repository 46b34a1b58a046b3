SPECIFICATION Spec
CONSTANTS
    MaxCalls = 2
    MaxFaults = 1
    NULL = NULL
    MIXED = MIXED
    LOST = LOST
PROPERTY
    FailedSyncKeepsOsf
CHECK_DEADLOCK FALSE
