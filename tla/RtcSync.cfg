SPECIFICATION Spec
CONSTANTS
    MaxCalls = 3
    MaxFaults = 2
    NULL = NULL
    MIXED = MIXED
    LOST = LOST
INVARIANTS
    LastSyncedTimeStands
PROPERTIES
    ImplementsContract
    OsfClearedOnlyVerified
    EveryCallAnswered
CHECK_DEADLOCK FALSE
