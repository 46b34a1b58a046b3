SPECIFICATION FirmwareSpec
CONSTANTS
    MaxFrame = 3
    MaxPerLoop = 5
    CacheSize = 2
    Ids = {a, b, c}
    MaxText = 6
    MaxSessions = 5
    NULL = NULL
    Wrap = 53
    HeartbeatInterval = 9
    HealthInterval = 13
    SyncInterval = 19
    Spacing = 2
    MaxLag = 2
    MaxLineLength = 8
    LineBufferSize = 11
    Sizes = {4, 9, 10}
    MaxPackets = 3
    MaxFaults = 1
INVARIANTS
    TypeOK
    LineIsText
    NoRepeatWithinCache
    NeverTooLate
    FaultsCostTwo
    NumbersAccounted
PROPERTIES
    OverlongNotOverwritten
    OverlongReported
    NeverTooSoon
CHECK_DEADLOCK FALSE
