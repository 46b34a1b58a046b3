SPECIFICATION Spec
CONSTANTS
    Sockets = {s1, s2, s3}
    MaxSubscribers = 2
    MaxSessions = 5
    MaxAttempts = 2
    NULL = NULL
INVARIANTS
    OneSession
    ShownAsItIs
PROPERTIES
    ImplementsConnection
    ReconnectsAtLast
CHECK_DEADLOCK FALSE
