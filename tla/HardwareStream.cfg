SPECIFICATION Spec
CONSTANTS
    Clients = {a, b}
    QueueSize = 2
    MaxSeq = 5
    MaxFailures = 1
    NULL = NULL
INVARIANTS
    EvidenceIsTheStream
    SlowClientsLoseTheirOwn
    ConnectedMeansReadable
PROPERTY
    HealthKeepsComing
CHECK_DEADLOCK FALSE
