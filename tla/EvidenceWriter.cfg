SPECIFICATION Spec
CONSTANTS
    NULL = NULL
    TORN = TORN
    QueueSize = 2
    RotateAt = 2
    MaxPackets = 3
    MaxFaults = 2
INVARIANTS
    PassMeansComplete
    CleanStopVerifies
    ReadyMeansVerifiable
    FinalizedManifestIsLast
    NoSilentLoss
PROPERTIES
    StopTerminates
    ImplementsLog
