SPECIFICATION Spec
CONSTANTS
    Streams = {sa, sb}
    Sources = {main}
    SourceNumbers = {1, 2}
    MaxNumber = 4
    Packets <- SomePackets
    ResetLow = 1
    ResetHigh = 2
    KeysKept = 2
    StoreSize = 3
    MaxMessages = 4
    MaxOpens = 2
    NULL = NULL
SYMMETRY StreamSymmetry
INVARIANT
    SoakRemembersLoss
CHECK_DEADLOCK FALSE
