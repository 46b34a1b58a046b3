SPECIFICATION MCSpec
CONSTANTS
    LinkWarning = 1
    NodeDegraded = 2
    RailDegraded = 2
    LinkFail = 2
    NodeOffline = 3
    RailOffline = 4
    ChipDegraded = 4
    ChipOffline = 6
    StaleAfter = 1
    GapLimit = 1
    MaxAge = 8
    MaxEvents = 8
    MaxPackets = 2
    MaxTicks = 2
    MaxIncidents = 1
    Packets <- MCPackets
    Skews <- MCSkews
    Incidents = {"gaps", "resets", "duplicates"}
    Late = {1, 4}
    NULL = NULL
PROPERTY JudgedAlike
CHECK_DEADLOCK FALSE
