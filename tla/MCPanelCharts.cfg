CONSTANTS
    j1 = j1
    j2 = j2
    j3 = j3
    Jobs = {j1, j2, j3}
    MaxActive = 1
    MaxQueued = 1
    PriorityBurst = 4
    Roles = {1}
    Timed = {j1}
    Gap = 2
    Hints = {0, 3}
    LimitBase = 1
    LimitCap = 3
    ServerBase = 1
    ServerCap = 2
    ForbiddenPause = 3
    HasPolicy = TRUE
    MaxTime = 4
    Parts = {"charts"}
    MaxAt = 2
    MaxVer = 2
    MaxFrames = 1
    Nothing = Nothing
    MaxRevision = 3
    MaxPending = 8
    MaxOnWire = 2
    NoSamples = NoSamples
SPECIFICATION PartsSpec
VIEW View
INVARIANT SameMeansAgree
CHECK_DEADLOCK FALSE
