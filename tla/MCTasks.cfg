CONSTANTS
    k1 = k1
    k2 = k2
    r1 = r1
    r2 = r2
    r3 = r3
    timed = timed
    None = None
    Keys = {k1, k2}
    Readers = {r1, r2, r3}
    Tasks = {1, 2, 3}
    TTL = 1
    Retry = 1
    RetryCap = 3
    Hints = {1}
    MaxEntries = 1
    StaleOnError = TRUE
    MaxTime = 1
    MaxEpoch = 1
    Jobs = {timed, r1, r2}
    MaxActive = 2
    MaxQueued = 1
    PriorityBurst = 1
    Roles = {0, 1, 2}
    Timed = {timed}
SPECIFICATION PartsSpec
SYMMETRY Symmetry
VIEW View
INVARIANTS
    QueueInv
    CacheInv
PROPERTIES
    FifoWithinRole
    ServiceSpec
    NothingAcrossClose
    NewestLoadWins
    GivenUpIsNoFailure
CHECK_DEADLOCK FALSE
