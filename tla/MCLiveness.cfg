CONSTANTS
    j1 = j1
    j2 = j2
    j3 = j3
    k1 = k1
    r1 = r1
    r2 = r2
    api1 = api1
    sse1 = sse1
    f1 = f1
    q1 = q1
    None = None
    Heartbeat = Heartbeat
    NoFamily = NoFamily
    Jobs = {j1, j2, j3}
    MaxActive = 1
    MaxQueued = 1
    PriorityBurst = 1
    Roles = {1}
    Timed = {j1}
    Keys = {k1}
    Readers = {r1, r2}
    Tasks = {1, 2}
    TTL = 1
    Retry = 1
    RetryCap = 3
    Hints = {0}
    MaxEntries = 1
    StaleOnError = TRUE
    MaxTime = 1
    MaxEpoch = 1
    ApiConns = {api1}
    SseConns = {sse1}
    KeyFamilies = {f1}
    QuoteItems = {q1}
    SampleItems = {}
    MaxClients = 2
    MaxApi = 1
    MaxPerFamily = 1
    MaxVersion = 2
SPECIFICATION Spec
PROPERTIES
    EveryReaderAnswered
    EveryGetReturns
    StuckPanelsGo
    StreamsEndWithKey
CHECK_DEADLOCK FALSE
