CONSTANTS
    admin1 = admin1
    admin2 = admin2
    e1 = e1
    e2 = e2
    n1 = n1
    n2 = n2
    n3 = n3
    f1 = f1
    f2 = f2
    api1 = api1
    api2 = api2
    sse1 = sse1
    q1 = q1
    s1 = s1
    s2 = s2
    t1 = t1
    t2 = t2
    t3 = t3
    caller1 = caller1
    caller2 = caller2
    NoKey = NoKey
    NoState = NoState
    Heartbeat = Heartbeat
    NoFamily = NoFamily
    NoTask = NoTask
    NoJob = NoJob
    NoBatch = NoBatch
    NoQuoteYet = NoQuoteYet
    NoRest = NoRest
    Parts = {"keys", "quota", "streams", "realtime", "snapshots", "polling", "subscriptions", "trades"}
    Admins = {admin1, admin2}
    EnvSecrets = {e1, e2}
    NewSecrets = {n1, n2, n3}
    Capacity = 2
    KeyTime = 1
    MaxStarts = 3
    QuotaKeys = {f1, f2}
    Costs = {1, 2}
    Limit = 3
    Window = 4
    Burst = 2
    Refill = 2
    MaxStates = 1
    QuotaTime = 7
    ApiConns = {api1, api2}
    SseConns = {sse1}
    KeyFamilies = {f1, f2}
    QuoteItems = {q1}
    SampleItems = {s1}
    MaxClients = 2
    MaxApi = 2
    MaxPerFamily = 1
    MaxVersion = 1000
    RtSymbols = {s1, s2}
    RtTasks = {t1, t2, t3}
    Refreshers = {caller1}
    MaxCached = 1
    MaxReads = 2
    Quotes = {1}
    MaxGeneration = 1
    SnSymbols = {s1}
    Prices = {1, 2}
    Cadence = 2
    EnrichLimit = 1
    MaxMembers = 1
    SnTime = 1000
    MaxEpochs = 1000
    PollSymbols = {s1, s2}
    PollCallers = {caller1, caller2}
    MaxPollEpochs = 1000
    AlSymbols = {s1, s2}
    MaxAlActive = 2
    ProviderLimit = 1
    HasRest = TRUE
    MaxConnections = 2
    MaxTrades = 2
    MaxInstant = 2
    MaxStops = 1
    MaxWaiting = 1
SPECIFICATION Spec
INVARIANTS
    RevokedIsFinal
    QuotaIsFair
    NothingLeaks
    NoChangeForgotten
    ShownIsConfirmed
    SharedBatchesMissNothing
    StreamingIsSubscribed
PROPERTIES
    LiveKeysKept
    ReadsSurviveRestart
    ShownPriceNeverGoesBack
    NoOlderTradeComesBack
VIEW View
CHECK_DEADLOCK FALSE
