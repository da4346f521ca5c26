CONSTANTS
    s1 = s1
    s2 = s2
    c1 = c1
    c2 = c2
    Symbols = {s1, s2}
    Clients = {c1, c2}
    Asked = {s1}
    Asking = {c1}
    MaxSymbols = 1
    Lease = 1
    Jobs = {1, 2}
    Times = {1, 2}
    Kinds = {"price", "invalidated", "error", "nothing"}
    Refreshed = {s1}
    MaxTime = 2
    MaxEpoch = 1
SPECIFICATION PartsSpec
VIEW View
INVARIANT EngineInv
PROPERTIES ReadPricesGoForward RefreshIsFresh
CHECK_DEADLOCK FALSE
