CONSTANTS
    s1 = s1
    s2 = s2
    o1 = o1
    c1 = c1
    r1 = r1
    r2 = r2
    j1 = j1
    j2 = j2
    Current = Current
    None = None
    Timer = Timer
    Stopper = Stopper
    NoWindow = NoWindow
    NoJobYet = NoJobYet
    Parts = {"prewarm"}
    Askers = {c1, Timer, Stopper}
    Symbols = {s1, s2}
    Owners = {o1}
    Clients = {c1}
    Lists = {{s1}, {s2}}
    MaxMembers = 1
    MaxWorkers = 1
    Troubles = {"unreadable"}
    MaxStarts = 2
    HsReaders = {r1, r2}
    HsJobs = {j1, j2}
    MaxActive = 2
    Today = 3
    Cursor = 2
    MaxSourceReads = 2
    MaxLives = 1
SPECIFICATION PartsSpec
SYMMETRY Symmetry
VIEW View
INVARIANT SavedListKept
CHECK_DEADLOCK FALSE
