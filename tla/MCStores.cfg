CONSTANTS
    p1 = p1
    p2 = p2
    s1 = s1
    s2 = s2
    NoFile = NoFile
    Processes = {p1, p2}
    Symbols = {s1, s2}
    MaxEntries = 1
    Age = 1
    Attempts = 2
    MaxTime = 2
    SsSymbols = {s1, s2}
    LastDay = 2
    DaysKept = 1
    MaxDays = 1
    MaxPoints = 3
    MaxCrashes = 1
SPECIFICATION PartsSpec
SYMMETRY Symmetry
VIEW View
CONSTRAINT Explored
INVARIANTS
    StoreInv
    CleanDaysAreOnDisk
    StopSavesEverything
PROPERTY NothingOnDiskIsLost
CHECK_DEADLOCK FALSE
