SPECIFICATION FairCommandLineSpec
CONSTANTS
    Items = {i1, i2}
    MaxSaves = 3
    MaxForeign = 1
    MaxFaults = 1
    KeyIds = {k1, k2}
    Timeouts = {0, 2, 3, 4}
    MaxIdle = 6
    SetOnlyIdle = TRUE
    Commands = {c1, c2}
    KeyTimeout = 2
    StartsOverlap = FALSE
INVARIANTS
    ResolvedSavesAreStored
    LockedWhenDue
    UnusedKeysAreForgotten
PROPERTIES
    ForeignUpdatesSurvive
    VaultSavesAreAnswered
    CommandsEnd
CHECK_DEADLOCK FALSE
