SPECIFICATION FairWebAppSpec
CONSTANTS
    KeyIds = {k1, k2}
    MaxKeySyncs = 2
    MaxFailures = 1
    MaxFlows = 2
    MaxReloads = 1
    Patient = TRUE
    Accounts = {a1, a2}
    MaxSaves = 2
    MaxLocks = 1
    MaxLogins = 2
INVARIANTS
    AccountsStaySeparate
    NeverStranded
    SyncedKeysAreComplete
PROPERTIES
    ListCatchesUp
    FinishedSignInsListStores
    KeysArrive
CHECK_DEADLOCK FALSE
