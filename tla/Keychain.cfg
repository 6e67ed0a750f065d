\* Two apps and another client write one item; three commands write the keys.
SPECIFICATION KeychainSpec
CONSTANTS
    NoText = NoText
    MCUser = MCUser
    MCUrl = MCUrl
    Texts = {NoText, MCUser, MCUrl}
    Folders = {NoText}
    Apps = {o1, o2}
    Contents <- MCContents
    ForeignContents <- MCForeignContents
    TicksPerSecond = 2
    TimestampLimit = 128
    MaxClock = 3
    MaxRevisions = 3
    Commands = {c1, c2, c3}
    NoCommand = NoCommand
    Passwords = {p1, p2}
    NoPassword = NoPassword
    Depth = 3
    MaxFaults = 1
    ChangesOverlap = FALSE
INVARIANTS OneMasterKey CommandsAreTrue
PROPERTIES RewritesKeepContent SavesAreReadBack StoredTimesAdvance
SYMMETRY Symmetry
\* The commands have ended.
CHECK_DEADLOCK FALSE
