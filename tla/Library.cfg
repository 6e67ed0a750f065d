SPECIFICATION LibrarySpec
CONSTANTS
    Updates = {u1, u2, u3, u4}
    MaxFailures = 1
    Callbacks = {f, g}
    Contexts = {c1, c2}
    NoContext = NoContext
    MaxListens = 3
    MaxIgnores = 2
    MaxDepth = 2
    MaxLabel = 4
    MaxRepeated = 3
    Values = {"old"}
    Pages <- MCPages
    Urls = {"u1", "u2"}
    Icons = {"favicon", "touch", "linked"}
    StandardIcons <- MCStandardIcons
    LinkedIcons <- MCLinkedIcons
    MaxLookups = 2
    ForgetsDuringUpdate = FALSE
INVARIANTS PublishReachesAll MergeTakesBothSides LinksAreFound ReadyIsComplete
PROPERTIES ProcessedInOrder LookupsGetReady
\* The page has been read, the merge is done.
CHECK_DEADLOCK FALSE
