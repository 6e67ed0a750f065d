CONSTANTS
    Items = {1, 2}
    NewItem = 2
    Queries = {1}
    ItemUrl <- MCItemUrl
    Pages <- MCPages
    Tabs = {t1, t2}
    MaxDocs = 3
    MaxScripts = 2
    MaxFills = 2
    MaxCalls = 4
    WaitsForFills = TRUE
    MaxChanges = 2
    MaxActs = 4
    Unhurried = TRUE
    Urls = {"https://a.d/", "https://b.d/", "https://www.d"}
    Host <- MCHost
    Fallback <- MCFallback
    Sizes = {32, 64}
    IconSize = 48
    Controls = {c1, c2}
    MaxRenders = 2
    MaxRestarts = 1
SPECIFICATION PanelSpec
INVARIANTS CancelledEditsAreNotSaved FillsFitThePage
PROPERTIES SavedEditsSurvive FillsEnd IconsSettle
CHECK_DEADLOCK FALSE
