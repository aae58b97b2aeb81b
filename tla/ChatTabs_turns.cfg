CONSTANTS
    None = None
    TabIds = {1, 2, 3}
    ConvIds = {1}
    Stored = {}
    Scores = {1, 2}
    ManualTitles = {9}
    Editable = {3}
    Outcomes = {"calls"}
    MaxTabs = 2
    Talks = {1}
    MaxMessages = 4
    MaxLoads = 1
    MaxRestarts = 1
    MaxSaves = 1
    EarlyStops = FALSE
    LateRenames = FALSE
    EarlyPicks = FALSE
    Refusals = TRUE
SPECIFICATION Spec
INVARIANTS
    SavedAtRest
PROPERTIES
    TitleLockHolds
CHECK_DEADLOCK FALSE
