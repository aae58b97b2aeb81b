CONSTANTS
    None = None
    TabIds = {1, 2, 3}
    ConvIds = {1}
    Stored = {}
    Scores = {1, 2}
    ManualTitles = {}
    Editable = {}
    Outcomes = {"answer", "stopped"}
    MaxTabs = 2
    Talks = {1}
    MaxMessages = 6
    MaxLoads = 0
    MaxRestarts = 0
    MaxSaves = 1
    EarlyStops = TRUE
    LateRenames = FALSE
    EarlyPicks = FALSE
    Refusals = FALSE
SPECIFICATION Spec
INVARIANTS
    AnswerIsSaved
CHECK_DEADLOCK FALSE
