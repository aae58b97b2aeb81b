CONSTANTS
    c1 = c1
    c2 = c2
    c3 = c3
    None = None
    TabIds = {1, 2, 3, 4}
    ConvIds = {c1, c2, c3}
    Stored = {c1, c2, c3}
    Scores = {1}
    ManualTitles = {}
    Editable = {}
    Outcomes = {"stopped"}
    MaxTabs = 3
    Talks = {c1}
    MaxMessages = 4
    MaxLoads = 2
    MaxRestarts = 0
    MaxSaves = 1
    EarlyStops = TRUE
    LateRenames = TRUE
    EarlyPicks = FALSE
    Refusals = TRUE
SPECIFICATION Spec
SYMMETRY MCSymmetry
INVARIANTS
    PageIsNormal
    OpenOnce
    LastPickWins
    NoIdleSpinner
CHECK_DEADLOCK FALSE
