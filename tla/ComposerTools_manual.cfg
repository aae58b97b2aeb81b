SPECIFICATION Spec
CONSTANTS
    c1 = c1
    c2 = c2
    Calls = {c1, c2}
    Automatic = {c1}
    Dialogs = {c2}
    MaxRuns <- MCMaxRuns
    Reopens = FALSE
PROPERTIES
    ManualCallsAreConfirmed
