CONSTANTS
    c1 = c1
    c2 = c2
    c3 = c3
    i1 = i1
    i2 = i2
    NoCall = NoCall
    Calls = {c1, c2, c3}
    Ids = {i1, i2}
    IdOf <- MCIdOf
SPECIFICATION FairRegistrySpec
INVARIANTS
    RegistryIsExact
    OnlyAbortedCallsAreCancelled
PROPERTIES
    AbortReachesBackend
CHECK_DEADLOCK FALSE
