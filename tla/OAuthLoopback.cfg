CONSTANTS
    f1 = f1
    f2 = f2
    f3 = f3
    s1 = s1
    s2 = s2
    t1 = t1
    t2 = t2
    NoFetch = NoFetch
    Fetches = {f1, f2, f3}
    Servers = {s1, s2}
    States = {t1, t2}
    ServerOf <- MCServerOf
    StateOf <- MCStateOf
SPECIFICATION FairSpec
INVARIANTS
    PendingMapsAgree
    WaiterIsServed
PROPERTIES
    FetchReturns
    ClosedBrokerDrains
CHECK_DEADLOCK FALSE
