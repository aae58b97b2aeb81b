CONSTANTS
    a = a
    b = b
    c = c
    d = d
    e = e
    f = f
    g = g
    h = h
    i = i
    NoOp = NoOp
    Ops = {a, b, c, d, e, f, g, h, i}
    Kind <- MCKind
SPECIFICATION MCSpec
INVARIANTS
    SessionIsCurrent
    OpenClientsAreOwned
    ReadySessionIsOpen
    SupersededIsCancelled
PROPERTIES
    ConnectingEnds
    ClosedManagerReleasesClients
CHECK_DEADLOCK FALSE
