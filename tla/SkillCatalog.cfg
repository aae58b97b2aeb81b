CONSTANTS
    a = a
    b = b
    c = c
    d = d
    e = e
    one = one
    two = two
    None = None
    Ops = {a, b, c, d, e}
    Kind <- MCKind
    Of <- MCOf
    Catalogs = {one, two}
    Defs = {1, 2}
    Revisions = {"r1", "r2"}
    Offers <- MCOffers
    Endable = {b}
SPECIFICATION Spec
INVARIANTS
    LatestInvocationDecides
    RuntimeHoldsTheMerge
    SomebodyCanGoOn
PROPERTIES
    NothingAfterClose
CHECK_DEADLOCK FALSE
