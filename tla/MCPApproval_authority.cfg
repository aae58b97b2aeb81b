CONSTANTS
    e1 = e1
    i1 = i1
    i2 = i2
    i3 = i3
    m1 = m1
    m2 = m2
    old = old
    new = new
    off = off
    None = None
    Evals = {e1}
    Invokes = {i1, i2, i3}
    Managers = {m1, m2}
    Tools = {old, new, off}
    Policies = {"lax", "strict"}
    Callers = {"model"}
    Args = {"x", "y"}
    Req <- MCReq
    Verdict <- MCVerdict
    AllowStale = {"lax"}
    Usable = {old, new}
SPECIFICATION Spec
INVARIANTS
    AuthorityIsExact
    TokenUsedOnce
SYMMETRY MCSymmetry
CHECK_DEADLOCK FALSE
