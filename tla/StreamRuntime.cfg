CONSTANTS
    t1 = t1
    t2 = t2
    r1 = r1
    r2 = r2
    None = None
    Tabs = {t1, t2}
    Requests = {r1, r2}
    Chunks = {1, 2, 3, 4, 5}
    Output <- MCOutput
    Replies <- MCReplies
    Compact = 2
SPECIFICATION FairSpec
INVARIANTS
    Lossless
    NoLostPublication
PROPERTIES
    ChunksAreShown
    Streams
CHECK_DEADLOCK FALSE
