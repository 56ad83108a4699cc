SPECIFICATION ThrottleSpec
CONSTANTS
    p1 = p1
    p2 = p2
    f1 = f1
    f2 = f2
    w1 = w1
    w2 = w2
    Pfss = {p1}
    Syncer = Syncer
    Files = {f1, f2}
    PfsOf <- MCPfsOf
    Writers = {w1, w2}
    FileOf <- MCFileOf
    NoOne = NoOne
    LimitChains = 1
    HiDirty = 1
    GiveUps = FALSE
    MaxWrites = 3
INVARIANT ThrottleSound
PROPERTIES SyncEnds WritersResume
CHECK_DEADLOCK FALSE
