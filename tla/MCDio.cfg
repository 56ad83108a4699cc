SPECIFICATION Spec
CONSTANTS
    t1 = t1  t2 = t2  b1 = b1  b2 = b2
    d1 = d1  d2 = d2  d3 = d3
    Threads = {t1, t2}
    Bufs = {b1, b2}
    Dios = {d1, d2, d3}
    NoThread = NoThread
    NoDio = NoDio
    NoBuf = NoBuf
    ActInit = 0
    ActMax = 2
    DioLimit = 0
    CleanSlack = 1
INVARIANTS TypeOK RefsAreHolders OneDioPerBuffer IofreeCounts HoldersHashed BuffersHold
PROPERTIES HashLockReleased
