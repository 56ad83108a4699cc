SPECIFICATION TreeSpec
CONSTANTS
    Keys = {0, 1, 4, 5, 6}
    KeyBits = 3
    RootCount = 3
    IndCount = 4
    Images <- ChainImages
    MaxCalls = 2
    MaxFlushes = 1
    Places = 4
    TableRefs <- MCTableRefs
    t1 = t1
    t2 = t2
    t3 = t3
    Threads = {t1, t2, t3}
    None = None
    MaxLocks = 4
INVARIANTS FlushKeepsAll ChainSound TableSound LockSound
PROPERTY ImplementsKeyMap
CHECK_DEADLOCK FALSE
