CONSTANTS
    NumInodes = 2
    NumBlocks = 2
    MaxTid = 4
    Concurrent = FALSE
    Absent = Absent
SPECIFICATION SyncSpec
INVARIANT RootAgrees
CHECK_DEADLOCK FALSE
