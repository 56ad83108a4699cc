SPECIFICATION VnodesSpec
CONSTANTS
    Procs = {p1}
    p1 = p1
    p2 = p2
    Syncer = Syncer
    NoOne = NoOne
    Root = 1
    Inums = {1, 2, 3, 4}
    Names = {"a", "b"}
    dirhash <- MCHash
    LoMask = 3
    Image <- MCImage
    MaxCalls = 2
    OpsOf <- MCOps
    Files = {f1, f2}
    f1 = f1
    f2 = f2
    SizeMax <- MCSizeMax
    CheckNone = {}
    BlockSize = 2
    Embedded = 1
    Offs = {1, 2, 3}
    Values = {1}
    Writes <- MCWrites
    Sizes <- MCSizes
INVARIANTS EntriesHaveInodes  SyncSound 
CHECK_DEADLOCK FALSE
