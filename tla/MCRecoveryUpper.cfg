SPECIFICATION Spec
CONSTANTS
    o1 = o1  o2 = o2
    Elements = 2
    PerElement = 2
    Units = 1
    AdjustBlocks = 1
    Sizes = {1}
    Owners = {o1}
    InUse = {}
    Nowhere = Nowhere
    MaxTid = 3
INVARIANTS CrashCovered
