SPECIFICATION FairSpec
CONSTANTS
    o1 = o1  o2 = o2
    Elements = 1
    PerElement = 2
    Units = 1
    AdjustBlocks = 1
    Sizes = {1}
    Owners = {o1, o2}
    DataOwners = {o2}
    Nowhere = Nowhere
    DedupEnable = TRUE
    FlushMayFail = TRUE
INVARIANTS DedupSafe
PROPERTIES  Reclaims
