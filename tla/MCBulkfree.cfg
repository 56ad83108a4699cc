SPECIFICATION Spec
CONSTANTS
    o1 = o1  o2 = o2
    Elements = 3
    PerElement = 1
    Units = 2
    AdjustBlocks = 1
    Sizes = {1, 2}
    Owners = {o1, o2}
    DataOwners = {}
    Nowhere = Nowhere
    DedupEnable = FALSE
    FlushMayFail = FALSE
SYMMETRY MCSymmetry
INVARIANTS ReferencedNotFree IteratorSane SpaceAccounted
PROPERTIES NeverOverwrites
