SPECIFICATION Spec
CONSTANTS
    o1 = o1  o2 = o2
    Elements = 2
    PerElement = 2
    Units = 1
    AdjustBlocks = 1
    Sizes = {1}
    Owners = {o1, o2}
    InUse = {1,3}
    Nowhere = Nowhere
    MaxTid = 3
SYMMETRY MCSymmetry
INVARIANTS CrashCovered SpaceRecovered
PROPERTIES NeverOverwrites HeaderTidGrows
