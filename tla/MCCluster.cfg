SPECIFICATION ClusterSpec
CONSTANTS
    Nodes <- MCNodes
    Masters = {1}
    Keys = {1, 2}
    Tids = {1, 2}
    pfs_nmasters = 0
    Xops = {x1, x2}
    VOP = VOP
    NoXop = NoXop
    FifoSize = 2
    XopKinds <- MCXopKinds
    x1 = x1
    x2 = x2
    Answers <- MCAnswers
    Devices <- MCDevices
    Labels <- MCLabels
    ClusterIds = {"c1", "c2", "c3"}
    Formatted <- MCFormatted
    MaxCluster = 8
    MaxOpens = 3
    Collisions = 2
    Reuse = FALSE
    None = None
    NumInodes = 2
    NumBlocks = 2
    MaxTid = 4
    Concurrent = FALSE
    Absent = Absent
INVARIANTS CollectsQuorum XopSound MountSound 
PROPERTIES XopEnds 
CHECK_DEADLOCK FALSE
