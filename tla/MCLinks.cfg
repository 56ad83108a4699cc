SPECIFICATION LinksSpec
CONSTANTS
    kconn = kconn
    sconn = sconn
    ping = ping
    k1 = k1
    s1 = s1
    u1 = u1
    KSpans = {k1}
    SSpans = {s1}
    SSubs = {u1}
    SubParent <- MCSubParent
    Foreign = {}
    a = a
    b = b
    c = c
    Routers <- MCRouters
    Home = a
    Peers <- MCPeers
    Port <- MCPort
    MaxDist = 2
    MaxFlaps = 1
    MaxCuts = 1
INVARIANTS LinkSound SpanSound
PROPERTIES UnmountEnds SpanConverges
CHECK_DEADLOCK FALSE
