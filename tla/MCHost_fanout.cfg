SPECIFICATION HostFairSpec
CONSTANTS
    s1 = s1
    s2 = s2
    k1 = k1
    k2 = k2
    p1 = p1
    Sessions = {s1}
    Keys = {k1}
    Absent = Absent
    Ports = {}
    InCap = 1
    OutCap = 2
    PeerTimeout = 2
    MaxNode = 2
    MaxExpired = 0
PROPERTIES
    NodeReachesEverySession
CHECK_DEADLOCK FALSE
