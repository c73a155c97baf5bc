SPECIFICATION HostSpec
CONSTANTS
    s1 = s1
    s2 = s2
    k1 = k1
    k2 = k2
    p1 = p1
    Sessions = {s1}
    Keys = {k1}
    Absent = Absent
    Ports = {}
    InCap = 1
    OutCap = 1
    PeerTimeout = 1
    MaxNode = 3
    MaxExpired = 1
CHECK_DEADLOCK FALSE
INVARIANT NodeNeverLost
PROPERTY CircularWaitIsForever
