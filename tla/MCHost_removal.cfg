SPECIFICATION HostSpec
CONSTANTS
    s1 = s1
    s2 = s2
    k1 = k1
    k2 = k2
    p1 = p1
    Sessions = {s1, s2}
    Keys = {k1, k2}
    Absent = Absent
    Ports = {p1}
    InCap = 1
    OutCap = 1
    PeerTimeout = 2
    MaxNode = 1
    MaxExpired = 0
INVARIANTS
    HostTypeOK
    NoGhostPeer
    LeaseScoped
    ListenerIffLeased
    NodeFanout
PROPERTY RemovalJustified
SYMMETRY MCSymmetry
CHECK_DEADLOCK FALSE
