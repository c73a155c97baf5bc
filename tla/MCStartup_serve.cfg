SPECIFICATION StartupSpec
CONSTANTS
    p1 = p1
    p2 = p2
    Starters = {p1, p2}
    Runs = {p1, p2}
    Old = Old
    None = None
    MaxRelease = 2
    Period = 1
    MaxTime = 2
INVARIANTS
    PersistTypeOK
    OneIdentity
    KeySurvives
    NeverHalf
    UpdateTypeOK
    ExecutableWhole
PROPERTIES
    StoreAtomically
    NoRestartLoop
SYMMETRY MCSymmetry
CHECK_DEADLOCK FALSE
