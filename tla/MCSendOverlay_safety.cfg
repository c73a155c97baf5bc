SPECIFICATION SendSpec
CONSTANTS
    u1 = u1
    u2 = u2
    Calls = {u1, u2}
    InCap = 1
    OutCap = 1
    NoCall = NoCall
INVARIANTS
    SendTypeOK
    GoodbyeOnce
    AnswerIsOwn
CONSTRAINT MCQuietT
SYMMETRY MCSymmetry
CHECK_DEADLOCK FALSE
