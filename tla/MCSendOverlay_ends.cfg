SPECIFICATION SendFairSpec
CONSTANTS
    u1 = u1
    u2 = u2
    Calls = {u1}
    InCap = 1
    OutCap = 1
    NoCall = NoCall
PROPERTIES
    CallsReturn
    CloseEndsListener
CHECK_DEADLOCK FALSE
