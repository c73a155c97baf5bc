SPECIFICATION ForwardFairSpec
CONSTANTS
    Upgrades = {u1, u2, u3}
    Owner = owner
    Watcher = watcher
    Closers = {owner, watcher}
    None = None
    MaxPort = 3
    MaxForwards = 2
INVARIANTS
    ForwardTypeOK
    ForwardsAsAsked
    OrderlyEnd
    OneControlConnection
    CloseReachesConnection
PROPERTIES
    SignalEnds
    ClosedServerLetsGo
