SPECIFICATION MCSpec
CONSTANTS
    Pods = {p1}
    Requests = {}
    Admins = {}
    GC = gc
    Unlimited = unlimited
    Lifetimes = {}
    Reported <- MCConditions
    MaxLifetime = 2
    StaleAge = 1
    MaxTime = 0
    MaxCrashes = 0
    NoTime = NoTime
    NoReq = NoReq
    NoPod = NoPod
    NoEntry = NoEntry
    Resetters = {x1, x2}
    MaxResets = 1
    Bounds <- MCBounds
    Values <- MCValues
    MaxCount = 1
INVARIANTS
    RegisteredIsObserved
CHECK_DEADLOCK FALSE
