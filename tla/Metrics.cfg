SPECIFICATION MCSpec
CONSTANTS
    Pods = {p1}
    Requests = {r1}
    Admins = {a1}
    GC = gc
    Unlimited = unlimited
    Lifetimes = {}
    Reported <- MCConditions
    MaxLifetime = 2
    StaleAge = 1
    MaxTime = 0
    MaxCrashes = 1
    NoTime = NoTime
    NoReq = NoReq
    NoPod = NoPod
    NoEntry = NoEntry
    Resetters = {x1, x2}
    MaxResets = 1
    Bounds <- MCBounds
    Values <- MCValues
    MaxCount = 4
SYMMETRY MCClients
INVARIANTS
    MetricsTypeOK
    OneClientIsSafe
    ExposedAtRest
    RecountNeedsReason
    QuantileInBucket
    PercentilesOrdered
CHECK_DEADLOCK FALSE
