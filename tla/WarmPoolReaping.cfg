SPECIFICATION FairSpec
CONSTANTS
    Pods = {p1}
    Requests = {r1}
    Admins = {}
    GC = gc
    Unlimited = unlimited
    Lifetimes <- MCLifetimes
    Reported <- MCAnything
    MaxLifetime = 2
    StaleAge = 1
    MaxTime = 3
    MaxCrashes = 0
    NoTime = NoTime
    NoReq = NoReq
    NoPod = NoPod
    NoEntry = NoEntry
INVARIANTS
    DeletionsAreDue
    GcSparesPool
PROPERTIES
    ClaimsEnd
    GhostsVanish
