SPECIFICATION Spec
CONSTANTS
    Pods = {p1}
    Requests = {r1}
    Admins = {}
    GC = gc
    Unlimited = unlimited
    Lifetimes <- MCShortLifetimes
    Reported <- MCReady
    MaxLifetime = 2
    StaleAge = 1
    MaxTime = 1
    MaxCrashes = 0
    NoTime = NoTime
    NoReq = NoReq
    NoPod = NoPod
    NoEntry = NoEntry
INVARIANTS
    ClaimsAreReapable
