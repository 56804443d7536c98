SPECIFICATION Spec
CONSTANTS
    Pods = {p1, p2}
    Requests = {r1}
    Admins = {a1}
    GC = gc
    Unlimited = unlimited
    Lifetimes <- MCPastLifetimes
    Reported <- MCReady
    MaxLifetime = 2
    StaleAge = 0
    MaxTime = 0
    MaxCrashes = 1
    NoTime = NoTime
    NoReq = NoReq
    NoPod = NoPod
    NoEntry = NoEntry
SYMMETRY Symmetry
INVARIANTS
    InductiveInvariant
PROPERTIES
    ImplementsLease
    PruneDropsOnlyDead
