SPECIFICATION FairSpec
CONSTANTS
    Cores = 1
    MaxCrashes = 1
    Conns = {k1, k2}
    NoConn = NoConn
    ErrCap = 1
    MaxFaults = 1
INVARIANTS
    SessionTypeOK
    WorkOnlyWhenClaimed
    OneConnection
    ReaderNeverBlocks
    ShownIsHeld
    ActiveCounts
    OnePhaseOnceCancelled
PROPERTIES
    StopsPromptly
    ClaimStartsWork
    SessionRecovers
    NothingIsLeft
CHECK_DEADLOCK FALSE
