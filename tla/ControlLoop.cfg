SPECIFICATION FairLoopSpec
CONSTANTS
    Handlers = {h1, h2}
    Setters = {c1, c2}
    Sizes <- MCSizes
    DefaultSize = 2
    NoSize = NoSize
    KickCap = 1
    MaxRestarts = 1
INVARIANTS
    LoopTypeOK
    NoLostKick
PROPERTIES
    ChangesAreSeen
    AnswersGiven
    PoolSizeSettles
