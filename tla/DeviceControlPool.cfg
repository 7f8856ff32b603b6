SPECIFICATION FairSpec
CONSTANTS
    c1 = c1
    c2 = c2
    c3 = c3
    Default = Default
    Itself = Itself
    None = None
    DefaultOffered = TRUE
    Calls = {c1, c2, c3}
    Uses <- MCPoolUses
    PoolSize = 1
    MaxRegistrations = 2
PROPERTIES
    RequestsServed
CHECK_DEADLOCK FALSE
