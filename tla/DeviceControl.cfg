SPECIFICATION Spec
CONSTANTS
    c1 = c1
    c2 = c2
    c3 = c3
    Default = Default
    Itself = Itself
    None = None
    DefaultOffered = TRUE
    Calls = {c1, c2}
    Uses <- MCUses
    PoolSize = 2
    MaxRegistrations = 2
INVARIANTS
    TypeOK
    WholeSettings
    StopsOutlastStarts
PROPERTIES
    StartsUseOwnSettings
CHECK_DEADLOCK FALSE
