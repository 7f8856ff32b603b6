SPECIFICATION FairSpec
CONSTANTS
    r1 = r1
    r2 = r2
    r3 = r3
    r4 = r4
    d1 = d1
    d2 = d2
    m1 = m1
    m2 = m2
    None = None
    Rpcs = {r1, r2, r3, r4}
    Devices = {d1, d2}
    Managers = {m1, m2}
    Uses <- MCUses
    Workers = 3
INVARIANTS
    TypeOK
    WritesStored
PROPERTIES
    ListenersHear
    ListenersEnd
CHECK_DEADLOCK FALSE
