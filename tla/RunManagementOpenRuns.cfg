SPECIFICATION Spec
CONSTANTS
    t1 = t1
    t2 = t2
    c1 = c1
    c2 = c2
    m1 = m1
    None = None
    Absent = Absent
    Threads = {t1, t2}
    Clients = {c1, c2}
    Msmts = {m1}
    OwnerOf <- MCOwnerOf
    MaxRuns = 2
    MaxDuts = 2
    MaxTime = 1
    MaxRequests = 2
INVARIANTS
    OpenRunsDisjoint
CHECK_DEADLOCK FALSE
