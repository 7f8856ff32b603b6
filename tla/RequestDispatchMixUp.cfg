SPECIFICATION Spec
CONSTANTS
    i1 = i1
    i2 = i2
    h1 = h1
    h2 = h2
    Handlers = {h1, h2}
    Issuers = {i1, i2}
    None = None
    MaxFaults = 1
SYMMETRY MCSymmetry
INVARIANT OwnResponse
CHECK_DEADLOCK FALSE
