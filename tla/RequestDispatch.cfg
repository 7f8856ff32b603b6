SPECIFICATION FairSpec
CONSTANTS
    i1 = i1
    i2 = i2
    h1 = h1
    h2 = h2
    Handlers = {h1, h2}
    Issuers = {i1, i2}
    None = None
    MaxFaults = 1
INVARIANTS
    TypeOK
    SameRegistrationNeverConfused
    EndedOnlyWhenReplaced
    LookupsSucceed
    FaultlessCallsSucceed
PROPERTIES
    ImplementsRequestReply
    ConnectedClientAnswers
    CallsReturn
CHECK_DEADLOCK FALSE
