SPECIFICATION FairSpec
CONSTANTS
    m1 = m1
    m2 = m2
    r1 = r1
    r2 = r2
    None = None
    Msmts = {m1, m2}
    RunIds = {r1, r2}
    RunOf <- MCRunOf
    OpenRuns = {r1}
    MaxTime = 1
    BinWidths = {1, 2}
    DefaultBin = 2
    MaxInputs = 4
    MaxChanges = 1
INVARIANTS
    TypeOK
    ShownIsChosen
    SumOfParts
PROPERTY ClicksAnswered
CHECK_DEADLOCK FALSE
