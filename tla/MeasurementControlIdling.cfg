SPECIFICATION FairSpec
CONSTANTS
    s1 = s1
    s2 = s2
    p1 = p1
    p2 = p2
    FirstStart = FirstStart
    SecondStart = SecondStart
    None = None
    Starts = {s1, s2}
    Stops = {p1, p2}
    UploadMinutesOf <- MCFirstNever
    MaxFailures = 0
CONSTRAINT MCSequential
PROPERTY UploadsGoOn
CHECK_DEADLOCK FALSE
