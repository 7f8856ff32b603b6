SPECIFICATION FairSpec
CONSTANTS
    s1 = s1
    s2 = s2
    p1 = p1
    p2 = p2
    FirstStart = FirstStart
    SecondStart = SecondStart
    None = None
    Starts = {s1}
    Stops = {p1}
    UploadMinutesOf <- MCFirstNever
    MaxFailures = 1
INVARIANTS
    TypeOK
    OwnSettings
    StartedHasRows
    StoppedIsQuiet
PROPERTIES
    StopReturns
    RecordingResumes
CHECK_DEADLOCK FALSE
