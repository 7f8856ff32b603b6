SPECIFICATION FairSpec
CONSTANTS
    a1 = a1
    a2 = a2
    b1 = b1
    ma = ma
    mb = mb
    Samples <- MCTwoSamples
    Measurements <- MCMeasurements
    MsmtOf <- MCTwoMsmtOf
    ThreadStreams = {t1, t2}
    RequestStreams = {}
    None = None
    Intervals = {0, 5}
    MaxFaults = 2
    MaxDeletes = 1
PROPERTIES
    EventuallyUploaded
    UploadsEnd
