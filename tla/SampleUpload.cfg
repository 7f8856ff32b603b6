SPECIFICATION Spec
CONSTANTS
    a1 = a1
    a2 = a2
    b1 = b1
    ma = ma
    mb = mb
    Samples <- MCTwoSamples
    Measurements <- MCMeasurements
    MsmtOf <- MCTwoMsmtOf
    ThreadStreams = {t1}
    RequestStreams = {r1}
    None = None
    Intervals = {0}
    MaxFaults = 1
    MaxDeletes = 1
INVARIANTS
    TypeOK
    UploadedIsKept
    OneRowPerSample
    RowsOfTheirMeasurement
PROPERTY ImplementsTransfer
