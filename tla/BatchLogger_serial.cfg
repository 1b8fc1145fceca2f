CONSTANTS
    r1 = r1
    r2 = r2
    r3 = r3
    r4 = r4
    bad = bad
    w1 = w1
    w2 = w2
    c1 = c1
    Records = {r1, r2, r4}
    Malformed = {}
    Size <- MixedSize
    Writers = {w1}
    Closers = {c1}
    SerialWrites = TRUE
    ConfigMaxRecords = 2
    ConfigMaxBytes = 3
    AwsMaxRecords = 4
    AwsMaxBytes = 100
    MaxRetries = 0
SPECIFICATION FairSpec
INVARIANTS
    RequestWithinRecordLimit
    RequestOverByOneLine
PROPERTIES
    EveryRecordSettles
    CloseReturns
