CONSTANTS
    Records = {"own", "any", "empty", "bad"}
    Malformed = {"bad"}
    Size <- UnitSize
    Writers = {"w1", "w2"}
    Closers = {"c1"}
    SerialWrites = FALSE
    ConfigMaxRecords = 2
    ConfigMaxBytes = 0
    AwsMaxRecords = 4
    AwsMaxBytes = 100
    MaxRetries = 0
    PartitionKey <- MCPartitionKey
    NoKey = NoKey
    NumberKey = NumberKey
    RandomKey = RandomKey
SPECIFICATION Spec
INVARIANTS
    RequestsInOrder
    EmptyKeySinksItsBatch
PROPERTIES
    ImplementsBatchLogger
