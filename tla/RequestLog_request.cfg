CONSTANTS
    Env <- MCEnv
    LowerCase <- MCLowerCase
    NotJSON = NotJSON
    Source = "app"
    Codes = {103, 404, 500}
    Sizes = {0, 5}
    MaxLength = 5
    Durations = {3, 10}
    SlowTime = 10
    Millisecond = 2
    Request <- MCRequest
    CustomFields <- MCCustomFields
    ContextCalls <- MCContextCalls
    OwnMaps <- MCOwnMaps
    KeptMap <- MCKeptMap
    LogLevels = {0, 2}
    GaugeValues <- MCGaugeValues
    Configs <- MCConfigs
    EnvLevel = ""
    MaxCalls = 3
SPECIFICATION Spec
INVARIANTS
    TypeOK
    LineValidates
    ReservedFieldsWin
    SentStatusIsLogged
    RequestReportedOnce
    LineOfItsCall
