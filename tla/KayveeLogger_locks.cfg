CONSTANTS
    Callers = {a, b, c}
    Keys = {}
    Reserved = {}
    Configs = {2}
    LevelOf <- MCLevelOf
    EnvLevel = ""
    LogLevels = {4}
    OwnKeys = {}
    MaxVersion = 1
    UnlockedSetters = TRUE
SPECIFICATION FairSpec
PROPERTIES
    WritersGetTheLock
    LinesAreWritten
