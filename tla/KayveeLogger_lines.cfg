CONSTANTS
    Callers = {a, b, c}
    Keys = {"user", "Title"}
    Reserved = {"Title"}
    Configs = {1, 2}
    LevelOf <- MCLevelOf
    EnvLevel = ""
    LogLevels = {2, 4}
    OwnKeys = {"user"}
    MaxVersion = 1
    UnlockedSetters = FALSE
SPECIFICATION Spec
INVARIANTS
    TypeOK
    LineOfOneConfig
    ContextOfTheCall
    OneWriteAtATime
SYMMETRY Symmetry
