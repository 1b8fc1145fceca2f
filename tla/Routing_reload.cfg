CONSTANTS
    Env <- MCEnv
    Callers = {"a", "b"}
    Lines <- MCLines
    Files = {"two", "one", "unset", "empty", "seven", "gone"}
    Rules <- MCRules
    Unreadable = {"gone"}
    MaxLoads = 2
    MaxLines = 2
    NilRules = NilRules
SPECIFICATION Spec
INVARIANTS
    ParsedRulesDoNotPanic
    OwnRouterWins
    LoadedIsComplete
    CountsAddUp
