CONSTANTS
    Requests = {"q1", "q2"}
    Line <- DashedLine
    Absent = Absent
    SlowTime = 10
    Millisecond = 2
    NoRollup = NoRollup
    NoReport = NoReport
SPECIFICATION Spec
INVARIANTS
    OneRollupPerPair
