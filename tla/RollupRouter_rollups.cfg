CONSTANTS
    Requests = {"q1", "q2", "q3", "slow"}
    Line <- PlainLine
    Absent = Absent
    SlowTime = 10
    Millisecond = 2
    NoRollup = NoRollup
    NoReport = NoReport
SPECIFICATION FairSpec
INVARIANTS
    TypeOK
    LineInOnePlace
    HeldLinesAreScheduled
    OneRollupPerKey
    ReportAddsUp
PROPERTIES
    RolledLinesAreReported
    SchedulesEnd
