CONSTANTS
    Requests = {r1}
    Plugins = {p1, p2}
    Grace = 2
SPECIFICATION FairSpec
INVARIANTS
    TypeOK
    CutOnlyAfterGrace
    NoFalseAlarm
PROPERTIES
    Exits
    FailureReported
