CONSTANTS
    Plugins = {p1}
    Requests = {r1, r2}
    Kinds = {"http", "ws"}
    Threshold = 2
    ResetTimeout = 1
    MaxConc = 1
SPECIFICATION FairSpec
INVARIANTS
    TypeOK
    BulkheadExact
    BreakerExact
PROPERTIES
    Recovers
    SlotsComeBack
