SPECIFICATION Spec
CONSTANTS
    Queries = {q1}
    Keys = {k1, k2}
    NoKey = NoKey
    Lookups = {l1, l2}
    Lifetime = 2
    ErrorLifetime = 1
    LongestWait = 2
    MaxTime = 2
    None = None
SYMMETRY Symmetries
INVARIANTS TypeOK AnsweredForItsKey
PROPERTIES  ReportsNoOldLimit
CHECK_DEADLOCK FALSE
