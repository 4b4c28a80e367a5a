\* Local dispatcher: no task time limit, so a worker may outlive its lease.
SPECIFICATION Spec
CONSTANTS
    w1 = w1
    w2 = w2
    Emails = {e1}
    MaxJobs = 2
    Workers = {w1, w2}
    Clients = {c1}
    Sweepers = {s1}
    Severities = {LOW, HIGH}
    AlertSeverities = {HIGH}
    TimeLimited = FALSE
SYMMETRY Symmetry
INVARIANTS
    TypeOK
    ClaimExclusive
    HistoryTruthful
    AnalysisFromFullRun
    HighFindingAlerted
