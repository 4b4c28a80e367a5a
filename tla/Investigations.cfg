SPECIFICATION ReportSpec
CONSTANTS
    Emails = {e1, e2}
    Cases = {c1}
    Scores = {3, 9}
    High = 7
    AlertThreshold = 5
    Workers = {w1}
    Rescorers = {r1}
    Analysts = {n1, n2}
    Sweepers = {s1}
    Crews = {{n1, s1, q1}, {w1, r1}, {w1, n1, n2}, {r1, n1, n2}, {w1, s1}, {r1, s1}}
    Requests = {q1}
    MaxRuns = 1
    Missing = Missing
SYMMETRY Symmetries
INVARIANTS TypeOK HeldSurvives  AnalysisCoherent ViewsAgree CompletedReportIsWhole ReportCoversRequest JobCompletesWithReport
PROPERTY AnalystStatusKept
CHECK_DEADLOCK FALSE
