SPECIFICATION ReportSpec
CONSTANTS
    Emails = {e1, e2}
    Cases = {c1}
    Scores = {3, 9}
    High = 7
    AlertThreshold = 5
    Workers = {}
    Rescorers = {}
    Analysts = {n1}
    Sweepers = {s1}
    Crews = {{n1, s1}}
    Requests = {}
    MaxRuns = 1
    Missing = Missing
PROPERTY LinkedStaysAnalysed
CHECK_DEADLOCK FALSE
