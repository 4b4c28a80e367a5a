\* Two overlapping requests for one email.
SPECIFICATION Spec
CONSTANTS
    w1 = w1
    w2 = w2
    Emails = {e1}
    MaxJobs = 2
    Workers = {w1, w2}
    Clients = {c1, c2}
    Sweepers = {s1}
    Severities = {LOW, HIGH}
    AlertSeverities = {HIGH}
    TimeLimited = TRUE
INVARIANTS OneActiveJob
