\* Celery: a task is killed before its lease ends; requests do not overlap.
SPECIFICATION FairSpec
CONSTANTS
    w1 = w1
    w2 = w2
    Emails = {e1}
    MaxJobs = 2
    Workers = {w1, w2}
    Clients = {c1}
    Sweepers = {s1}
    Severities = {LOW, HIGH}
    AlertSeverities = {HIGH}
    TimeLimited = TRUE
INVARIANTS
    OneActiveJob
    LatestCompletedConsistent
PROPERTIES
    ImplementsLifecycle
