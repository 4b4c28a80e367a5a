\* Local dispatcher: a worker that outlives its lease goes on writing.
SPECIFICATION Spec
CONSTANTS
    w1 = w1
    w2 = w2
    Emails = {e1}
    MaxJobs = 1
    Workers = {w1}
    Clients = {c1}
    Sweepers = {s1}
    Severities = {LOW, HIGH}
    AlertSeverities = {HIGH}
    TimeLimited = FALSE
PROPERTIES FailedIsFinal
