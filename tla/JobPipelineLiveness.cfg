\* Local dispatcher, liveness: late workers and lost sweeps included.
SPECIFICATION FairSpec
CONSTANTS
    w1 = w1
    w2 = w2
    Emails = {e1}
    MaxJobs = 2
    Workers = {w1}
    Clients = {c1}
    Sweepers = {s1}
    Severities = {LOW, HIGH}
    AlertSeverities = {HIGH}
    TimeLimited = FALSE
PROPERTIES JobSettles
