SPECIFICATION FairSpec
CONSTANTS
    Messages = 2
    PageSize = 1
    Pollers = {p1, p2}
    Users = {u1}
    MaxChanges = 1
    MaxFaults = 1
    Nobody = Nobody
INVARIANTS TypeOK  ImportsAreQueued
PROPERTIES Delivers EventuallyHandled
CHECK_DEADLOCK FALSE
