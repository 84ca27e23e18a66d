SPECIFICATION FairSpec
CONSTANTS
    u1 = u1
    u2 = u2
    c1 = c1
    Users = {u1, u2}
    Callers = {c1}
    BadUsers = {}
    History <- TwoVersions
    Failing = {"cut"}
    MaxFaults = 1
PROPERTIES FailedApplyIsResent
CHECK_DEADLOCK FALSE
