SPECIFICATION FairSpec
CONSTANTS
    u1 = u1
    u2 = u2
    c1 = c1
    Users = {u1, u2}
    Callers = {c1}
    BadUsers = {}
    History <- TwoVersions
    Failing = {"agent", "writer", "render", "status", "scm", "install", "rm", "cut"}
    MaxFaults = 2
INVARIANTS OkMeansOnDisk
PROPERTIES PoliciesReachDisk DeprovisionRemovesWriter
CHECK_DEADLOCK FALSE
