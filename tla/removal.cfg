SPECIFICATION FairSpec
CONSTANTS
    Users = {u1}
    Callers = {c1}
    BadUsers = {}
    MaxVersion = 1
    OperatorOps = {"grant", "rm", "revokeToken"}
    Handlers = {h1, h2}
    FaultKinds = {"cut", "wipe", "stop", "crash"}
    MaxFaults = 1
INVARIANTS RemovedNeverServed
PROPERTIES RemovedStops
