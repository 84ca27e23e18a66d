SPECIFICATION FairSpec
CONSTANTS
    Users = {u1, u2}
    Callers = {c1}
    BadUsers = {}
    MaxVersion = 1
    OperatorOps = {"grant", "failClosed"}
    Handlers = {h1}
    FaultKinds = {"cut", "apply"}
    MaxFaults = 2
PROPERTIES FailClosedWipes FailedApplyRetried
