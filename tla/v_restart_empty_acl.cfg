SPECIFICATION FairSpec
CONSTANTS
    Users = {u1}
    Callers = {c1}
    BadUsers = {}
    MaxVersion = 2
    OperatorOps = {"grant", "ungrant"}
    Handlers = {h1}
    FaultKinds = {"crash"}
    MaxFaults = 1
PROPERTIES RemovedUserHasNoFile
