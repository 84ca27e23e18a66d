SPECIFICATION FairSpec
CONSTANTS
    Users = {u1, u2, u3}
    Callers = {c1}
    BadUsers = {u3}
    MaxVersion = 3
    OperatorOps = {"grant", "ungrant"}
    Handlers = {h1}
    FaultKinds = {"crash", "apply"}
    MaxFaults = 1
INVARIANTS RejectedNamesNeverOnDisk
PROPERTIES GrantsReachDisk RemovalReachesDisk
