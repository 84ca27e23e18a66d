SPECIFICATION Spec
CONSTANTS
    Users = {u1}
    Callers = {c1, c2}
    BadUsers = {}
    MaxVersion = 3
    OperatorOps = {"grant", "ungrant"}
    Handlers = {h1, h2}
    FaultKinds = {"cut", "store", "crash", "apply", "stop"}
    MaxFaults = 1
SYMMETRY Symmetry
INVARIANTS TypeOK NoTornPolicy DesiredCoversApplied AppliedMeansOnDisk FilesWereGranted
PROPERTIES AppliedNeverRegresses ImplementsReplica
