SPECIFICATION FairSpec
CONSTANTS
    Versions = {v1, v2, v3, v4}
    SeedVersion = v1
    BadVersions = {v2, v4}
    UnrunnableVersions = {v4}
    PinnedVersion = {}
    MaxPolicies = 2
    FaultKinds = {"cut", "crash", "payload", "download", "health", "pending", "quarantine"}
    MaxFaults = 1
INVARIANTS TypeOK OneWriter NoFalseBlame
PROPERTIES QuarantineHolds LastKnownGood DeprovisionEnds SelfHeals UpdateReached
CHECK_DEADLOCK FALSE
