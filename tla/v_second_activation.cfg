SPECIFICATION Spec
CONSTANTS
    Versions = {v1, v2, v3}
    SeedVersion = v1
    BadVersions = {v2}
    UnrunnableVersions = {}
    PinnedVersion = {}
    MaxPolicies = 1
    FaultKinds = {}
    MaxFaults = 0
INVARIANTS PreviousIsKnownGood
CHECK_DEADLOCK FALSE
