SPECIFICATION Spec
CONSTANTS
    Callers = {c1}
    Agents = {a1}
    Users = {u1, u2}
    Requests = {r1, r2}
    Ttls <- BoundaryTtls
    DurationMax = 1000
    MaxChanges = 3
    MaxRestarts = 1
    Failing = {"store", "sign"}
    MaxFaults = 1
SYMMETRY Symmetry
INVARIANTS CertsAreAudited DenialsAreAudited CertsWereGranted
    RevokedCallerGetsNone SerialsAreUnique WindowIsBounded
CHECK_DEADLOCK FALSE
