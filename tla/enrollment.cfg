SPECIFICATION Spec
CONSTANTS
    Bootstraps = {b1, b2}
    OpenersOverlap = FALSE
    Hosts = {h1, h2}
    Names = {n1, n2}
    JoinTokens = {j1}
    MaxAttempts = 1
    Failing = {"disk", "store", "crash", "answer"}
    MaxFaults = 1
SYMMETRY Symmetry
INVARIANTS CredentialsAreBacked TrustedKeySigns SchemaMatchesVersion
PROPERTIES ImplementsJoinToken
CHECK_DEADLOCK FALSE
