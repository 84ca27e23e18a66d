SPECIFICATION Spec
CONSTANTS
    Installers = {r1, r2}
    Hosts <- SomeHosts
    Requests <- Documented
    Failing = {"step", "crash", "hour"}
    MaxFaults = 1
SYMMETRY Symmetry
INVARIANTS InstallHeals HoldersOwnTheLock FailedSmokeRestores
PROPERTIES DropInLandsBacked NeverDowngrades
CHECK_DEADLOCK FALSE
