---------------------------- MODULE PayloadStore ----------------------------
(***************************************************************************)
(* The managed payload directory of the hybrid launcher on Unix            *)
(* (internal/agent/payloadstore.go): versions/<v>/uncluster, the symlinks  *)
(* current and previous, the quarantine markers, and the launcher-payload  *)
(* markers next to them (healthmarker.go). All of it survives a crash.     *)
(***************************************************************************)
EXTENDS Naturals

CONSTANTS
    Versions,     \* payload versions
    SeedVersion   \* the one `agent install` stages and activates

ASSUME VersionsAssumption == SeedVersion \in Versions

VARIABLES
    staged,        \* versions whose binary is in place
    current,       \* target of the symlink current, set at install time
    previous,      \* target of the symlink previous; {} when there is none
    quarantined,   \* versions with a quarantine marker
    health,        \* the version in the health marker; {} when it is absent
    pending,       \* the pending-update marker exists (its body is not read)
    deprovisioned  \* .deprovisioned exists next to agent.toml

pointers == <<staged, current, previous, quarantined>>

markers == <<health, pending, deprovisioned>>

\* A file that names one version or does not exist.
Pointer == {{}} \cup {{v} : v \in Versions}

PayloadTypeOK ==
    /\ staged \subseteq Versions
    /\ current \in Versions
    /\ previous \in Pointer
    /\ quarantined \subseteq Versions
    /\ health \in Pointer
    /\ pending \in BOOLEAN
    /\ deprovisioned \in BOOLEAN

\* setupPayloadStore: Init, Stage and Activate of the installer's own binary.
PayloadInit ==
    /\ staged = {SeedVersion}
    /\ current = SeedVersion
    /\ previous = {}
    /\ quarantined = {}
    /\ health = {}
    /\ pending = FALSE
    /\ deprovisioned = FALSE

\* Stage: written aside, synced and renamed, so the binary appears whole.
Stage(v) ==
    /\ staged' = staged \cup {v}
    /\ UNCHANGED <<current, previous, quarantined>>

\* Mutant: the quarantine is never consulted.
NeverQuarantined(v) == FALSE

IsQuarantined(v) == v \in quarantined

\* Activate, as its two swapSymlink calls: a crash may come between them.
ActivateAllowed(v) == ~IsQuarantined(v) /\ v \in staged

\* Mutant: previous is given the new version.
SavePreviousSwapped(v) ==
    /\ previous' = {v}
    /\ UNCHANGED <<staged, current, quarantined>>

SavePrevious(v) ==
    /\ previous' = {current}
    /\ UNCHANGED <<staged, current, quarantined>>

SwapCurrent(v) ==
    /\ current' = v
    /\ UNCHANGED <<staged, previous, quarantined>>

Quarantine(v) ==
    /\ quarantined' = quarantined \cup {v}
    /\ UNCHANGED <<staged, current, previous>>

\* Mutant: current stays where it is.
RollbackNowhere ==
    /\ previous # {}
    /\ UNCHANGED pointers

\* Rollback, when there is a previous: it keeps pointing where it did.
Rollback ==
    /\ current' \in previous
    /\ UNCHANGED <<staged, previous, quarantined>>

=============================================================================
