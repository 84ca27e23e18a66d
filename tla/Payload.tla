------------------------------ MODULE Payload ------------------------------
(***************************************************************************)
(* The payload, `agent run` as the launcher's child, as far as updates are *)
(* concerned: its first successful heartbeat writes the health marker, and *)
(* a check_update command makes the heartbeat goroutine fetch the plan,    *)
(* stage, activate and mark the new version (internal/agent/selfupdate.go, *)
(* selfupdate_apply_unix.go). The update policy is the Control plane's     *)
(* (internal/server/handlers_update.go).                                   *)
(***************************************************************************)
EXTENDS PayloadStore, Environment

CONSTANTS
    BadVersions,    \* versions that never send a heartbeat: they exit or hang
    PinnedVersion,  \* agent.toml's pin, {} when there is none
    MaxPolicies     \* bound on changes of the update policy

ASSUME PayloadAssumption ==
    /\ BadVersions \subseteq Versions \ {SeedVersion}
    /\ PinnedVersion \in Pointer
    /\ MaxPolicies \in Nat

VARIABLES
    policy,   \* the update policy row: expected version or {}, force, changes
    access,   \* what the Control plane answers: "ok", "gone" or "unauthorized"
    child,    \* the payload process, see ChildPC
    proven    \* history: versions that had a successful heartbeat

cpVars == <<policy, access>>

childVars == <<child, proven>>

\* none: not started;  start: before the first heartbeat;  idle: between two;
\* plan: check_update received;  stage, activate, swap, mark: applyUpdate;
\* revoked: 410 received;  exited: gone, to be reaped by the launcher.
ChildPC == {"none", "start", "idle", "plan", "stage", "activate", "swap",
            "mark", "revoked", "exited"}

NoChild == [pc |-> "none", version |-> SeedVersion, ok |-> FALSE,
            late |-> FALSE, target |-> {}, activated |-> FALSE]

\* ok: lastHeartbeatOK is set;  late: a heartbeat has failed;
\* target: the version being applied;  activated: history, this process has
\* swapped current before.
ChildTypeOK ==
    /\ policy \in [version : Pointer, force : BOOLEAN, changes : 0..MaxPolicies]
    /\ access \in {"ok", "gone", "unauthorized"}
    /\ child \in [pc : ChildPC, version : Versions, ok : BOOLEAN,
                  late : BOOLEAN, target : Pointer, activated : BOOLEAN]
    /\ proven \subseteq Versions

ChildInit ==
    /\ policy = [version |-> {}, force |-> FALSE, changes |-> 0]
    /\ access = "ok"
    /\ child = NoChild
    /\ proven = {}

Alive == child.pc \notin {"none", "exited"}

-----------------------------------------------------------------------------
(* The Control plane.                                                      *)

SetUpdatePolicy(v, force) ==
    /\ policy.changes < MaxPolicies
    /\ policy' = [version |-> {v}, force |-> force,
                  changes |-> policy.changes + 1]
    /\ UNCHANGED access

\* `agents rm`, or a revoked token (see HeartbeatHandler for the answers).
Withdraw(answer) ==
    /\ access = "ok"
    /\ access' = answer
    /\ UNCHANGED policy

\* Commands of a heartbeat answer: every time, when force is set.
buildUpdateCommands(v) ==
    policy.version # {} /\ (policy.version # {v} \/ policy.force)

-----------------------------------------------------------------------------
(* Heartbeats. The ticker keeps one tick while an update is being applied, *)
(* so that the next heartbeat, and the next check_update, may follow at    *)
(* once, before the launcher has looked for the marker of the last one.    *)

At(pc) == child.pc = pc

Goto(pc) == child' = [child EXCEPT !.pc = pc]

\* Out of HandleCheckUpdate, back in the heartbeat loop or gone.
Leave(pc) == child' = [child EXCEPT !.pc = pc, !.target = {}]

\* Ready to send. RunAgent refuses to run beside a .deprovisioned marker.
Beating ==
    /\ At("start") \/ At("idle")
    /\ child.version \notin BadVersions
    /\ ~deprovisioned

\* Mutant: the marker gets the version of the policy.
HeartbeatMismarked ==
    /\ Beating
    /\ ~partitioned /\ access = "ok"
    /\ child' = [child EXCEPT
          !.ok = TRUE,
          !.pc = IF buildUpdateCommands(child.version) THEN "plan" ELSE "idle"]
    /\ health' = IF child.ok THEN health ELSE {policy.version}
    /\ proven' = proven \cup {child.version}
    /\ UNCHANGED <<pointers, pending, deprovisioned, cpVars, envVars>>

\* 200. The first one is the health commit, made before any command.
HeartbeatOK ==
    /\ Beating
    /\ ~partitioned /\ access = "ok"
    /\ child' = [child EXCEPT
          !.ok = TRUE,
          !.pc = IF buildUpdateCommands(child.version) THEN "plan" ELSE "idle"]
    /\ health' = IF child.ok THEN health ELSE {child.version}
    /\ proven' = proven \cup {child.version}
    /\ UNCHANGED <<pointers, pending, deprovisioned, cpVars, envVars>>

\* The marker cannot be written: a warning, and no second attempt.
HeartbeatUnmarked ==
    /\ Beating
    /\ ~partitioned /\ access = "ok" /\ ~child.ok
    /\ Fault("health")
    /\ child' = [child EXCEPT
          !.ok = TRUE, !.late = TRUE,
          !.pc = IF buildUpdateCommands(child.version) THEN "plan" ELSE "idle"]
    /\ proven' = proven \cup {child.version}
    /\ UNCHANGED <<pointers, markers, cpVars>>

HeartbeatFailed ==
    /\ Beating
    /\ partitioned
    /\ child' = [child EXCEPT !.pc = "idle", !.late = TRUE]
    /\ UNCHANGED <<pointers, markers, cpVars, proven, envVars>>

\* 410: onRevoked; its marker is written before the process exits.
HeartbeatGone ==
    /\ Beating
    /\ ~partitioned /\ access = "gone"
    /\ Goto("revoked")
    /\ UNCHANGED <<pointers, markers, cpVars, proven, envVars>>

RevokedDone ==
    /\ At("revoked")
    /\ deprovisioned' = TRUE
    /\ Goto("exited")
    /\ UNCHANGED <<pointers, health, pending, cpVars, proven, envVars>>

\* 401: RunAgent returns nil.
HeartbeatUnauthorized ==
    /\ Beating
    /\ ~partitioned /\ access = "unauthorized"
    /\ Goto("exited")
    /\ UNCHANGED <<pointers, markers, cpVars, proven, envVars>>

-----------------------------------------------------------------------------
(* HandleCheckUpdate and applyUpdate.                                      *)

\* The plan is read again: it may not be the one the command was sent for.
Wanted(v) ==
    /\ {v} = policy.version
    /\ v # child.version \/ policy.force
    /\ PinnedVersion \in {{}, {v}}
    /\ ~IsQuarantined(v)

HandleCheckUpdate ==
    /\ At("plan")
    /\ child' = IF ~partitioned /\ \E v \in Versions : Wanted(v)
                  THEN [child EXCEPT !.pc = "stage", !.target = policy.version]
                  ELSE [child EXCEPT !.pc = "idle"]
    /\ UNCHANGED <<pointers, markers, cpVars, proven, envVars>>

StageUpdate ==
    /\ At("stage")
    /\ \E v \in child.target : Stage(v)
    /\ Goto("activate")
    /\ UNCHANGED <<markers, cpVars, proven, envVars>>

\* No download, a wrong digest, a host not allowed, or no room.
StageFailed ==
    /\ At("stage")
    /\ Fault("download")
    /\ Leave("idle")
    /\ UNCHANGED <<pointers, markers, cpVars, proven>>

ActivateRefused ==
    /\ At("activate")
    /\ \E v \in child.target : ~ActivateAllowed(v)
    /\ Leave("idle")
    /\ UNCHANGED <<pointers, markers, cpVars, proven, envVars>>

ActivateBegin ==
    /\ At("activate")
    /\ \E v \in child.target : ActivateAllowed(v) /\ SavePrevious(v)
    /\ Goto("swap")
    /\ UNCHANGED <<markers, cpVars, proven, envVars>>

ActivateEnd ==
    /\ At("swap")
    /\ \E v \in child.target : SwapCurrent(v)
    /\ child' = [child EXCEPT !.pc = "mark", !.activated = TRUE]
    /\ UNCHANGED <<markers, cpVars, proven, envVars>>

MarkPending ==
    /\ At("mark")
    /\ pending' = TRUE
    /\ Leave("idle")
    /\ UNCHANGED <<pointers, health, deprovisioned, cpVars, proven, envVars>>

\* The activated version has nobody to start it until the next restart.
MarkFailed ==
    /\ At("mark")
    /\ Fault("pending")
    /\ Leave("idle")
    /\ UNCHANGED <<pointers, markers, cpVars, proven>>

-----------------------------------------------------------------------------
(* Ends.                                                                   *)

\* A bad version gives up (or hangs until it is stopped); RunAgent refuses to
\* run beside a .deprovisioned marker.
PayloadQuits ==
    /\ At("start")
    /\ child.version \in BadVersions \/ deprovisioned
    /\ Goto("exited")
    /\ UNCHANGED <<pointers, markers, cpVars, proven, envVars>>

PayloadCrash ==
    /\ Alive
    /\ Fault("payload")
    /\ Leave("exited")
    /\ UNCHANGED <<pointers, markers, cpVars, proven>>

UpdateStep ==
    \/ HandleCheckUpdate
    \/ StageUpdate
    \/ ActivateRefused
    \/ ActivateBegin
    \/ ActivateEnd
    \/ MarkPending

Heartbeat ==
    \/ HeartbeatOK
    \/ HeartbeatFailed
    \/ HeartbeatGone
    \/ HeartbeatUnauthorized

PayloadFault ==
    \/ StageFailed
    \/ MarkFailed
    \/ PayloadCrash

=============================================================================
