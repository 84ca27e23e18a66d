------------------------------ MODULE Launcher ------------------------------
(***************************************************************************)
(* The hybrid launcher (internal/agent/launcher.go): it starts the current *)
(* payload, wants a health commit within a deadline, rolls back and        *)
(* quarantines a version that gives none, and restarts the payload when an *)
(* update is pending. Composed with the payload, the Control plane's       *)
(* update policy, the link and a service manager that restarts the         *)
(* launcher when it fails (Restart=on-failure).                            *)
(*                                                                         *)
(* A stop of the service writes nothing, so to the payload directory it is *)
(* a crash between two steps.                                              *)
(***************************************************************************)
EXTENDS Payload

CONSTANT UnrunnableVersions   \* versions that cannot be executed at all

ASSUME UnrunnableAssumption == UnrunnableVersions \subseteq BadVersions

VARIABLE launcher

vars == <<pointers, markers, cpVars, childVars, envVars, launcher>>

\* loop: top of Run's loop;  watch: superviseUntilHealthy;  steady:
\* superviseSteadyState;  stopBad, stopUpdate: waiting for the payload to exit;
\* demote, rollback: inside demoteBadVersion;  down: failed, to be restarted;
\* ended: exited cleanly.
LauncherPC == {"loop", "watch", "steady", "stopBad", "stopUpdate", "demote",
               "rollback", "down", "ended"}

TypeOK ==
    /\ PayloadTypeOK
    /\ ChildTypeOK
    /\ EnvTypeOK
    /\ launcher \in [pc : LauncherPC, version : Versions]

Init ==
    /\ PayloadInit
    /\ ChildInit
    /\ EnvInit
    /\ launcher = [pc |-> "loop", version |-> SeedVersion]

In(pc) == launcher.pc = pc

To(pc) == launcher' = [launcher EXCEPT !.pc = pc]

rest == <<pointers, cpVars, envVars>>

-----------------------------------------------------------------------------
(* Run and its two supervision loops.                                      *)

\* Mutant: .deprovisioned is not looked at.
StartRegardless ==
    /\ In("loop")
    /\ current \notin UnrunnableVersions
    /\ health' = {}
    /\ child' = [NoChild EXCEPT !.pc = "start", !.version = current]
    /\ launcher' = [pc |-> "watch", version |-> current]
    /\ UNCHANGED <<rest, pending, deprovisioned, proven>>

\* Current, then execRunner.Start, which clears the health marker first.
StartPayload ==
    /\ In("loop") /\ ~deprovisioned
    /\ current \notin UnrunnableVersions
    /\ health' = {}
    /\ child' = [NoChild EXCEPT !.pc = "start", !.version = current]
    /\ launcher' = [pc |-> "watch", version |-> current]
    /\ UNCHANGED <<rest, pending, deprovisioned, proven>>

\* Start returns an error, and so does Run.
StartFails ==
    /\ In("loop") /\ ~deprovisioned
    /\ current \in UnrunnableVersions
    /\ health' = {}
    /\ To("down")
    /\ UNCHANGED <<rest, pending, deprovisioned, childVars>>

StopRequested ==
    /\ In("loop") /\ deprovisioned
    /\ To("ended")
    /\ UNCHANGED <<rest, markers, childVars>>

\* WaitHealthy: the marker names the version that was started.
HealthCommitted ==
    /\ In("watch") /\ health = {launcher.version}
    /\ To("steady")
    /\ UNCHANGED <<rest, markers, childVars>>

\* Mutant: the version is demoted while its process is still being stopped.
DemotedAtOnce ==
    /\ In("watch")
    /\ child.version \in BadVersions \/ child.late \/ partitioned
    /\ To("demote")
    /\ UNCHANGED <<rest, markers, childVars>>

\* The deadline passes: only for a version that cannot commit, or one whose
\* heartbeats did not all get through. A commit of the last 200ms, or an exit
\* at the same moment, may be missed.
DeadlineMissed ==
    /\ In("watch")
    /\ child.version \in BadVersions \/ child.late \/ partitioned
    /\ To("stopBad")
    /\ UNCHANGED <<rest, markers, childVars>>

\* The payload exits before the launcher has seen a commit.
ExitedEarly ==
    /\ In("watch") /\ At("exited")
    /\ To(IF deprovisioned THEN "ended" ELSE "demote")
    /\ UNCHANGED <<rest, markers, childVars>>

ExitedSteady ==
    /\ In("steady") /\ At("exited")
    /\ To(IF deprovisioned THEN "ended" ELSE "loop")
    /\ UNCHANGED <<rest, markers, childVars>>

\* Mutant: the marker is consumed and nothing is done.
PendingDropped ==
    /\ In("steady") /\ pending
    /\ pending' = FALSE
    /\ UNCHANGED <<rest, health, deprovisioned, childVars, launcher>>

\* Mutant: the restart for an update is taken for a failure.
PendingDemotes ==
    /\ In("steady") /\ pending
    /\ pending' = FALSE
    /\ To("stopBad")
    /\ UNCHANGED <<rest, health, deprovisioned, childVars>>

\* consumePendingUpdate, then stop.
PendingUpdate ==
    /\ In("steady") /\ pending
    /\ pending' = FALSE
    /\ To("stopUpdate")
    /\ UNCHANGED <<rest, health, deprovisioned, childVars>>

Stopping == In("stopBad") \/ In("stopUpdate")

\* SIGTERM, then SIGKILL: the payload may finish a step or two before it goes.
PayloadStopped ==
    /\ Stopping /\ Alive
    /\ Leave("exited")
    /\ UNCHANGED <<rest, markers, proven, launcher>>

\* <-exitCh
Reaped ==
    /\ Stopping /\ At("exited")
    /\ To(IF In("stopBad") THEN "demote" ELSE "loop")
    /\ UNCHANGED <<rest, markers, childVars>>

-----------------------------------------------------------------------------
(* demoteBadVersion.                                                       *)

QuarantineBad ==
    /\ In("demote")
    /\ Quarantine(launcher.version)
    /\ To("rollback")
    /\ UNCHANGED <<markers, cpVars, childVars, envVars>>

\* Logged, and the rollback goes on.
QuarantineFailed ==
    /\ In("demote")
    /\ Fault("quarantine")
    /\ To("rollback")
    /\ UNCHANGED <<pointers, markers, cpVars, childVars>>

RolledBack ==
    /\ In("rollback")
    /\ Rollback
    /\ To("loop")
    /\ UNCHANGED <<markers, cpVars, childVars, envVars>>

\* No last-known-good: Run returns an error.
NothingToRollBackTo ==
    /\ In("rollback") /\ previous = {}
    /\ To("down")
    /\ UNCHANGED <<rest, markers, childVars>>

-----------------------------------------------------------------------------

Restarted ==
    /\ In("down")
    /\ To("loop")
    /\ UNCHANGED <<rest, markers, childVars>>

\* Power loss, or the whole control group killed; the boot starts it again.
Crash ==
    /\ Fault("crash")
    /\ child' = NoChild
    /\ To("down")
    /\ UNCHANGED <<pointers, markers, cpVars, proven>>

Launch ==
    \/ StartPayload
    \/ StartFails
    \/ StopRequested
    \/ HealthCommitted
    \/ ExitedEarly
    \/ ExitedSteady
    \/ PendingUpdate
    \/ Reaped
    \/ QuarantineBad
    \/ RolledBack
    \/ NothingToRollBackTo

ControlPlane ==
    /\ \/ \E v \in Versions, force \in BOOLEAN : SetUpdatePolicy(v, force)
       \/ \E answer \in {"gone", "unauthorized"} : Withdraw(answer)
    /\ UNCHANGED <<pointers, markers, childVars, envVars, launcher>>

Link ==
    /\ Cut \/ Heal
    /\ UNCHANGED <<pointers, markers, cpVars, childVars, launcher>>

Running(A) == A /\ UNCHANGED launcher

Next ==
    \/ ControlPlane
    \/ Link
    \/ Launch
    \/ DeadlineMissed
    \/ PayloadStopped
    \/ QuarantineFailed
    \/ Running(Heartbeat)
    \/ Running(HeartbeatUnmarked)
    \/ Running(RevokedDone)
    \/ Running(UpdateStep)
    \/ Running(PayloadQuits)
    \/ Running(PayloadFault)
    \/ Restarted
    \/ Crash

Spec == Init /\ [][Next]_vars

(* Fairness: both processes run, the service manager restarts a failed    *)
(* launcher, a deadline that keeps being missed is seen.                   *)
Fairness ==
    /\ WF_vars(Launch)
    /\ WF_vars(DeadlineMissed)
    /\ WF_vars(PayloadStopped)
    /\ WF_vars(Running(Heartbeat))
    /\ WF_vars(Running(RevokedDone))
    /\ WF_vars(Running(UpdateStep))
    /\ WF_vars(Restarted)

FairSpec == Spec /\ Fairness

-----------------------------------------------------------------------------
(* Properties.                                                             *)

\* "Roll the current pointer's target into previous first, so a later Rollback
\* has a known-good target": what Activate saves has had a successful
\* heartbeat, whatever updates, crashes and rollbacks came before, unless the
\* process saves a second time (see PreviousIsKnownGood).
LastKnownGood ==
    [][previous' # previous =>
          previous' \subseteq proven \/ child.activated]_vars

\* An update never makes a version live that failed its health commit, even
\* when the plan, the check and the swap are apart; only a rollback may.
QuarantineHolds ==
    [][current' # current => current' \notin quarantined \/ In("rollback")]_vars

\* The two writers of the pointers never overlap: while the launcher demotes
\* a version, no payload is left that could activate another.
OneWriter == (In("demote") \/ In("rollback")) => ~Alive

\* A version that works is blamed only after something failed: restarts the
\* launcher itself ordered, and forced updates, never quarantine it.
NoFalseBlame ==
    (faults = 0 /\ access = "ok") => quarantined \subseteq BadVersions

Connected == ~partitioned /\ access = "ok"

\* The launcher has nothing that works to fall back to: current cannot be
\* executed (Start's error ends Run before any rollback), or a payload that
\* activated a bad version twice has made it its own previous.
NoWayBack ==
    \/ current \in UnrunnableVersions
    \/ previous \cap BadVersions # {}

\* A bad update self-heals: with the Control plane reachable from some time
\* on, a committed payload is supervised again and again, or there is no way
\* back.
SelfHeals == <>[]Connected => []<>(In("steady") \/ NoWayBack)

\* The version the Control plane expects gets to run, unless it failed its
\* commit, is pinned away, there is no way back to a payload that could fetch
\* it, or the Control plane changes its mind.
UpdateReached ==
    \A v \in Versions \ BadVersions :
        (policy.version = {v} /\ PinnedVersion \in {{}, {v}}) ~>
            \/ Alive /\ child.version = v /\ child.ok
            \/ v \in quarantined
            \/ NoWayBack
            \/ policy.version # {v}
            \/ ~Connected

\* A deprovisioned machine comes to rest: no payload is ever started again.
DeprovisionEnds == deprovisioned ~> [](~Alive)

-----------------------------------------------------------------------------
(* What the documentation claims and the code does not keep.               *)

\* payloadstore.go: "moving the prior current to previous (last-known-good for
\* rollback)". A payload that gets check_update again before the launcher has
\* polled activates the same update twice, and previous names the new version.
PreviousIsKnownGood == previous \subseteq proven

=============================================================================
