--------------------------- MODULE LauncherProofs ---------------------------
(***************************************************************************)
(* Theorems about Launcher: its types, that launcher and payload never     *)
(* write the pointers at once, that a quarantined version is activated by  *)
(* no update, and that what an update saves as previous has worked.        *)
(***************************************************************************)
EXTENDS Launcher, TLAPS

USE VersionsAssumption, PayloadAssumption, FaultsAssumption

-----------------------------------------------------------------------------
(* Types.                                                                  *)

LEMMA TypeInit == Init => TypeOK
<1> SUFFICES ASSUME Init PROVE TypeOK
  OBVIOUS
<1> USE DEF Init
<1>1. PayloadTypeOK
  BY DEF PayloadInit, PayloadTypeOK, Pointer
<1>2. {} \in Pointer /\ 0 \in 0..MaxPolicies /\ 0 \in 0..MaxFaults
  BY DEF Pointer
<1>3. child \in [pc : ChildPC, version : Versions, ok : BOOLEAN,
                late : BOOLEAN, target : Pointer, activated : BOOLEAN]
  BY <1>2 DEF ChildInit, NoChild, ChildPC
<1>4. policy \in [version : Pointer, force : BOOLEAN, changes : 0..MaxPolicies]
  BY <1>2 DEF ChildInit
<1>5. access \in {"ok", "gone", "unauthorized"} /\ proven \subseteq Versions
  BY DEF ChildInit
<1>6. EnvTypeOK
  BY <1>2 DEF EnvInit, EnvTypeOK
<1>7. launcher \in [pc : LauncherPC, version : Versions]
  BY DEF LauncherPC
<1> QED
  BY <1>1, <1>3, <1>4, <1>5, <1>6, <1>7 DEF TypeOK, ChildTypeOK

LEMMA FaultType ==
    ASSUME EnvTypeOK, NEW k, Fault(k) \/ Cut \/ Heal
    PROVE  EnvTypeOK'
<1>1. CASE Fault(k) \/ Cut
  <2>1. faults' \in 0..MaxFaults
    BY <1>1 DEF EnvTypeOK, Fault, Cut
  <2>2. partitioned' \in BOOLEAN
    BY <1>1, Zenon DEF EnvTypeOK, Fault, Cut
  <2> QED
    BY <2>1, <2>2 DEF EnvTypeOK
<1>2. CASE Heal
  BY <1>2 DEF EnvTypeOK, Heal
<1> QED
  BY <1>1, <1>2

LEMMA TypeLaunch ==
    ASSUME TypeOK, Launch
    PROVE  TypeOK'
<1> USE DEF TypeOK, PayloadTypeOK, ChildTypeOK, EnvTypeOK, LauncherPC, rest,
            pointers, markers, cpVars, childVars, envVars, To, In
<1>1. CASE StartPayload
  BY <1>1 DEF StartPayload, NoChild, Pointer, ChildPC
<1>2. CASE StartFails
  BY <1>2 DEF StartFails, Pointer
<1>3. CASE StopRequested \/ HealthCommitted \/ ExitedEarly \/ ExitedSteady
           \/ Reaped \/ NothingToRollBackTo
  BY <1>3 DEF StopRequested, HealthCommitted, ExitedEarly, ExitedSteady, At,
              Reaped, Stopping, NothingToRollBackTo
<1>4. CASE PendingUpdate
  BY <1>4 DEF PendingUpdate
<1>5. CASE QuarantineBad
  BY <1>5 DEF QuarantineBad, Quarantine
<1>6. CASE RolledBack
  BY <1>6 DEF RolledBack, Rollback, Pointer
<1> QED
  BY <1>1, <1>2, <1>3, <1>4, <1>5, <1>6 DEF Launch

LEMMA TypeHeartbeat ==
    ASSUME TypeOK, Running(Heartbeat)
                   \/ Running(HeartbeatUnmarked)
    PROVE  TypeOK'
<1> USE DEF TypeOK, PayloadTypeOK, ChildTypeOK, EnvTypeOK, ChildPC, Running,
            pointers, markers, cpVars, envVars, Goto, Leave
<1>1. CASE Running(HeartbeatOK)
  <2>1. child' \in [pc : ChildPC, version : Versions, ok : BOOLEAN,
                   late : BOOLEAN, target : Pointer, activated : BOOLEAN]
    BY <1>1 DEF HeartbeatOK
  <2>2. health' \in Pointer /\ proven' \subseteq Versions
    BY <1>1 DEF HeartbeatOK, Pointer
  <2> QED
    BY <1>1, <2>1, <2>2 DEF HeartbeatOK
<1>2. CASE Running(HeartbeatUnmarked)
  <2>1. child' \in [pc : ChildPC, version : Versions, ok : BOOLEAN,
                   late : BOOLEAN, target : Pointer, activated : BOOLEAN]
    BY <1>2 DEF HeartbeatUnmarked
  <2>2. EnvTypeOK'
    BY <1>2, FaultType DEF HeartbeatUnmarked
  <2> QED
    BY <1>2, <2>1, <2>2 DEF HeartbeatUnmarked
<1>3. CASE Running(HeartbeatFailed)
           \/ Running(HeartbeatGone)
           \/ Running(HeartbeatUnauthorized)
  BY <1>3 DEF HeartbeatFailed, HeartbeatGone, HeartbeatUnauthorized
<1> QED
  BY <1>1, <1>2, <1>3 DEF Heartbeat

LEMMA TypeUpdate ==
    ASSUME TypeOK, Running(UpdateStep)
    PROVE  TypeOK'
<1> USE DEF TypeOK, PayloadTypeOK, ChildTypeOK, EnvTypeOK, ChildPC, Running,
            pointers, markers, cpVars, envVars, Goto, Leave
<1>1. CASE Running(HandleCheckUpdate)
  BY <1>1 DEF HandleCheckUpdate, Pointer
<1>5. CASE Running(ActivateRefused) \/ Running(MarkPending)
  <2>1. child' \in [pc : ChildPC, version : Versions, ok : BOOLEAN,
                    late : BOOLEAN, target : Pointer, activated : BOOLEAN]
    BY <1>5 DEF ActivateRefused, MarkPending, Pointer
  <2> QED
    BY <1>5, <2>1 DEF ActivateRefused, MarkPending
<1>2. CASE Running(StageUpdate)
  BY <1>2 DEF StageUpdate, Stage, Pointer
<1>3. CASE Running(ActivateBegin)
  BY <1>3 DEF ActivateBegin, SavePrevious, Pointer
<1>4. CASE Running(ActivateEnd)
  <2>1. child' \in [pc : ChildPC, version : Versions, ok : BOOLEAN,
                    late : BOOLEAN, target : Pointer, activated : BOOLEAN]
    BY <1>4 DEF ActivateEnd
  <2> QED
    BY <1>4, <2>1 DEF ActivateEnd, SwapCurrent, Pointer
<1> QED
  BY <1>1, <1>2, <1>3, <1>4, <1>5 DEF UpdateStep

LEMMA TypeStep ==
    ASSUME TypeOK, [Next]_vars
    PROVE  TypeOK'
<1> USE DEF TypeOK, PayloadTypeOK, ChildTypeOK, EnvTypeOK, LauncherPC, ChildPC,
            rest, pointers, markers, cpVars, childVars, envVars, To, Goto, Leave
<1>1. CASE ControlPlane
  <2>1. ASSUME NEW v \in Versions, NEW force \in BOOLEAN,
               SetUpdatePolicy(v, force)
        PROVE  policy' \in [version : Pointer, force : BOOLEAN,
                            changes : 0..MaxPolicies]
               /\ access' = access
    <3>1. policy.changes + 1 \in 0..MaxPolicies /\ {v} \in Pointer
      BY <2>1 DEF SetUpdatePolicy, Pointer
    <3> QED
      BY <2>1, <3>1 DEF SetUpdatePolicy
  <2> QED
    BY <1>1, <2>1 DEF ControlPlane, Withdraw
<1>2. CASE Link
  BY <1>2, FaultType DEF Link
<1>3. CASE DeadlineMissed \/ PayloadStopped \/ Restarted
  BY <1>3 DEF DeadlineMissed, PayloadStopped, Restarted, Pointer
<1>4. CASE QuarantineFailed
  BY <1>4 DEF QuarantineFailed, Fault
<1>5. CASE Running(RevokedDone) \/ Running(PayloadQuits)
  BY <1>5 DEF Running, RevokedDone, PayloadQuits
<1>6. CASE Running(PayloadFault)
  <2>1. EnvTypeOK'
    BY <1>6, FaultType DEF Running, PayloadFault, StageFailed, MarkFailed,
                           PayloadCrash
  <2>2. child' \in [pc : ChildPC, version : Versions, ok : BOOLEAN,
                    late : BOOLEAN, target : Pointer, activated : BOOLEAN]
    BY <1>6 DEF Running, PayloadFault, StageFailed, MarkFailed, PayloadCrash,
                Pointer
  <2> QED
    BY <1>6, <2>1, <2>2 DEF Running, PayloadFault, StageFailed, MarkFailed,
                            PayloadCrash
<1>7. CASE Crash
  BY <1>7 DEF Crash, Fault, NoChild, Pointer
<1>8. CASE UNCHANGED vars
  BY <1>8 DEF vars
<1> HIDE DEF TypeOK
<1> QED
  BY <1>1, <1>2, <1>3, <1>4, <1>5, <1>6, <1>7, <1>8,
     TypeLaunch, TypeHeartbeat, TypeUpdate DEF Next

\* Every variable of Launcher keeps its range, for every set of versions and
\* every number of policy changes and faults.
THEOREM LauncherTypeCorrect == Spec => []TypeOK
BY TypeInit, TypeStep, PTL DEF Spec

-----------------------------------------------------------------------------
(* One writer at a time.                                                   *)

\* A payload is alive only under a supervision loop, which knows its version.
Supervised ==
    Alive => /\ launcher.pc \in {"watch", "steady", "stopBad", "stopUpdate"}
             /\ launcher.version = child.version

LEMMA SupervisedStep ==
    ASSUME TypeOK, Supervised, [Next]_vars
    PROVE  Supervised'
<1> USE DEF Supervised, Alive, TypeOK, ChildTypeOK, In, To, At, Goto, Leave, rest,
            childVars
<1>1. CASE ControlPlane \/ Link \/ UNCHANGED vars
  BY <1>1 DEF ControlPlane, Link, vars
<1>2. CASE Launch
  <2>1. CASE StartPayload
    BY <2>1 DEF StartPayload, NoChild
  <2>2. CASE StartFails \/ StopRequested \/ QuarantineBad \/ RolledBack
             \/ NothingToRollBackTo
    BY <2>2 DEF StartFails, StopRequested, QuarantineBad, RolledBack,
                NothingToRollBackTo
  <2>3. CASE HealthCommitted \/ PendingUpdate
    BY <2>3 DEF HealthCommitted, PendingUpdate
  <2>4. CASE ExitedEarly \/ ExitedSteady \/ Reaped
    BY <2>4 DEF ExitedEarly, ExitedSteady, Reaped
  <2> QED
    BY <1>2, <2>1, <2>2, <2>3, <2>4 DEF Launch
<1>3. CASE DeadlineMissed \/ PayloadStopped \/ Restarted
  BY <1>3 DEF DeadlineMissed, PayloadStopped, Stopping, Restarted
<1>4. CASE QuarantineFailed \/ Crash
  BY <1>4 DEF QuarantineFailed, Crash, NoChild
<1>5. CASE Running(Heartbeat) \/ Running(HeartbeatUnmarked)
  BY <1>5 DEF Running, Heartbeat, HeartbeatOK, HeartbeatFailed, HeartbeatGone,
              HeartbeatUnauthorized, HeartbeatUnmarked, Beating
<1>6. CASE Running(UpdateStep)
  BY <1>6 DEF Running, UpdateStep, HandleCheckUpdate, StageUpdate,
              ActivateRefused, ActivateBegin, ActivateEnd, MarkPending
<1>7. CASE Running(RevokedDone) \/ Running(PayloadQuits) \/ Running(PayloadFault)
  BY <1>7 DEF Running, RevokedDone, PayloadQuits, PayloadFault, StageFailed,
              MarkFailed, PayloadCrash
<1> QED
  BY <1>1, <1>2, <1>3, <1>4, <1>5, <1>6, <1>7 DEF Next

\* demoteBadVersion never runs beside a live payload: superviseUntilHealthy
\* waits for the exit before it returns.
THEOREM PointersHaveOneWriter == Spec => []OneWriter
<1>1. Init => Supervised
  BY DEF Init, ChildInit, NoChild, Supervised, Alive
<1>2. Supervised => OneWriter
  BY DEF Supervised, OneWriter, In
<1> QED
  BY <1>1, <1>2, SupervisedStep, LauncherTypeCorrect, PTL DEF Spec

-----------------------------------------------------------------------------
(* The quarantine.                                                         *)

\* Between Activate's check and its swap the version stays acceptable.
CheckedTarget == At("swap") => child.target \cap quarantined = {}

LEMMA QuarantineFixed ==
    ASSUME [Next]_vars, ~QuarantineBad
    PROVE  quarantined' = quarantined
<1> USE DEF pointers, rest, markers
<1>1. CASE ControlPlane \/ Link \/ UNCHANGED vars
  BY <1>1 DEF ControlPlane, Link, vars
<1>2. CASE Launch
  BY <1>2 DEF Launch, StartPayload, StartFails, StopRequested, HealthCommitted,
              ExitedEarly, ExitedSteady, PendingUpdate, Reaped, RolledBack,
              Rollback, NothingToRollBackTo
<1>3. CASE DeadlineMissed \/ PayloadStopped \/ Restarted \/ QuarantineFailed
           \/ Crash
  BY <1>3 DEF DeadlineMissed, PayloadStopped, Restarted, QuarantineFailed, Crash
<1>4. CASE Running(Heartbeat) \/ Running(HeartbeatUnmarked)
  BY <1>4 DEF Running, Heartbeat, HeartbeatOK, HeartbeatFailed, HeartbeatGone,
              HeartbeatUnauthorized, HeartbeatUnmarked
<1>5. CASE Running(UpdateStep)
  BY <1>5 DEF Running, UpdateStep, HandleCheckUpdate, StageUpdate, Stage,
              ActivateRefused, ActivateBegin, SavePrevious, ActivateEnd,
              SwapCurrent, MarkPending
<1>6. CASE Running(RevokedDone) \/ Running(PayloadQuits) \/ Running(PayloadFault)
  BY <1>6 DEF Running, RevokedDone, PayloadQuits, PayloadFault, StageFailed,
              MarkFailed, PayloadCrash
<1> QED
  BY <1>1, <1>2, <1>3, <1>4, <1>5, <1>6 DEF Next

\* Only ActivateBegin brings a payload to the swap, and only a rollback or
\* the swap itself moves current.
LEMMA SwapOrigin ==
    ASSUME TypeOK, [Next]_vars
    PROVE  /\ child'.pc = "swap" => child' = child \/ ActivateBegin
           /\ current' # current => ActivateEnd \/ RolledBack
<1> USE DEF TypeOK, ChildTypeOK, Goto, Leave, pointers, rest, markers, childVars
<1>1. CASE ControlPlane \/ Link \/ UNCHANGED vars
  BY <1>1 DEF ControlPlane, Link, vars
<1>2. CASE Launch
  BY <1>2 DEF Launch, StartPayload, StartFails, StopRequested, HealthCommitted,
              ExitedEarly, ExitedSteady, PendingUpdate, Reaped, QuarantineBad,
              Quarantine, NothingToRollBackTo, RolledBack, NoChild
<1>3. CASE DeadlineMissed \/ Restarted \/ QuarantineFailed \/ Crash
  BY <1>3 DEF DeadlineMissed, Restarted, QuarantineFailed, Crash, NoChild
<1>7. CASE PayloadStopped
  BY <1>7 DEF PayloadStopped
<1>4. CASE Running(Heartbeat) \/ Running(HeartbeatUnmarked)
  BY <1>4 DEF Running, Heartbeat, HeartbeatOK, HeartbeatFailed, HeartbeatGone,
              HeartbeatUnauthorized, HeartbeatUnmarked
<1>5. CASE Running(UpdateStep)
  BY <1>5 DEF Running, UpdateStep, HandleCheckUpdate, StageUpdate, Stage,
              ActivateRefused, ActivateBegin, SavePrevious, ActivateEnd,
              MarkPending
<1>6. CASE Running(RevokedDone) \/ Running(PayloadQuits) \/ Running(PayloadFault)
  BY <1>6 DEF Running, RevokedDone, PayloadQuits, PayloadFault, StageFailed,
              MarkFailed, PayloadCrash
<1> QED
  BY <1>1, <1>2, <1>3, <1>4, <1>5, <1>6, <1>7 DEF Next

LEMMA CheckedTargetStep ==
    ASSUME TypeOK, Supervised, CheckedTarget, [Next]_vars
    PROVE  CheckedTarget'
<1> SUFFICES ASSUME child'.pc = "swap"
             PROVE  child'.target \cap quarantined' = {}
  BY DEF CheckedTarget, At
<1>1. CASE QuarantineBad
  <2>1. ~Alive /\ child' = child
    BY <1>1 DEF QuarantineBad, Supervised, In, childVars
  <2> QED
    BY <2>1 DEF Alive
<1>2. CASE ~QuarantineBad /\ child' = child
  BY <1>2, QuarantineFixed DEF CheckedTarget, At
<1>3. CASE ~QuarantineBad /\ ActivateBegin
  <2>1. PICK v \in child.target : ActivateAllowed(v)
    BY <1>3 DEF ActivateBegin
  <2>2. child.target = {v} /\ v \notin quarantined
    BY <2>1 DEF TypeOK, ChildTypeOK, Pointer, ActivateAllowed, IsQuarantined
  <2>3. child'.target = child.target
    BY <1>3 DEF ActivateBegin, Goto, TypeOK, ChildTypeOK
  <2> QED
    BY <1>3, <2>2, <2>3, QuarantineFixed
<1> QED
  BY <1>1, <1>2, <1>3, SwapOrigin

LEMMA QuarantineHoldsStep ==
    ASSUME TypeOK, CheckedTarget, [Next]_vars, current' # current
    PROVE  current' \notin quarantined \/ In("rollback")
<1>1. CASE RolledBack
  BY <1>1 DEF RolledBack
<1>2. CASE ActivateEnd
  BY <1>2 DEF ActivateEnd, SwapCurrent, CheckedTarget
<1> QED
  BY <1>1, <1>2, SwapOrigin

\* No update makes a quarantined version live: the plan's check, Activate's
\* check and the swap are three steps, and no quarantine comes between.
THEOREM QuarantineIsKept == Spec => QuarantineHolds
<1>1. Init => Supervised /\ CheckedTarget
  BY DEF Init, ChildInit, NoChild, Supervised, Alive, CheckedTarget, At
<1>2. TypeOK /\ CheckedTarget /\ [Next]_vars =>
        [current' # current =>
            current' \notin quarantined \/ In("rollback")]_vars
  BY QuarantineHoldsStep
<1> QED
  BY <1>1, <1>2, SupervisedStep, CheckedTargetStep, LauncherTypeCorrect, PTL
  DEF Spec, QuarantineHolds

-----------------------------------------------------------------------------
(* What Activate saves as previous has worked before.                      *)

\* A payload that had a heartbeat is proven, and only such a one updates.
ProvenRuns ==
    /\ Alive /\ child.ok => child.version \in proven
    /\ child.pc \in {"plan", "stage", "activate", "swap", "mark"} => child.ok

\* The payload runs what current names until it has swapped it: nobody else
\* writes the pointers while it is alive.
RunsCurrent == Alive /\ ~child.activated => current = child.version

\* The inductive invariant.
RollbackInv == TypeOK /\ Supervised /\ ProvenRuns /\ RunsCurrent

LEMMA RollbackInit == Init => RollbackInv
<1> SUFFICES ASSUME Init PROVE RollbackInv
  OBVIOUS
<1>1. TypeOK
  BY TypeInit
<1> QED
  BY <1>1 DEF Init, ChildInit, NoChild, PayloadInit, RollbackInv, Supervised,
     Alive, ProvenRuns, RunsCurrent

LEMMA KnownGoodLaunch ==
    ASSUME RollbackInv, Launch
    PROVE  (ProvenRuns /\ RunsCurrent)'
<1> USE DEF RollbackInv, Supervised, ProvenRuns, RunsCurrent, Alive, TypeOK,
            ChildTypeOK, In, To, At, rest, childVars, pointers
<1>1. CASE StartPayload
  BY <1>1 DEF StartPayload, NoChild
<1>2. CASE StartFails \/ StopRequested \/ NothingToRollBackTo \/ QuarantineBad
  BY <1>2 DEF StartFails, StopRequested, NothingToRollBackTo, QuarantineBad,
              Quarantine
<1>3. CASE RolledBack
  BY <1>3 DEF RolledBack, Rollback
<1>4. CASE HealthCommitted \/ PendingUpdate
  BY <1>4 DEF HealthCommitted, PendingUpdate
<1>5. CASE ExitedEarly \/ ExitedSteady \/ Reaped
  BY <1>5 DEF ExitedEarly, ExitedSteady, Reaped
<1> QED
  BY <1>1, <1>2, <1>3, <1>4, <1>5 DEF Launch

LEMMA KnownGoodHeartbeat ==
    ASSUME RollbackInv, Running(Heartbeat) \/ Running(HeartbeatUnmarked)
    PROVE  (ProvenRuns /\ RunsCurrent)'
<1> USE DEF RollbackInv, ProvenRuns, RunsCurrent, Alive, TypeOK, ChildTypeOK,
            At, Goto, Leave, pointers, Running
<1>1. CASE Running(HeartbeatOK)
  BY <1>1 DEF HeartbeatOK, Beating
<1>2. CASE Running(HeartbeatUnmarked)
  BY <1>2 DEF HeartbeatUnmarked, Beating
<1>3. CASE Running(HeartbeatFailed)
  BY <1>3 DEF HeartbeatFailed, Beating
<1>4. CASE Running(HeartbeatGone) \/ Running(HeartbeatUnauthorized)
  BY <1>4 DEF HeartbeatGone, HeartbeatUnauthorized, Beating
<1> QED
  BY <1>1, <1>2, <1>3, <1>4 DEF Heartbeat

LEMMA KnownGoodUpdate ==
    ASSUME RollbackInv, Running(UpdateStep)
    PROVE  (ProvenRuns /\ RunsCurrent)'
<1> USE DEF RollbackInv, ProvenRuns, RunsCurrent, Alive, TypeOK, ChildTypeOK,
            At, Goto, Leave, pointers, Running
<1>1. CASE Running(HandleCheckUpdate)
  BY <1>1 DEF HandleCheckUpdate
<1>2. CASE Running(StageUpdate)
  BY <1>2 DEF StageUpdate, Stage
<1>3. CASE Running(ActivateRefused)
  BY <1>3 DEF ActivateRefused
<1>4. CASE Running(ActivateBegin)
  BY <1>4 DEF ActivateBegin, SavePrevious
<1>5. CASE Running(ActivateEnd)
  BY <1>5 DEF ActivateEnd, SwapCurrent
<1>6. CASE Running(MarkPending)
  BY <1>6 DEF MarkPending
<1> QED
  BY <1>1, <1>2, <1>3, <1>4, <1>5, <1>6 DEF UpdateStep

LEMMA RollbackStep ==
    ASSUME RollbackInv, [Next]_vars
    PROVE  RollbackInv'
<1>1. TypeOK' /\ Supervised'
  BY TypeStep, SupervisedStep DEF RollbackInv
<1> SUFFICES (ProvenRuns /\ RunsCurrent)'
  BY <1>1 DEF RollbackInv
<1> USE DEF ProvenRuns, RunsCurrent, Alive, TypeOK, ChildTypeOK, To, At, Goto,
            Leave, pointers, rest, childVars, RollbackInv
<1>2. CASE ControlPlane \/ Link \/ UNCHANGED vars
  BY <1>2 DEF ControlPlane, Link, vars
<1>3. CASE DeadlineMissed \/ PayloadStopped \/ Restarted
  BY <1>3 DEF DeadlineMissed, PayloadStopped, Restarted
<1>4. CASE QuarantineFailed \/ Crash
  BY <1>4 DEF QuarantineFailed, Crash, NoChild
<1>5. CASE Running(RevokedDone) \/ Running(PayloadQuits) \/ Running(PayloadFault)
  BY <1>5 DEF Running, RevokedDone, PayloadQuits, PayloadFault, StageFailed,
              MarkFailed, PayloadCrash
<1> HIDE DEF ProvenRuns, RunsCurrent
<1> QED
  BY <1>2, <1>3, <1>4, <1>5, KnownGoodLaunch, KnownGoodHeartbeat,
     KnownGoodUpdate DEF Next

\* Only Activate's first swap moves previous.
LEMMA PreviousOrigin ==
    ASSUME [Next]_vars, previous' # previous
    PROVE  ActivateBegin
<1> USE DEF pointers, rest
<1>1. CASE ControlPlane \/ Link \/ UNCHANGED vars
  BY <1>1 DEF ControlPlane, Link, vars
<1>2. CASE Launch
  BY <1>2 DEF Launch, StartPayload, StartFails, StopRequested, HealthCommitted,
              ExitedEarly, ExitedSteady, PendingUpdate, Reaped, QuarantineBad,
              Quarantine, NothingToRollBackTo, RolledBack, Rollback
<1>3. CASE DeadlineMissed \/ PayloadStopped \/ Restarted \/ QuarantineFailed
           \/ Crash
  BY <1>3 DEF DeadlineMissed, PayloadStopped, Restarted, QuarantineFailed, Crash
<1>4. CASE Running(Heartbeat) \/ Running(HeartbeatUnmarked)
  BY <1>4 DEF Running, Heartbeat, HeartbeatOK, HeartbeatFailed, HeartbeatGone,
              HeartbeatUnauthorized, HeartbeatUnmarked
<1>5. CASE Running(UpdateStep)
  BY <1>5 DEF Running, UpdateStep, HandleCheckUpdate, StageUpdate, Stage,
              ActivateRefused, ActivateEnd, SwapCurrent, MarkPending
<1>6. CASE Running(RevokedDone) \/ Running(PayloadQuits) \/ Running(PayloadFault)
  BY <1>6 DEF Running, RevokedDone, PayloadQuits, PayloadFault, StageFailed,
              MarkFailed, PayloadCrash
<1> QED
  BY <1>1, <1>2, <1>3, <1>4, <1>5, <1>6 DEF Next

LEMMA SavedIsProven ==
    ASSUME RollbackInv, [Next]_vars, previous' # previous
    PROVE  previous' \subseteq proven \/ child.activated
<1>1. ActivateBegin
  BY PreviousOrigin
<1>2. At("activate") /\ previous' = {current}
  BY <1>1 DEF ActivateBegin, SavePrevious
<1>3. child.version \in proven
  BY <1>2 DEF RollbackInv, ProvenRuns, Alive, At
<1>4. ~child.activated => current = child.version
  BY <1>2 DEF RollbackInv, RunsCurrent, Alive, At
<1> QED
  BY <1>2, <1>3, <1>4

\* The version Activate saves for a later Rollback had a successful heartbeat,
\* whatever updates, forced updates, crashes, outages, rollbacks and lost
\* markers came before, unless the same process has activated before.
THEOREM RollbackIsKnownGood == Spec => LastKnownGood
<1>1. RollbackInv /\ [Next]_vars => RollbackInv'
  BY RollbackStep
<1>2. RollbackInv /\ [Next]_vars =>
        [previous' # previous =>
            previous' \subseteq proven \/ child.activated]_vars
  BY SavedIsProven
<1> QED
  BY RollbackInit, <1>1, <1>2, PTL DEF Spec, LastKnownGood

-----------------------------------------------------------------------------
(* Blame.                                                                  *)

\* Nothing has failed yet and the Control plane still answers.
Calm == faults = 0 /\ access = "ok"

\* What calm keeps: every heartbeat of a version that works gets through, so
\* its process ends under the first supervision loop only if it is bad, and
\* the launcher is never about to demote any other.
Blameless ==
    /\ quarantined \subseteq BadVersions
    /\ ~partitioned /\ ~deprovisioned
    /\ ~child.late /\ child.pc # "revoked"
    /\ In("watch") => /\ launcher.version = child.version
                      /\ At("exited") => child.version \in BadVersions
    /\ launcher.pc \in {"stopBad", "demote", "rollback"} =>
          launcher.version \in BadVersions

BlameInv == TypeOK /\ Supervised /\ (Calm => Blameless)

\* Failures are counted and a withdrawal is final.
LEMMA CalmBefore ==
    ASSUME TypeOK, [Next]_vars, Calm'
    PROVE  Calm /\ UNCHANGED faults
<1>0. faults \in Nat
  BY DEF TypeOK, EnvTypeOK
<1>1. ASSUME NEW k, Fault(k) \/ Cut
      PROVE  FALSE
  BY <1>0, <1>1 DEF Fault, Cut, Calm
<1> USE DEF Calm, envVars, cpVars, rest
<1>2. CASE ControlPlane
  BY <1>2 DEF ControlPlane, SetUpdatePolicy, Withdraw
<1>3. CASE Link
  BY <1>1, <1>3 DEF Link, Heal
<1>4. CASE Launch
  BY <1>4 DEF Launch, StartPayload, StartFails, StopRequested, HealthCommitted,
              ExitedEarly, ExitedSteady, PendingUpdate, Reaped, QuarantineBad,
              RolledBack, NothingToRollBackTo
<1>5. CASE DeadlineMissed \/ PayloadStopped \/ Restarted \/ UNCHANGED vars
  BY <1>5 DEF DeadlineMissed, PayloadStopped, Restarted, vars
<1>6. CASE QuarantineFailed \/ Crash \/ Running(PayloadFault)
           \/ Running(HeartbeatUnmarked)
  BY <1>1, <1>6 DEF QuarantineFailed, Crash, Running, PayloadFault,
              StageFailed, MarkFailed, PayloadCrash, HeartbeatUnmarked
<1>7. CASE Running(Heartbeat) \/ Running(UpdateStep)
  BY <1>7 DEF Running, Heartbeat, HeartbeatOK, HeartbeatFailed, HeartbeatGone,
              HeartbeatUnauthorized, UpdateStep, HandleCheckUpdate,
              StageUpdate, ActivateRefused, ActivateBegin, ActivateEnd,
              MarkPending
<1>8. CASE Running(RevokedDone) \/ Running(PayloadQuits)
  BY <1>8 DEF Running, RevokedDone, PayloadQuits
<1> QED
  BY <1>2, <1>3, <1>4, <1>5, <1>6, <1>7, <1>8 DEF Next

LEMMA BlameStep ==
    ASSUME BlameInv, [Next]_vars
    PROVE  BlameInv'
<1>1. TypeOK' /\ Supervised'
  BY TypeStep, SupervisedStep DEF BlameInv
<1> SUFFICES ASSUME Calm' PROVE Blameless'
  BY <1>1 DEF BlameInv
<1>2. TypeOK /\ Supervised /\ Blameless /\ Calm /\ UNCHANGED faults
  BY CalmBefore DEF BlameInv
<1>f. ASSUME NEW k PROVE ~Fault(k) /\ ~Cut
  BY <1>2 DEF Fault, Cut, Calm
<1> USE <1>2 DEF Blameless, Supervised, Alive, TypeOK, ChildTypeOK, In, To, At,
                 Goto, Leave, pointers, markers, rest, childVars, envVars
<1>3. CASE ControlPlane \/ Link \/ UNCHANGED vars
  BY <1>f, <1>3 DEF ControlPlane, Link, Heal, vars
<1>4. CASE StartPayload
  BY <1>4 DEF StartPayload, NoChild
<1>5. CASE \/ StartFails \/ StopRequested \/ NothingToRollBackTo
           \/ RolledBack \/ HealthCommitted \/ PendingUpdate
  BY <1>5 DEF StartFails, StopRequested, NothingToRollBackTo, RolledBack,
              Rollback, HealthCommitted, PendingUpdate
<1>6. CASE ExitedEarly \/ ExitedSteady \/ Reaped
  BY <1>6 DEF ExitedEarly, ExitedSteady, Reaped, Stopping
<1>7. CASE QuarantineBad
  BY <1>7 DEF QuarantineBad, Quarantine
<1>8. CASE DeadlineMissed
  BY <1>8 DEF DeadlineMissed
<1>9. CASE PayloadStopped \/ Restarted
  <2>1. CASE PayloadStopped
    <3>1. /\ child'.pc = "exited" /\ child'.version = child.version
          /\ child'.late = child.late
      BY <2>1 DEF PayloadStopped
    <3> QED
      BY <2>1, <3>1 DEF PayloadStopped, Stopping
  <2> QED
    BY <1>9, <2>1 DEF Restarted
<1>10. CASE \/ QuarantineFailed \/ Crash \/ Running(PayloadFault)
            \/ Running(HeartbeatUnmarked)
  BY <1>f, <1>10 DEF QuarantineFailed, Crash, Running, PayloadFault,
              StageFailed, MarkFailed, PayloadCrash, HeartbeatUnmarked
<1>11. CASE Running(Heartbeat)
  <2>1. HeartbeatOK /\ UNCHANGED launcher
    BY <1>11 DEF Running, Heartbeat, HeartbeatFailed, HeartbeatGone,
                 HeartbeatUnauthorized, Calm
  <2>2. child'.pc \in {"plan", "idle"} /\ ~child'.late
          /\ child'.version = child.version
    BY <2>1 DEF HeartbeatOK
  <2> QED
    BY <2>1, <2>2 DEF HeartbeatOK
<1>12. CASE Running(UpdateStep)
  <2>1. quarantined' = quarantined
    BY <1>12, QuarantineFixed DEF QuarantineBad, Running
  <2>2. UNCHANGED <<launcher, partitioned, deprovisioned>>
    BY <1>12 DEF Running, UpdateStep, HandleCheckUpdate, StageUpdate,
               ActivateRefused, ActivateBegin, ActivateEnd, MarkPending
  <2>3. /\ child'.pc \in {"idle", "stage", "activate", "swap", "mark"}
        /\ child'.version = child.version /\ child'.late = child.late
    BY <1>12 DEF Running, UpdateStep, HandleCheckUpdate, StageUpdate,
               ActivateRefused, ActivateBegin, ActivateEnd, MarkPending
  <2> QED
    BY <2>1, <2>2, <2>3
<1>13. CASE Running(RevokedDone) \/ Running(PayloadQuits)
  BY <1>13 DEF Running, RevokedDone, PayloadQuits
<1> HIDE DEF Blameless
<1> QED
  BY <1>3, <1>4, <1>5, <1>6, <1>7, <1>8, <1>9, <1>10, <1>11, <1>12, <1>13
  DEF Next, Launch

\* While nothing fails and the Control plane answers, only versions that
\* cannot commit are quarantined, whatever the update policy asks for and
\* however often a forced update restarts the payload.
THEOREM GoodIsNeverBlamed == Spec => []NoFalseBlame
<1>1. Init => BlameInv
  <2> SUFFICES ASSUME Init PROVE BlameInv
    OBVIOUS
  <2>1. TypeOK
    BY TypeInit
  <2> QED
    BY <2>1 DEF Init, PayloadInit, ChildInit, EnvInit, NoChild, BlameInv,
       Supervised, Alive, Blameless, In, At
<1>2. BlameInv => NoFalseBlame
  BY DEF BlameInv, Blameless, Calm, NoFalseBlame
<1> QED
  BY <1>1, <1>2, BlameStep, PTL DEF Spec

=============================================================================
