-------------------------- MODULE ValidationProofs --------------------------
(***************************************************************************)
(* Validation runs on a host that is installed and reinstalled: who owns   *)
(* the lock, what that keeps apart, and what an installation and a failed  *)
(* install-smoke leave behind.                                             *)
(***************************************************************************)
EXTENDS Validation, TLAPS

-----------------------------------------------------------------------------
(* Types.                                                                  *)

Locks == [run : Installers \cup {"none", "old"}, full : BOOLEAN]

\* A run that changes the host, from its first look at sshd on.
Mutating == Install \cup {"install", "verify", "rollback"}

\* A snapshot holds what its files can look like.
Snapshots ==
    {s \in [Footprint -> {"none", "other", "ours", "torn", "old", "new"}] :
        /\ s["ca"] \in {"none", "other", "ours"}
        /\ s["dropIn"] \in {"none", "other", "ours"}
        /\ s["config"] \in {"none", "torn", "old", "new"}}

\* Each kind of run keeps to its own steps, and an install-smoke has its
\* snapshot before it installs.
Placed ==
    \A r \in Installers :
        /\ pc[r] \in Mutating => req[r].check \in {"install-smoke", "agent-install"}
        /\ pc[r] \in {"trigger", "clear"} => req[r].check = "reboot-survival"
        /\ req[r].check = "agent-install" =>
              pc[r] \in Mutating \cup {"idle", "ended", "dead"}
        /\ req[r].check = "install-smoke" /\ pc[r] \in Mutating =>
              snap[r] \in Snapshots
        /\ pc[r] \in {"idle", "create", "writeLock", "judge", "recheck",
                      "remove", "retry", "begin"} => snap[r] = NoSnapshot

Typed ==
    /\ TypeOK
    /\ seen \in [Installers -> Locks]
    /\ snap \in [Installers -> Snapshots \cup {NoSnapshot}]
    /\ Placed

LEMMA TypedInit == Init => Typed
<1> SUFFICES ASSUME Init PROVE Typed
  OBVIOUS
<1>1. TypeOK
  <2>1. host \in HostType
    BY HostsAssumption DEF Init
  <2>2. lock \in [run : Installers \cup {"none", "old"}, full : BOOLEAN]
    <3>1. NoLock \in Locks /\ [run |-> "old", full |-> TRUE] \in Locks
      BY DEF NoLock, Locks
    <3> QED
      BY <3>1 DEF Init, Locks
  <2> QED
    BY <2>1, <2>2 DEF Init, TypeOK
<1>2. /\ seen \in [Installers -> Locks]
      /\ snap \in [Installers -> Snapshots \cup {NoSnapshot}]
  BY DEF Init, NoLock, Locks
<1>3. Placed
  BY DEF Init, Placed, Mutating, Install
<1> QED
  BY <1>1, <1>2, <1>3 DEF Typed

\* A part that gets a value of its kind leaves a host.
LEMMA PartSet ==
    ASSUME NEW h \in HostType
    PROVE  /\ \A v \in {"foreign", "loose", "strict"} :
                 [h EXCEPT !["chain"] = v] \in HostType
           /\ \A v \in {"none", "loose", "strict"} :
                 [h EXCEPT !["launcher"] = v] \in HostType
           /\ \A v \in {"none", "other", "ours"} :
                 [h EXCEPT !["ca"] = v] \in HostType
           /\ \A v \in {"none", "other", "ours"} :
                 [h EXCEPT !["dropIn"] = v] \in HostType
           /\ \A v \in BOOLEAN :
                 [h EXCEPT !["include"] = v] \in HostType
           /\ \A v \in {"none", "root", "acl", "granted"} :
                 [h EXCEPT !["principals"] = v] \in HostType
           /\ \A v \in {"none", "group", "headless", "ok"} :
                 [h EXCEPT !["account"] = v] \in HostType
           /\ \A v \in {"none", "loose", "root", "agent"} :
                 [h EXCEPT !["payload"] = v] \in HostType
           /\ \A v \in 0..2 :
                 [h EXCEPT !["current"] = v] \in HostType
           /\ \A v \in {"none", "torn", "old", "new"} :
                 [h EXCEPT !["config"] = v] \in HostType
           /\ \A v \in BOOLEAN :
                 [h EXCEPT !["configOwn"] = v] \in HostType
           /\ \A v \in BOOLEAN :
                 [h EXCEPT !["configDir"] = v] \in HostType
           /\ \A v \in {"none", "otherExe", "otherUser", "ours"} :
                 [h EXCEPT !["unit"] = v] \in HostType
           /\ \A v \in BOOLEAN :
                 [h EXCEPT !["override"] = v] \in HostType
           /\ \A v \in BOOLEAN :
                 [h EXCEPT !["service"] = v] \in HostType
           /\ \A v \in {"none", "other", "ours"} :
                 [h EXCEPT !["loaded"] = v] \in HostType
<1>1. \A v \in {"foreign", "loose", "strict"} : [h EXCEPT !["chain"] = v] \in HostType
  BY DEF HostType
<1>2. \A v \in {"none", "loose", "strict"} : [h EXCEPT !["launcher"] = v] \in HostType
  BY DEF HostType
<1>3. \A v \in {"none", "other", "ours"} : [h EXCEPT !["ca"] = v] \in HostType
  BY DEF HostType
<1>4. \A v \in {"none", "other", "ours"} : [h EXCEPT !["dropIn"] = v] \in HostType
  BY DEF HostType
<1>5. \A v \in BOOLEAN : [h EXCEPT !["include"] = v] \in HostType
  BY DEF HostType
<1>6. \A v \in {"none", "root", "acl", "granted"} : [h EXCEPT !["principals"] = v] \in HostType
  BY DEF HostType
<1>7. \A v \in {"none", "group", "headless", "ok"} : [h EXCEPT !["account"] = v] \in HostType
  BY DEF HostType
<1>8. \A v \in {"none", "loose", "root", "agent"} : [h EXCEPT !["payload"] = v] \in HostType
  BY DEF HostType
<1>9. \A v \in 0..2 : [h EXCEPT !["current"] = v] \in HostType
  BY DEF HostType
<1>10. \A v \in {"none", "torn", "old", "new"} : [h EXCEPT !["config"] = v] \in HostType
  BY DEF HostType
<1>11. \A v \in BOOLEAN : [h EXCEPT !["configOwn"] = v] \in HostType
  BY DEF HostType
<1>12. \A v \in BOOLEAN : [h EXCEPT !["configDir"] = v] \in HostType
  BY DEF HostType
<1>13. \A v \in {"none", "otherExe", "otherUser", "ours"} : [h EXCEPT !["unit"] = v] \in HostType
  BY DEF HostType
<1>14. \A v \in BOOLEAN : [h EXCEPT !["override"] = v] \in HostType
  BY DEF HostType
<1>15. \A v \in BOOLEAN : [h EXCEPT !["service"] = v] \in HostType
  BY DEF HostType
<1>16. \A v \in {"none", "other", "ours"} : [h EXCEPT !["loaded"] = v] \in HostType
  BY DEF HostType
<1> QED
  BY <1>1, <1>2, <1>3, <1>4, <1>5, <1>6, <1>7, <1>8, <1>9, <1>10, <1>11, <1>12, <1>13, <1>14, <1>15, <1>16

LEMMA HostFields ==
    ASSUME NEW h \in HostType
    PROVE  /\ h.sshd \in BOOLEAN
           /\ h.chain \in {"foreign", "loose", "strict"}
           /\ h.launcher \in {"none", "loose", "strict"}
           /\ h.ca \in {"none", "other", "ours"}
           /\ h.dropIn \in {"none", "other", "ours"}
           /\ h.include \in BOOLEAN
           /\ h.principals \in {"none", "root", "acl", "granted"}
           /\ h.account \in {"none", "group", "headless", "ok"}
           /\ h.payload \in {"none", "loose", "root", "agent"}
           /\ h.current \in 0..2
           /\ h.config \in {"none", "torn", "old", "new"}
           /\ h.configOwn \in BOOLEAN
           /\ h.configDir \in BOOLEAN
           /\ h.unit \in {"none", "otherExe", "otherUser", "ours"}
           /\ h.override \in BOOLEAN
           /\ h.service \in BOOLEAN
           /\ h.loaded \in {"none", "other", "ours"}
  BY DEF HostType

\* A step of an installation, on the installer's own program counter.
LEMMA InstallStepMoves ==
    ASSUME TypeOK, NEW r \in Installers, InstallStep(r)
    PROVE  /\ platform' = platform
           /\ pc[r] \in Install \cup {"install"}
           /\ pc'[r] \in Install \cup {"verify", "rollback"}
           /\ pc' = [pc EXCEPT ![r] = pc'[r]]
           /\ pc'[r] # pc[r]
<1> USE DEF TypeOK, Step
<1>1. CASE StartInstall(r)
  BY <1>1 DEF StartInstall, Install
<1>2. CASE tightenChain(r)
  BY <1>2 DEF tightenChain, Install
<1>3. CASE installLauncherBinary(r)
  BY <1>3 DEF installLauncherBinary, Install
<1>4. CASE writeCAPubkey(r)
  BY <1>4 DEF writeCAPubkey, Install
<1>5. CASE writeSSHDropIn(r)
  BY <1>5 DEF writeSSHDropIn, Install
<1>6. CASE ensureMacOSInclude(r)
  BY <1>6 DEF ensureMacOSInclude, Install
<1>7. CASE ensurePrincipalsDir(r)
  BY <1>7 DEF ensurePrincipalsDir, Install
<1>8. CASE ensureServiceAccount(r)
  BY <1>8 DEF ensureServiceAccount, Install
<1>9. CASE ensureServiceAccountDarwin(r)
  BY <1>9 DEF ensureServiceAccountDarwin, Install
<1>10. CASE grantPrincipalsAccess(r)
  BY <1>10 DEF grantPrincipalsAccess, Install
<1>11. CASE setupPayloadStore(r)
  BY <1>11 DEF setupPayloadStore, Install
<1>12. CASE chownTreeToServiceAccount(r)
  BY <1>12 DEF chownTreeToServiceAccount, Install
<1>13. CASE SaveConfigSystem(r)
  BY <1>13 DEF SaveConfigSystem, Install
<1>14. CASE grantConfigDirAccess(r)
  BY <1>14 DEF grantConfigDirAccess, Install
<1>15. CASE installService(r)
  BY <1>15 DEF installService, AfterService, Install
<1>16. CASE reinstallService(r)
  BY <1>16 DEF reinstallService, AfterService, Install
<1>17. CASE writeSystemdRestartOverride(r)
  BY <1>17 DEF writeSystemdRestartOverride, Install
<1>18. CASE startService(r)
  BY <1>18 DEF startService, Install
<1>19. CASE reloadSSHD(r)
  BY <1>19 DEF reloadSSHD, Install
<1>20. CASE StepFails(r)
  BY <1>20 DEF StepFails, Install
<1> QED
  BY <1>1, <1>2, <1>3, <1>4, <1>5, <1>6, <1>7, <1>8, <1>9, <1>10, <1>11, <1>12, <1>13, <1>14, <1>15, <1>16, <1>17, <1>18, <1>19, <1>20 DEF InstallStep

\* What a step of an installation makes of the host is a host.
LEMMA InstallStepHost ==
    ASSUME host \in HostType, NEW r \in Installers, InstallStep(r)
    PROVE  host' \in HostType
<1> USE DEF Set
<1>1. CASE StartInstall(r)
  BY <1>1, PartSet, HostFields DEF StartInstall
<1>2. CASE tightenChain(r)
  BY <1>2, PartSet, HostFields DEF tightenChain
<1>3. CASE installLauncherBinary(r)
  BY <1>3, PartSet, HostFields DEF installLauncherBinary
<1>4. CASE writeCAPubkey(r)
  BY <1>4, PartSet, HostFields DEF writeCAPubkey
<1>5. CASE writeSSHDropIn(r)
  BY <1>5, PartSet, HostFields DEF writeSSHDropIn
<1>6. CASE ensureMacOSInclude(r)
  BY <1>6, PartSet, HostFields DEF ensureMacOSInclude
<1>7. CASE ensurePrincipalsDir(r)
  BY <1>7, PartSet, HostFields DEF ensurePrincipalsDir
<1>8. CASE ensureServiceAccount(r)
  <2>1. [host EXCEPT !["account"] = "ok"] \in HostType
    BY PartSet
  <2> QED
    BY <1>8, <2>1 DEF ensureServiceAccount
<1>9. CASE ensureServiceAccountDarwin(r)
  <2>1. \A v \in {"group", "headless", "ok"} :
           [host EXCEPT !["account"] = v] \in HostType
    BY PartSet
  <2> QED
    BY <1>9, <2>1 DEF ensureServiceAccountDarwin
<1>10. CASE grantPrincipalsAccess(r)
  BY <1>10, PartSet, HostFields DEF grantPrincipalsAccess
<1>11. CASE setupPayloadStore(r)
  <2>1. CASE host.current = 0
    <3>1. [host EXCEPT !["current"] = 1] \in HostType
      <4>1. 1 \in 0..2
        OBVIOUS
      <4> QED
        BY <4>1, PartSet, Zenon
    <3>2. [[host EXCEPT !["current"] = 1] EXCEPT !["payload"] = "root"] \in HostType
      BY <3>1, PartSet
    <3> QED
      BY <1>11, <2>1, <3>2 DEF setupPayloadStore
  <2>2. CASE host.current # 0
    <3>1. /\ host.payload \in {"none", "loose", "root", "agent"}
          /\ \A v \in {"none", "loose", "root", "agent"} :
                [host EXCEPT !["payload"] = v] \in HostType
      BY PartSet, HostFields
    <3> QED
      BY <1>11, <2>2, <3>1 DEF setupPayloadStore
  <2> QED
    BY <2>1, <2>2
<1>12. CASE chownTreeToServiceAccount(r)
  BY <1>12, PartSet, HostFields DEF chownTreeToServiceAccount
<1>13. CASE SaveConfigSystem(r)
  <2>1. \A own \in BOOLEAN :
           [[host EXCEPT !["config"] = "torn"] EXCEPT !["configOwn"] = own]
              \in HostType
    <3>1. [host EXCEPT !["config"] = "torn"] \in HostType
      BY PartSet
    <3> QED
      BY <3>1, PartSet
  <2>2. [host EXCEPT !["config"] = "new"] \in HostType
    BY PartSet
  <2>3. \A own \in BOOLEAN : [host EXCEPT !["configOwn"] = own] \in HostType
    BY PartSet
  <2>4. /\ (host.configOwn /\ host.config # "none") \in BOOLEAN
        /\ (host.configOwn \/ checkServiceGroup) \in BOOLEAN
    BY HostFields DEF checkServiceGroup
  <2> QED
    BY <1>13, <2>1, <2>2, <2>3, <2>4 DEF SaveConfigSystem
<1>14. CASE grantConfigDirAccess(r)
  BY <1>14, PartSet, HostFields DEF grantConfigDirAccess
<1>15. CASE installService(r)
  <2>1. [[host EXCEPT !["unit"] = "none"] EXCEPT !["service"] = FALSE] \in HostType
    <3>1. [host EXCEPT !["unit"] = "none"] \in HostType
      BY PartSet
    <3> QED
      BY <3>1, PartSet
  <2>2. \A u \in {"none", "otherExe", "otherUser", "ours"} :
           [host EXCEPT !["unit"] = u] \in HostType
    BY PartSet
  <2>3. host.unit \in {"none", "otherExe", "otherUser", "ours"}
    BY HostFields
  <2> QED
    BY <1>15, <2>1, <2>2, <2>3 DEF installService
<1>16. CASE reinstallService(r)
  BY <1>16, PartSet, HostFields DEF reinstallService
<1>17. CASE writeSystemdRestartOverride(r)
  BY <1>17, PartSet, HostFields DEF writeSystemdRestartOverride
<1>18. CASE startService(r)
  BY <1>18, PartSet, HostFields DEF startService, CanRun
<1>19. CASE reloadSSHD(r)
  BY <1>19, PartSet, HostFields DEF reloadSSHD, DropInSeen
<1>20. CASE StepFails(r)
  BY <1>20, PartSet, HostFields DEF StepFails
<1> QED
  BY <1>1, <1>2, <1>3, <1>4, <1>5, <1>6, <1>7, <1>8, <1>9, <1>10, <1>11, <1>12, <1>13, <1>14, <1>15, <1>16, <1>17, <1>18, <1>19, <1>20 DEF InstallStep

\* A snapshot that is put back, a file that is torn, and a host that boots.
LEMMA OtherHosts ==
    ASSUME NEW h \in HostType
    PROVE  /\ \A s \in Snapshots : Restored(h, s) \in HostType
           /\ Booted(h) \in HostType
<1>1. ASSUME NEW s \in Snapshots PROVE Restored(h, s) \in HostType
  <2>1. /\ s["ca"] \in {"none", "other", "ours"}
        /\ s["dropIn"] \in {"none", "other", "ours"}
        /\ s["config"] \in {"none", "torn", "old", "new"}
        /\ (h.configOwn /\ s["config"] # "none") \in BOOLEAN
    BY DEF Snapshots
  <2>2. [h EXCEPT !["ca"] = s["ca"]] \in HostType
    BY <2>1, PartSet
  <2>3. [[h EXCEPT !["ca"] = s["ca"]] EXCEPT !["dropIn"] = s["dropIn"]] \in HostType
    BY <2>1, <2>2, PartSet
  <2>4. [[[h EXCEPT !["ca"] = s["ca"]] EXCEPT !["dropIn"] = s["dropIn"]]
            EXCEPT !["config"] = s["config"]] \in HostType
    BY <2>1, <2>3, PartSet
  <2>5. \A own \in BOOLEAN :
           [[[[h EXCEPT !["ca"] = s["ca"]] EXCEPT !["dropIn"] = s["dropIn"]]
               EXCEPT !["config"] = s["config"]] EXCEPT !["configOwn"] = own]
                 \in HostType
    BY <2>4, PartSet
  <2>6. [[[h EXCEPT !["ca"] = s["ca"]] EXCEPT !["dropIn"] = s["dropIn"]]
            EXCEPT !["config"] = s["config"]].configOwn = h.configOwn
    BY DEF HostType
  <2> QED
    BY <2>1, <2>5, <2>6 DEF Restored
<1>2. Booted(h) \in HostType
  <2>1. DropInSeen(h) \in {"none", "other", "ours"} /\ CanRun(h) \in BOOLEAN
    BY HostFields DEF DropInSeen, CanRun
  <2>2. [h EXCEPT !["loaded"] = DropInSeen(h)] \in HostType
    BY <2>1, PartSet
  <2>3. [[h EXCEPT !["loaded"] = DropInSeen(h)] EXCEPT !["service"] = CanRun(h)]
           \in HostType
    BY <2>1, <2>2, PartSet
  <2> QED
    BY <2>3 DEF Booted
<1> QED
  BY <1>1, <1>2

LEMMA TornHost ==
    ASSUME host \in HostType, NEW dying
    PROVE  Torn(dying) \in HostType
<1> DEFINE ca == IF \E p \in dying : pc[p] = "ca" THEN "other" ELSE host.ca
           dropIn == IF \E p \in dying : pc[p] = "dropIn" THEN "other" ELSE host.dropIn
<1>1. ca \in {"none", "other", "ours"} /\ dropIn \in {"none", "other", "ours"}
  BY HostFields
<1>2. [host EXCEPT !["ca"] = ca] \in HostType
  BY <1>1, PartSet
<1>3. [[host EXCEPT !["ca"] = ca] EXCEPT !["dropIn"] = dropIn] \in HostType
  BY <1>1, <1>2, PartSet
<1>4. [host EXCEPT !["ca"] = ca].dropIn = host.dropIn
  BY DEF HostType
<1> QED
  BY <1>3, <1>4 DEF Torn

\* The steps of a run that leave the host alone.
Quiet(r) ==
    \/ Invoke(r)
    \/ tryCreateLock(r)
    \/ WriteLockInfo(r)
    \/ breakIfStale(r)
    \/ breakLock(r)
    \/ Release(r)
    \/ Begin(r)
    \/ TriggerReboot(r)
    \/ ClearRebootState(r)
    \/ Verify(r)
    \/ writeEvidence(r)
    \/ appendBreadcrumb(r)

LEMMA NextCases ==
    ASSUME Next
    PROVE  \/ \E r \in Installers : Quiet(r) \/ Restore(r) \/ Kill(r)
           \/ /\ \E r \in Installers : InstallStep(r)
              /\ UNCHANGED <<req, lockVars, snap, verdict, rebootVars, logVars>>
           \/ SelfUpdate /\ UNCHANGED <<req, lockVars, snap, verdict, rebootVars, logVars>>
           \/ Hour \/ Reboot
  BY Zenon DEF Next, Quiet

LEMMA QuietFrame ==
    ASSUME TypeOK, NEW r \in Installers, Quiet(r)
    PROVE  host' = host /\ platform' = platform /\ req' = req
<1> USE DEF lockVars, rebootVars, logVars
<1>1. CASE Invoke(r)
  BY <1>1, Zenon DEF Invoke
<1>2. CASE tryCreateLock(r)
  BY <1>2, Zenon DEF tryCreateLock
<1>3. CASE WriteLockInfo(r)
  BY <1>3, Zenon DEF WriteLockInfo
<1>4. CASE breakIfStale(r)
  BY <1>4, Zenon DEF breakIfStale
<1>5. CASE breakLock(r)
  BY <1>5, Zenon DEF breakLock
<1>6. CASE Release(r)
  BY <1>6, Zenon DEF Release
<1>7. CASE Begin(r)
  BY <1>7, Zenon DEF Begin
<1>8. CASE TriggerReboot(r)
  BY <1>8, Zenon DEF TriggerReboot
<1>9. CASE ClearRebootState(r)
  BY <1>9, Zenon DEF ClearRebootState
<1>10. CASE Verify(r)
  BY <1>10, Zenon DEF Verify
<1>11. CASE writeEvidence(r)
  BY <1>11, Zenon DEF writeEvidence
<1>12. CASE appendBreadcrumb(r)
  BY <1>12, Zenon DEF appendBreadcrumb
<1> QED
  BY <1>1, <1>2, <1>3, <1>4, <1>5, <1>6, <1>7, <1>8, <1>9, <1>10, <1>11, <1>12 DEF Quiet

\* Where a step that leaves the host alone takes a run.
QuietEdge(r, to) ==
    \/ /\ pc[r] = "idle"
       /\ \/ to = "install" /\ req[r].check = "agent-install"
          \/ to = "create" /\ req[r].check # "agent-install"
          \/ to = "begin" /\ ~NeedsLock(req[r]) /\ req[r].check # "agent-install"
          \/ to = "ended"
    \/ pc[r] \in {"create", "retry"} /\ to \in {"writeLock", "judge", "ended"}
    \/ pc[r] = "writeLock" /\ to \in {"begin", "ended"}
    \/ pc[r] = "judge" /\ to \in {"recheck", "ended"}
    \/ pc[r] = "recheck" /\ to \in {"remove", "ended"}
    \/ pc[r] = "remove" /\ to \in {"retry", "ended"}
    \/ /\ pc[r] = "begin"
       /\ \/ to = "evidence"
          \/ to = "install" /\ req[r].check = "install-smoke"
          \/ to \in {"trigger", "clear"} /\ req[r].check = "reboot-survival"
    \/ pc[r] \in {"trigger", "clear"} /\ to = "evidence"
    \/ /\ pc[r] = "verify"
       /\ \/ to = "ended" /\ req[r].check = "agent-install"
          \/ to \in {"evidence", "rollback"} /\ req[r].check # "agent-install"
    \/ pc[r] = "evidence" /\ to \in {"crumb", "release"}
    \/ pc[r] = "crumb" /\ to = "release"
    \/ pc[r] = "release" /\ to \in {"unlink", "ended"}
    \/ pc[r] = "unlink" /\ to = "ended"

LEMMA QuietMoves ==
    ASSUME Typed, NEW r \in Installers, Quiet(r)
    PROVE  pc' = [pc EXCEPT ![r] = pc'[r]] /\ QuietEdge(r, pc'[r])
<1> USE DEF Typed, TypeOK, Goto, QuietEdge
<1>1. CASE Invoke(r)
  <2> DEFINE refused == ShouldSkip(req[r]) \/ ~CheckSafetyAllowed(req[r])
  <2>1. CASE req[r].check = "agent-install"
    <3>1. pc' = [pc EXCEPT ![r] = "install"]
      BY <1>1, <2>1 DEF Invoke
    <3> QED
      BY <1>1, <2>1, <3>1 DEF Invoke
  <2>2. CASE req[r].check # "agent-install" /\ refused
    <3>1. pc' = [pc EXCEPT ![r] = "ended"]
      BY <1>1, <2>2 DEF Invoke
    <3> QED
      BY <1>1, <3>1 DEF Invoke
  <2>3. CASE req[r].check # "agent-install" /\ ~refused /\ NeedsLock(req[r])
    <3>1. pc' = [pc EXCEPT ![r] = "create"]
      BY <1>1, <2>3 DEF Invoke
    <3> QED
      BY <1>1, <2>3, <3>1 DEF Invoke
  <2>4. CASE req[r].check # "agent-install" /\ ~refused /\ ~NeedsLock(req[r])
    <3>1. pc' = [pc EXCEPT ![r] = "begin"]
      BY <1>1, <2>4 DEF Invoke
    <3> QED
      BY <1>1, <2>4, <3>1 DEF Invoke
  <2> QED
    BY <2>1, <2>2, <2>3, <2>4
<1>2. CASE tryCreateLock(r)
  BY <1>2 DEF tryCreateLock
<1>3. CASE WriteLockInfo(r)
  BY <1>3 DEF WriteLockInfo
<1>4. CASE breakIfStale(r)
  BY <1>4 DEF breakIfStale
<1>5. CASE breakLock(r)
  BY <1>5 DEF breakLock, removeIfUnchanged
<1>6. CASE Release(r)
  BY <1>6 DEF Release
<1>7. CASE Begin(r)
  BY <1>7 DEF Begin, runDoctorCheck, RunBoundedFixture, Snapshot, ResumeOrArm
<1>8. CASE TriggerReboot(r)
  BY <1>8 DEF TriggerReboot
<1>9. CASE ClearRebootState(r)
  BY <1>9 DEF ClearRebootState
<1>10. CASE Verify(r)
  BY <1>10 DEF Verify
<1>11. CASE writeEvidence(r)
  BY <1>11 DEF writeEvidence
<1>12. CASE appendBreadcrumb(r)
  BY <1>12 DEF appendBreadcrumb
<1> QED
  BY <1>1, <1>2, <1>3, <1>4, <1>5, <1>6, <1>7, <1>8, <1>9, <1>10, <1>11, <1>12 DEF Quiet

\* What such a step does to the rest of the state.
LEMMA QuietData ==
    ASSUME Typed, NEW r \in Installers, Quiet(r)
    PROVE  /\ lock' \in Locks
           /\ stolen \subseteq stolen' /\ stolen' \subseteq Installers
           /\ seen' \in [Installers -> Locks]
           /\ verdict' \in [Installers -> {"none", "pass", "fail", "unclean"}]
           /\ armed' \in Installers \cup {"none"}
           /\ \/ snap' = snap /\ ~(pc[r] = "begin" /\ pc'[r] = "install")
              \/ /\ pc[r] = "begin" /\ pc'[r] = "install"
                 /\ snap' = [snap EXCEPT ![r] = [part \in Footprint |-> host[part]]]
<1>1. /\ lock \in Locks /\ NoLock \in Locks
      /\ \A run \in Installers : [run |-> run, full |-> FALSE] \in Locks
      /\ [lock EXCEPT !.full = TRUE] \in Locks
      /\ lock.run \in Installers \cup {"none", "old"}
  BY DEF Typed, TypeOK, Locks, NoLock
<1> USE DEF Typed, TypeOK, Goto, Verdict, lockVars, rebootVars, logVars
<1>2. CASE Invoke(r)
  BY <1>1, <1>2 DEF Invoke
<1>3. CASE tryCreateLock(r)
  BY <1>1, <1>3 DEF tryCreateLock
<1>4. CASE WriteLockInfo(r)
  BY <1>1, <1>4 DEF WriteLockInfo
<1>5. CASE breakIfStale(r)
  BY <1>1, <1>5 DEF breakIfStale
<1>6. CASE breakLock(r)
  BY <1>1, <1>6 DEF breakLock, removeIfUnchanged
<1>7. CASE Release(r)
  BY <1>1, <1>7 DEF Release
<1>8. CASE Begin(r)
  BY <1>1, <1>8 DEF Begin, runDoctorCheck, RunBoundedFixture, Snapshot, ResumeOrArm
<1>9. CASE TriggerReboot(r)
  BY <1>1, <1>9 DEF TriggerReboot
<1>10. CASE ClearRebootState(r)
  BY <1>1, <1>10 DEF ClearRebootState
<1>11. CASE Verify(r)
  BY <1>1, <1>11 DEF Verify
<1>12. CASE writeEvidence(r)
  BY <1>1, <1>12 DEF writeEvidence
<1>13. CASE appendBreadcrumb(r)
  BY <1>1, <1>13 DEF appendBreadcrumb
<1> QED
  BY <1>2, <1>3, <1>4, <1>5, <1>6, <1>7, <1>8, <1>9, <1>10, <1>11, <1>12, <1>13 DEF Quiet

LEMMA QuietTyped ==
    ASSUME Typed, NEW r \in Installers, Quiet(r)
    PROVE  Typed'
<1>1. host' = host /\ platform' = platform /\ req' = req
  BY QuietFrame DEF Typed
<1>2. pc' = [pc EXCEPT ![r] = pc'[r]] /\ QuietEdge(r, pc'[r])
  BY QuietMoves
<1>3. TypeOK' /\ seen' \in [Installers -> Locks]
  BY <1>1, <1>2, QuietData DEF Typed, TypeOK, QuietEdge, Locks
<1>4. /\ snap' \in [Installers -> Snapshots \cup {NoSnapshot}]
      /\ \A q \in Installers :
            \/ snap'[q] = snap[q] /\ ~(q = r /\ pc[r] = "begin" /\ pc'[r] = "install")
            \/ q = r /\ snap'[q] \in Snapshots /\ pc[r] = "begin" /\ pc'[r] = "install"
  <2>1. [part \in Footprint |-> host[part]] \in Snapshots
    BY HostFields DEF Typed, TypeOK, Footprint, Snapshots
  <2> QED
    BY <2>1, QuietData DEF Typed
<1>5. ASSUME NEW q \in Installers
      PROVE  pc'[q] = pc[q] \/ (q = r /\ QuietEdge(q, pc'[q]))
  BY <1>2 DEF Typed, TypeOK
<1>6. Placed'
  BY <1>1, <1>4, <1>5 DEF Typed, QuietEdge, Placed, Mutating, Install
<1> QED
  BY <1>3, <1>4, <1>6 DEF Typed

LEMMA TypedStep == Typed /\ [Next]_vars => Typed'
<1> SUFFICES ASSUME Typed, [Next]_vars PROVE Typed'
  OBVIOUS
<1> USE DEF lockVars, rebootVars, logVars, gatekeeperVars
<1>1. CASE UNCHANGED vars
  BY <1>1 DEF vars, Typed, TypeOK, Placed, NeedsLock
<1>2. ASSUME NEW r \in Installers, Quiet(r) PROVE Typed'
  BY <1>2, QuietTyped
<1>3. ASSUME NEW r \in Installers, Restore(r) PROVE Typed'
  <2>1. /\ UNCHANGED <<platform, req, lock, aged, seen, stolen, snap, armed>>
        /\ pc[r] = "rollback"
        /\ pc' = [pc EXCEPT ![r] = pc'[r]] /\ pc'[r] \in {"ended", "evidence"}
        /\ req[r].check = "agent-install" => pc'[r] = "ended"
        /\ verdict' \in [Installers -> {"none", "pass", "fail", "unclean"}]
    BY <1>3 DEF Restore, Goto, Verdict, Typed, TypeOK
  <2>2. host' \in HostType
    <3>1. CASE req[r].check = "agent-install"
      BY <1>3, <3>1 DEF Restore, Typed, TypeOK
    <3>2. CASE req[r].check # "agent-install"
      <4>1. snap[r] \in Snapshots
        BY <2>1, <3>2 DEF Typed, Placed, Mutating
      <4>2. \A part \in Footprint : [snap[r] EXCEPT ![part] = host[part]] \in Snapshots
        BY <4>1, HostFields DEF Typed, TypeOK, Footprint, Snapshots
      <4>3. /\ Restored(host, snap[r]) \in HostType
            /\ \A part \in Footprint :
                  Restored(host, [snap[r] EXCEPT ![part] = host[part]]) \in HostType
        BY <4>1, <4>2, OtherHosts DEF Typed, TypeOK
      <4> QED
        BY <1>3, <3>2, <4>3 DEF Restore
    <3> QED
      BY <3>1, <3>2
  <2> QED
    BY <2>1, <2>2 DEF Typed, TypeOK, Placed, Mutating, Install
<1>4. ASSUME NEW r \in Installers, Kill(r) PROVE Typed'
  <2>1. host' \in HostType
    BY <1>4, TornHost DEF Kill, Typed, TypeOK
  <2> QED
    BY <1>4, <2>1 DEF Kill, Goto, Typed, TypeOK, Placed, Mutating, Install
<1>5. ASSUME NEW r \in Installers, InstallStep(r),
             UNCHANGED <<req, lockVars, snap, verdict, rebootVars, logVars>>
      PROVE  Typed'
  <2>1. host' \in HostType
    BY <1>5, InstallStepHost DEF Typed, TypeOK
  <2>2. /\ platform' = platform /\ pc[r] \in Install \cup {"install"}
        /\ pc'[r] \in Install \cup {"verify", "rollback"}
        /\ pc' = [pc EXCEPT ![r] = pc'[r]]
    BY <1>5, InstallStepMoves DEF Typed
  <2> QED
    BY <1>5, <2>1, <2>2 DEF Typed, TypeOK, Placed, Mutating, Install
<1>6. CASE SelfUpdate /\ UNCHANGED <<req, lockVars, snap, verdict, rebootVars, logVars>>
  <2>1. host' \in HostType
    <3>1. 2 \in 0..2
      OBVIOUS
    <3>2. [host EXCEPT !["current"] = 2] \in HostType
      BY <3>1, PartSet, Zenon DEF Typed, TypeOK
    <3> QED
      BY <1>6, <3>2 DEF SelfUpdate, Set
  <2> QED
    BY <1>6, <2>1 DEF SelfUpdate, Typed, TypeOK, Placed
<1>7. CASE Hour
  BY <1>7 DEF Hour, Typed, TypeOK, Placed
<1>8. CASE Reboot
  <2>1. host' \in HostType
    BY <1>8, TornHost, OtherHosts DEF Reboot, Typed, TypeOK
  <2> QED
    BY <1>8, <2>1 DEF Reboot, Over, Typed, TypeOK, Placed, Mutating, Install
<1> QED
  BY <1>1, <1>2, <1>3, <1>4, <1>5, <1>6, <1>7, <1>8, NextCases

\* Every state of a host with validation runs is well typed: in particular
\* what a snapshot puts back and what a crash tears is a host again, so that
\* the next installation finds one of the cases it handles.
THEOREM TypeCorrect == Spec => []TypeOK
<1>1. Typed => TypeOK
  BY DEF Typed
<1> QED
  BY <1>1, TypedInit, TypedStep, PTL DEF Spec

\* Only a store that is empty is seeded; the Include, once there, stays; and
\* the drop-in is written by its own step.
LEMMA InstallStepParts ==
    ASSUME host \in HostType, NEW r \in Installers, InstallStep(r)
    PROVE  /\ host'.current = host.current \/ (host'.current = 1 /\ host.current = 0)
           /\ host.include => host'.include
           /\ host'.dropIn = host.dropIn \/ (host'.dropIn = "ours" /\ pc[r] = "dropIn")
<1> USE DEF Set, HostType
<1>1. CASE StartInstall(r)
  BY <1>1 DEF StartInstall
<1>2. CASE tightenChain(r)
  BY <1>2 DEF tightenChain
<1>3. CASE installLauncherBinary(r)
  BY <1>3 DEF installLauncherBinary
<1>4. CASE writeCAPubkey(r)
  BY <1>4 DEF writeCAPubkey
<1>5. CASE writeSSHDropIn(r)
  BY <1>5 DEF writeSSHDropIn, Step
<1>6. CASE ensureMacOSInclude(r)
  BY <1>6 DEF ensureMacOSInclude
<1>7. CASE ensurePrincipalsDir(r)
  BY <1>7 DEF ensurePrincipalsDir
<1>8. CASE ensureServiceAccount(r)
  BY <1>8 DEF ensureServiceAccount
<1>9. CASE ensureServiceAccountDarwin(r)
  BY <1>9 DEF ensureServiceAccountDarwin
<1>10. CASE grantPrincipalsAccess(r)
  BY <1>10 DEF grantPrincipalsAccess
<1>11. CASE setupPayloadStore(r)
  BY <1>11 DEF setupPayloadStore
<1>12. CASE chownTreeToServiceAccount(r)
  BY <1>12 DEF chownTreeToServiceAccount
<1>13. CASE SaveConfigSystem(r)
  BY <1>13 DEF SaveConfigSystem
<1>14. CASE grantConfigDirAccess(r)
  BY <1>14 DEF grantConfigDirAccess
<1>15. CASE installService(r)
  BY <1>15 DEF installService
<1>16. CASE reinstallService(r)
  BY <1>16 DEF reinstallService
<1>17. CASE writeSystemdRestartOverride(r)
  BY <1>17 DEF writeSystemdRestartOverride
<1>18. CASE startService(r)
  BY <1>18 DEF startService
<1>19. CASE reloadSSHD(r)
  BY <1>19 DEF reloadSSHD
<1>20. CASE StepFails(r)
  BY <1>20 DEF StepFails
<1> QED
  BY <1>1, <1>2, <1>3, <1>4, <1>5, <1>6, <1>7, <1>8, <1>9, <1>10, <1>11, <1>12, <1>13, <1>14, <1>15, <1>16, <1>17, <1>18, <1>19, <1>20 DEF InstallStep

\* The version an Agent runs never goes back through an installation, a
\* restored snapshot, a crash or a reboot.
THEOREM InstallNeverDowngrades == Spec => NeverDowngrades
<1>1. ASSUME Typed, [Next]_vars PROVE host'.current >= host.current
  <2>1. host.current \in 0..2 /\ host \in HostType
    BY <1>1, HostFields DEF Typed, TypeOK
  <2> SUFFICES \/ host'.current = host.current
               \/ host'.current = 1 /\ host.current = 0
               \/ host'.current = 2
    BY <2>1
  <2> USE DEF lockVars, rebootVars, logVars, gatekeeperVars
  <2>2. CASE UNCHANGED vars
    BY <2>2 DEF vars
  <2>3. ASSUME NEW r \in Installers, Quiet(r) PROVE host' = host
    BY <1>1, <2>3, QuietFrame DEF Typed
  <2>4. ASSUME NEW r \in Installers, Restore(r) PROVE host'.current = host.current
    BY <2>1, <2>4 DEF Restore, Restored, HostType
  <2>5. ASSUME NEW r \in Installers, Kill(r) PROVE host'.current = host.current
    BY <2>1, <2>5 DEF Kill, Torn, HostType
  <2>6. ASSUME NEW r \in Installers, InstallStep(r)
        PROVE  host'.current = host.current \/ (host'.current = 1 /\ host.current = 0)
    BY <2>1, <2>6, InstallStepParts
  <2>7. CASE SelfUpdate
    BY <2>1, <2>7 DEF SelfUpdate, Set, HostType
  <2>8. CASE Hour
    BY <2>8 DEF Hour
  <2>9. CASE Reboot
    <3>1. \A h \in HostType : Booted(h).current = h.current
      BY DEF Booted, HostType
    <3>2. Torn(Installers).current = host.current
      BY <2>1 DEF Torn, HostType
    <3> QED
      BY <2>1, <2>9, <3>1, <3>2, TornHost DEF Reboot
  <2> QED
    BY <1>1, <2>2, <2>3, <2>4, <2>5, <2>6, <2>7, <2>8, <2>9, NextCases
<1> QED
  BY <1>1, TypedInit, TypedStep, PTL DEF Spec, NeverDowngrades

-----------------------------------------------------------------------------
(* The lock.                                                               *)

\* A lock that was judged stale and not yet removed: its owner is gone, or
\* was robbed already, or the hour is still over and the lock still there.
JudgedStale ==
    \A r \in Installers : pc[r] \in {"recheck", "remove"} =>
        /\ seen[r].full
        /\ \/ seen[r].run \notin Installers
           \/ pc[seen[r].run] \in {"ended", "dead"}
           \/ seen[r].run \in stolen
           \/ aged /\ lock = seen[r]

\* The inductive invariant of the lock.
LockInv == Typed /\ JudgedStale /\ HoldersOwnTheLock

LEMMA LockInit == Init => LockInv
<1> SUFFICES ASSUME Init PROVE LockInv
  OBVIOUS
<1>1. Typed
  BY TypedInit
<1> QED
  BY <1>1 DEF LockInv, Init, JudgedStale, HoldersOwnTheLock, Holding, Install

\* A run that is over stays over, and one that holds the lock got there from
\* where it held it, or by creating it.
LEMMA LockElsewhere ==
    ASSUME LockInv, UNCHANGED <<lock, seen, stolen, req>>, aged => aged',
           \A q \in Installers :
              \/ pc'[q] = pc[q]
              \/ pc'[q] = "dead"
              \/ pc[q] \in Mutating /\ pc'[q] \in Mutating \cup {"ended", "evidence"}
    PROVE  JudgedStale' /\ HoldersOwnTheLock'
<1>1. ASSUME NEW q \in Installers, Holding(q)' PROVE Holding(q)
  BY <1>1 DEF Holding, Mutating, Install
<1>2. HoldersOwnTheLock'
  BY <1>1 DEF LockInv, HoldersOwnTheLock
<1>3. JudgedStale'
  BY DEF LockInv, JudgedStale, Mutating, Install
<1> QED
  BY <1>2, <1>3

LEMMA LockQuiet ==
    ASSUME LockInv, NEW r \in Installers, Quiet(r)
    PROVE  JudgedStale' /\ HoldersOwnTheLock'
<1>1. /\ req' = req /\ pc' = [pc EXCEPT ![r] = pc'[r]] /\ QuietEdge(r, pc'[r])
      /\ pc = [q \in Installers |-> pc[q]] /\ seen \in [Installers -> Locks]
      /\ lock \in Locks
  <2>1. req' = req
    BY QuietFrame DEF LockInv, Typed
  <2>2. pc' = [pc EXCEPT ![r] = pc'[r]] /\ QuietEdge(r, pc'[r])
    BY QuietMoves DEF LockInv
  <2>3. pc = [q \in Installers |-> pc[q]]
    BY DEF LockInv, Typed, TypeOK, Install
  <2> QED
    BY <2>1, <2>2, <2>3 DEF LockInv, Typed, TypeOK, Locks
<1>2. "none" \notin Installers /\ "old" \notin Installers
  BY InstallersAssumption
<1> USE DEF LockInv, JudgedStale, HoldersOwnTheLock, Holding, Goto, Install, lockVars
<1>3. CASE Invoke(r)
  BY <1>1, <1>2, <1>3 DEF Invoke, QuietEdge, NeedsLock
<1>4. CASE tryCreateLock(r)
  BY <1>1, <1>2, <1>4 DEF tryCreateLock, NoLock, QuietEdge
<1>5. CASE WriteLockInfo(r)
  <2>1. CASE /\ lock' = IF lock.run = r THEN [lock EXCEPT !.full = TRUE] ELSE lock
             /\ pc'[r] = "begin" /\ stolen' = stolen
    <3>1. lock'.run = lock.run /\ (lock.full => lock' = lock)
      BY <1>1, <2>1 DEF Locks
    <3>2. seen' = seen /\ aged' = aged /\ pc[r] = "writeLock"
      BY <1>5 DEF WriteLockInfo
    <3>3. HoldersOwnTheLock'
      BY <1>1, <2>1, <3>1, <3>2
    <3>4. JudgedStale'
      BY <1>1, <2>1, <3>1, <3>2
    <3> QED
      BY <3>3, <3>4
  <2>2. CASE /\ lock' = NoLock /\ pc'[r] = "ended"
             /\ stolen' = stolen \cup ({lock.run} \ {r, "none", "old"})
    <3>2. seen' = seen /\ aged' = aged /\ pc[r] = "writeLock"
      BY <1>5 DEF WriteLockInfo
    <3> QED
      BY <1>1, <1>2, <2>2, <3>2 DEF Locks
  <2> QED
    BY <1>1, <1>5, <2>1, <2>2 DEF WriteLockInfo
<1>6. CASE breakIfStale(r)
  BY <1>1, <1>2, <1>6 DEF breakIfStale, QuietEdge, Dead
<1>7. CASE breakLock(r)
  BY <1>1, <1>2, <1>7 DEF breakLock, removeIfUnchanged, QuietEdge
<1>8. CASE Release(r)
  BY <1>1, <1>2, <1>8 DEF Release, QuietEdge
<1>9. CASE Begin(r)
  BY <1>1, <1>2, <1>9 DEF Begin, QuietEdge
<1>10. CASE TriggerReboot(r)
  BY <1>1, <1>2, <1>10 DEF TriggerReboot, QuietEdge
<1>11. CASE ClearRebootState(r)
  BY <1>1, <1>2, <1>11 DEF ClearRebootState, QuietEdge
<1>12. CASE Verify(r)
  BY <1>1, <1>2, <1>12 DEF Verify, QuietEdge
<1>13. CASE writeEvidence(r)
  BY <1>1, <1>2, <1>13 DEF writeEvidence, QuietEdge
<1>14. CASE appendBreadcrumb(r)
  BY <1>1, <1>2, <1>14 DEF appendBreadcrumb, QuietEdge
<1> QED
  BY <1>3, <1>4, <1>5, <1>6, <1>7, <1>8, <1>9, <1>10, <1>11, <1>12, <1>13, <1>14 DEF Quiet

LEMMA LockStep == LockInv /\ [Next]_vars => LockInv'
<1> SUFFICES ASSUME LockInv, [Next]_vars PROVE LockInv'
  OBVIOUS
<1>1. Typed'
  BY TypedStep DEF LockInv
<1>2. pc = [q \in Installers |-> pc[q]]
  BY DEF LockInv, Typed, TypeOK
<1> SUFFICES JudgedStale' /\ HoldersOwnTheLock'
  BY <1>1 DEF LockInv
<1> USE DEF lockVars, rebootVars, logVars, gatekeeperVars
<1>3. CASE UNCHANGED vars
  BY <1>3, LockElsewhere DEF vars
<1>4. ASSUME NEW r \in Installers, Quiet(r) PROVE JudgedStale' /\ HoldersOwnTheLock'
  BY <1>4, LockQuiet
<1>5. ASSUME NEW r \in Installers, Restore(r) PROVE JudgedStale' /\ HoldersOwnTheLock'
  BY <1>2, <1>5, LockElsewhere DEF Restore, Goto, Mutating
<1>6. ASSUME NEW r \in Installers, Kill(r) PROVE JudgedStale' /\ HoldersOwnTheLock'
  BY <1>2, <1>6, LockElsewhere DEF Kill, Goto
<1>7. ASSUME NEW r \in Installers, InstallStep(r),
             UNCHANGED <<req, lockVars, snap, verdict, rebootVars, logVars>>
      PROVE  JudgedStale' /\ HoldersOwnTheLock'
  <2>1. /\ pc[r] \in Install \cup {"install"}
        /\ pc'[r] \in Install \cup {"verify", "rollback"}
        /\ pc' = [pc EXCEPT ![r] = pc'[r]]
    BY <1>7, InstallStepMoves DEF LockInv, Typed
  <2> QED
    BY <1>2, <1>7, <2>1, LockElsewhere DEF Mutating
<1>8. CASE SelfUpdate /\ UNCHANGED <<req, lockVars, snap, verdict, rebootVars, logVars>>
  BY <1>8, LockElsewhere DEF SelfUpdate
<1>9. CASE Hour
  BY <1>9, LockElsewhere DEF Hour
<1>10. CASE Reboot
  BY <1>10, LockElsewhere DEF Reboot
<1> QED
  BY <1>3, <1>4, <1>5, <1>6, <1>7, <1>8, <1>9, <1>10, NextCases

\* A mutating validation run that is under way owns the lock file, for any
\* number of runs, crashes, failed writes and judgements of a stale lock; the
\* only runs that do not are those whose lock another run has removed by its
\* name after it had judged a different one, or after an hour.
THEOREM MutualExclusion == Spec => []HoldersOwnTheLock
<1>1. LockInv => HoldersOwnTheLock
  BY DEF LockInv
<1> QED
  BY <1>1, LockInit, LockStep, PTL DEF Spec

-----------------------------------------------------------------------------
(* What the lock keeps apart.                                              *)

\* The documented use: an install-smoke is not run as an inspection, which
\* would take no lock.
SmokeTakesLock ==
    \A q \in Requests : q.check = "install-smoke" => q.safety # "inspect"

\* `agent install` has the host to itself.
Apart ==
    \A r, q \in Installers :
        r # q /\ ~Over(r) /\ ~Over(q) =>
            req[r].check # "agent-install" /\ req[q].check # "agent-install"

\* A run that still answers for the host it has changed or restored.
Engaged(r) ==
    \/ pc[r] \in Mutating
    \/ req[r].check = "install-smoke" /\ pc[r] \in {"evidence", "crumb", "release"}

LEMMA ApartStep ==
    ASSUME Typed, Apart, [Next]_vars
    PROVE  Apart'
<1>1. pc = [q \in Installers |-> pc[q]]
  BY DEF Typed, TypeOK
<1> USE DEF lockVars, rebootVars, logVars, gatekeeperVars
<1> DEFINE Back == \A q \in Installers : ~Over(q)' => ~Over(q)
<1>2. ASSUME Back, req' = req PROVE Apart'
  BY <1>2 DEF Apart
<1>3. CASE UNCHANGED vars
  BY <1>3 DEF vars, Apart, Over
<1>4. ASSUME NEW r \in Installers, Quiet(r) PROVE Apart'
  <2>1. req' = req
    BY <1>4, QuietFrame DEF Typed
  <2>2. CASE Invoke(r)
    <3>1. \A q \in Installers \ {r} : Over(q)' = Over(q)
      BY <1>1, <2>2 DEF Invoke, Goto, Over
    <3>2. \A q \in Installers \ {r} :
             ~Over(q) => req[q].check # "agent-install" /\ req[r].check # "agent-install"
      BY <2>2 DEF Invoke, Alone
    <3> QED
      BY <2>1, <3>1, <3>2 DEF Apart
  <2>3. CASE ~Invoke(r)
    <3>1. pc[r] # "idle"
      BY <1>4, <2>3 DEF Quiet, tryCreateLock, WriteLockInfo, breakIfStale,
         breakLock, removeIfUnchanged, Release, Begin, TriggerReboot,
         ClearRebootState, Verify, writeEvidence, appendBreadcrumb
    <3>2. pc' = [pc EXCEPT ![r] = pc'[r]] /\ QuietEdge(r, pc'[r])
      BY <1>4, QuietMoves
    <3>3. Back
      BY <1>1, <3>1, <3>2 DEF QuietEdge, Over
    <3> QED
      BY <1>2, <2>1, <3>3
  <2> QED
    BY <2>2, <2>3
<1>5. ASSUME NEW r \in Installers, Restore(r) PROVE Apart'
  BY <1>1, <1>2, <1>5 DEF Restore, Goto, Over
<1>6. ASSUME NEW r \in Installers, Kill(r) PROVE Apart'
  BY <1>1, <1>2, <1>6 DEF Kill, Goto, Over
<1>7. ASSUME NEW r \in Installers, InstallStep(r),
             UNCHANGED <<req, lockVars, snap, verdict, rebootVars, logVars>>
      PROVE  Apart'
  <2>1. pc[r] \in Install \cup {"install"} /\ pc' = [pc EXCEPT ![r] = pc'[r]]
    BY <1>7, InstallStepMoves DEF Typed
  <2> QED
    BY <1>1, <1>2, <1>7, <2>1 DEF Over, Install
<1>8. CASE SelfUpdate /\ UNCHANGED <<req, lockVars, snap, verdict, rebootVars, logVars>>
  BY <1>2, <1>8 DEF SelfUpdate, Over
<1>9. CASE Hour
  BY <1>2, <1>9 DEF Hour, Over
<1>10. CASE Reboot
  BY <1>1, <1>2, <1>10 DEF Reboot, Over
<1> QED
  BY <1>3, <1>4, <1>5, <1>6, <1>7, <1>8, <1>9, <1>10, NextCases

\* While no lock was stolen, a run that changes the host is the only one
\* that is engaged with it.
LEMMA Exclusive ==
    ASSUME LockInv, Apart, SmokeTakesLock, stolen = {},
           NEW r \in Installers, pc[r] \in Mutating,
           NEW q \in Installers, Engaged(q)
    PROVE  r = q
<1> SUFFICES ASSUME r # q PROVE FALSE
  OBVIOUS
<1>1. /\ ~Over(r) /\ ~Over(q)
      /\ req[r].check \in {"install-smoke", "agent-install"}
      /\ req[q].check \in {"install-smoke", "agent-install"}
  BY DEF Over, Engaged, Mutating, Install, LockInv, Typed, Placed
<1>2. req[r].check = "install-smoke" /\ req[q].check = "install-smoke"
  BY <1>1 DEF Apart
<1>3. NeedsLock(req[r]) /\ NeedsLock(req[q])
  BY <1>2 DEF SmokeTakesLock, NeedsLock, LockInv, Typed, TypeOK
<1>4. Holding(r) /\ Holding(q)
  BY <1>3 DEF Holding, Engaged, Mutating, Install
<1> QED
  BY <1>4 DEF LockInv, HoldersOwnTheLock

\* A run that does not move and is engaged finds the host as it left it,
\* except for the version a running Agent has updated itself to.
LEMMA HostStill ==
    ASSUME LockInv, Apart, SmokeTakesLock, stolen = {}, [Next]_vars,
           NEW q \in Installers, Engaged(q), pc'[q] = pc[q]
    PROVE  \/ host' = host
           \/ host' = [host EXCEPT !["current"] = 2] /\ host.current = 1
<1>1. pc = [p \in Installers |-> pc[p]] /\ host \in HostType
  BY DEF LockInv, Typed, TypeOK
<1>2. pc[q] \notin {"idle", "ended", "dead"}
  BY DEF Engaged, Mutating, Install
<1> USE DEF lockVars, rebootVars, logVars, gatekeeperVars
<1>3. CASE UNCHANGED vars
  BY <1>3 DEF vars
<1>4. ASSUME NEW r \in Installers, Quiet(r) PROVE host' = host
  BY <1>4, QuietFrame DEF LockInv, Typed
<1>5. ASSUME NEW r \in Installers, Restore(r) PROVE FALSE
  <2>1. r = q
    BY <1>5, Exclusive DEF Restore, Mutating
  <2> QED
    BY <1>1, <1>5, <2>1 DEF Restore, Goto
<1>6. ASSUME NEW r \in Installers, Kill(r) PROVE host' = host
  <2>1. r # q
    BY <1>1, <1>2, <1>6 DEF Kill, Goto
  <2>2. pc[r] \notin {"ca", "dropIn"}
    BY <2>1, Exclusive DEF Mutating, Install
  <2>3. host' = [[host EXCEPT !["ca"] = host.ca] EXCEPT !["dropIn"] = host.dropIn]
    <3>1. [host EXCEPT !["ca"] = host.ca].dropIn = host.dropIn
      BY <1>1 DEF HostType
    <3> QED
      BY <1>6, <2>2, <3>1 DEF Kill, Torn
  <2> QED
    BY <1>1, <2>3 DEF HostType
<1>7. ASSUME NEW r \in Installers, InstallStep(r) PROVE FALSE
  <2>1. pc[r] \in Install \cup {"install"} /\ pc'[r] # pc[r]
    BY <1>7, InstallStepMoves DEF LockInv, Typed
  <2>2. r = q
    BY <2>1, Exclusive DEF Mutating
  <2> QED
    BY <2>1, <2>2
<1>8. CASE SelfUpdate
  BY <1>8 DEF SelfUpdate, Set
<1>9. CASE Hour
  BY <1>9 DEF Hour
<1>10. CASE Reboot
  BY <1>1, <1>2, <1>10 DEF Reboot, Over
<1> QED
  BY <1>3, <1>4, <1>5, <1>6, <1>7, <1>8, <1>9, <1>10, NextCases

\* A run moves by a step of its own, or falls to the reboot.
LEMMA OwnStep ==
    ASSUME LockInv, [Next]_vars, NEW r \in Installers, pc'[r] # pc[r]
    PROVE  \/ Quiet(r) \/ Restore(r) \/ pc'[r] = "dead"
           \/ InstallStep(r) /\ UNCHANGED <<req, lockVars, snap, verdict, rebootVars, logVars>>
<1>1. pc = [p \in Installers |-> pc[p]]
  BY DEF LockInv, Typed, TypeOK
<1>2. CASE UNCHANGED vars
  BY <1>2 DEF vars, gatekeeperVars
<1>3. ASSUME NEW q \in Installers, Quiet(q) PROVE q = r
  BY <1>1, <1>3, QuietMoves DEF LockInv
<1>4. ASSUME NEW q \in Installers, Restore(q) PROVE q = r
  BY <1>1, <1>4 DEF Restore, Goto
<1>5. ASSUME NEW q \in Installers, Kill(q) PROVE pc'[r] = "dead"
  BY <1>1, <1>5 DEF Kill, Goto
<1>6. ASSUME NEW q \in Installers, InstallStep(q) PROVE q = r
  BY <1>1, <1>6, InstallStepMoves DEF LockInv, Typed
<1>7. CASE SelfUpdate
  BY <1>7 DEF SelfUpdate
<1>8. CASE Hour
  BY <1>8 DEF Hour, gatekeeperVars
<1>9. CASE Reboot
  BY <1>1, <1>9 DEF Reboot
<1> QED
  BY <1>2, <1>3, <1>4, <1>5, <1>6, <1>7, <1>8, <1>9, NextCases

-----------------------------------------------------------------------------
(* What an installation has put in place at each of its steps.             *)

PastReload     == {"verify"}
PastStart      == PastReload \cup {"reload"}
PastService    == PastStart \cup {"override", "start"}
PastConfigOwn  == PastService \cup {"configDir", "service", "reinstall"}
PastConfig     == PastConfigOwn \cup {"configOwn"}
PastPayloadOwn == PastConfig \cup {"truncate", "config"}
PastPayload    == PastPayloadOwn \cup {"payloadOwn"}
PastGrant      == PastPayload \cup {"payload"}
PastAccount    == PastGrant \cup {"grant"}
PastInclude    == PastAccount \cup {"principals", "account", "group", "user", "primary"}
PastDropIn     == PastInclude \cup {"include"}
PastCA         == PastDropIn \cup {"dropIn"}
PastLauncher   == PastCA \cup {"ca"}
PastChain      == PastLauncher \cup {"launcher"}

Done(p, h) ==
    /\ p \in PastChain \cup {"chain"} => h.sshd
    /\ p \in PastChain => h.chain # "loose"
    /\ p \in PastLauncher => h.launcher = "strict"
    /\ p \in PastCA => h.ca = "ours"
    /\ p \in PastDropIn => h.dropIn = "ours"
    /\ p \in PastInclude => h.include
    /\ p \in PastAccount => h.account \in {"headless", "ok"}
    /\ p \in PastGrant /\ platform = "linux" => h.principals = "granted"
    /\ p \in PastPayload => h.current # 0
    /\ p \in PastPayloadOwn => h.payload = "agent"
    /\ p \in PastConfig => h.config = "new"
    /\ p \in PastConfigOwn => h.configOwn
    /\ p \in PastService =>
          h.unit = "ours" \/ (h.unit = "otherUser" /\ platform = "linux")
    /\ p \in PastStart => h.service \/ h.account = "headless"
    /\ p \in PastReload => h.loaded = "ours"

\* On Linux the Include is part of the distribution's configuration.
LinuxIncludes == platform = "linux" => host.include

LEMMA InstallStepDone ==
    ASSUME Typed, LinuxIncludes, NEW r \in Installers, InstallStep(r),
           Done(pc[r], host)
    PROVE  Done(pc'[r], host') /\ LinuxIncludes'
<1>1. pc = [p \in Installers |-> pc[p]] /\ host \in HostType
      /\ platform \in {"linux", "darwin"} /\ platform' = platform
  BY InstallStepMoves DEF Typed, TypeOK
<1> USE <1>1 DEF Step, Set, HostType, LinuxIncludes
<1> USE DEF Done, PastReload, PastStart, PastService, PastConfigOwn, PastConfig,
        PastPayloadOwn, PastPayload, PastGrant, PastAccount, PastInclude,
        PastDropIn, PastCA, PastLauncher, PastChain
<1>2. CASE StartInstall(r)
  BY <1>2 DEF StartInstall
<1>3. CASE tightenChain(r)
  BY <1>3 DEF tightenChain
<1>4. CASE installLauncherBinary(r)
  BY <1>4 DEF installLauncherBinary
<1>5. CASE writeCAPubkey(r)
  BY <1>5 DEF writeCAPubkey
<1>6. CASE writeSSHDropIn(r)
  BY <1>6 DEF writeSSHDropIn
<1>7. CASE ensureMacOSInclude(r)
  BY <1>7 DEF ensureMacOSInclude
<1>8. CASE ensurePrincipalsDir(r)
  BY <1>8 DEF ensurePrincipalsDir
<1>9. CASE ensureServiceAccount(r)
  BY <1>9 DEF ensureServiceAccount, AccountExists
<1>10. CASE ensureServiceAccountDarwin(r)
  BY <1>10 DEF ensureServiceAccountDarwin
<1>11. CASE grantPrincipalsAccess(r)
  BY <1>11 DEF grantPrincipalsAccess
<1>12. CASE setupPayloadStore(r)
  <2>1. CASE host.current = 0
    <3>1. /\ pc[r] = "payload" /\ pc'[r] = "payloadOwn"
          /\ host' = [host EXCEPT !.current = 1, !.payload = "root"]
      BY <1>12, <2>1 DEF setupPayloadStore
    <3>2. /\ host'.current = 1 /\ host'.sshd = host.sshd /\ host'.chain = host.chain
          /\ host'.launcher = host.launcher /\ host'.ca = host.ca
          /\ host'.dropIn = host.dropIn /\ host'.include = host.include
          /\ host'.account = host.account /\ host'.principals = host.principals
      BY <3>1
    <3> QED
      BY <3>1, <3>2
  <2>2. CASE host.current # 0
    BY <1>12, <2>2 DEF setupPayloadStore
  <2> QED
    BY <2>1, <2>2
<1>13. CASE chownTreeToServiceAccount(r)
  BY <1>13 DEF chownTreeToServiceAccount
<1>14. CASE SaveConfigSystem(r)
  <2>1. CASE pc[r] = "truncate"
    <3>1. /\ pc[r] = "truncate" /\ pc'[r] = "config"
          /\ host' = [host EXCEPT !.config = "torn",
                                  !.configOwn = @ /\ host.config # "none"]
      BY <1>14, <2>1 DEF SaveConfigSystem
    <3>2. /\ host'.current = host.current /\ host'.sshd = host.sshd
          /\ host'.launcher = host.launcher /\ host'.ca = host.ca
          /\ host'.dropIn = host.dropIn /\ host'.include = host.include
          /\ host'.account = host.account /\ host'.principals = host.principals
          /\ host'.chain = host.chain /\ host'.payload = host.payload
      BY <3>1
    <3> QED
      BY <3>1, <3>2
  <2>2. CASE pc[r] = "config"
    BY <1>14, <2>2 DEF SaveConfigSystem
  <2>3. CASE pc[r] = "configOwn"
    BY <1>14, <2>3 DEF SaveConfigSystem, checkServiceGroup
  <2> QED
    BY <1>14, <2>1, <2>2, <2>3 DEF SaveConfigSystem
<1>15. CASE grantConfigDirAccess(r)
  BY <1>15 DEF grantConfigDirAccess
<1>16. CASE installService(r)
  <2>1. CASE detectServiceUnitDrift
    <3>1. /\ pc[r] = "service" /\ pc'[r] = "reinstall"
          /\ host' = [host EXCEPT !.unit = "none", !.service = FALSE]
      BY <1>16, <2>1 DEF installService
    <3>2. /\ host'.current = host.current /\ host'.sshd = host.sshd
          /\ host'.launcher = host.launcher /\ host'.ca = host.ca
          /\ host'.dropIn = host.dropIn /\ host'.include = host.include
          /\ host'.account = host.account /\ host'.principals = host.principals
          /\ host'.chain = host.chain /\ host'.payload = host.payload
          /\ host'.config = host.config /\ host'.configOwn = host.configOwn
      BY <3>1
    <3> QED
      BY <3>1, <3>2
  <2>2. CASE ~detectServiceUnitDrift
    BY <1>16, <2>2 DEF installService, AfterService, detectServiceUnitDrift
  <2> QED
    BY <2>1, <2>2
<1>17. CASE reinstallService(r)
  BY <1>17 DEF reinstallService, AfterService
<1>18. CASE writeSystemdRestartOverride(r)
  BY <1>18 DEF writeSystemdRestartOverride
<1>19. CASE startService(r)
  BY <1>19 DEF startService, CanRun
<1>20. CASE reloadSSHD(r)
  BY <1>20 DEF reloadSSHD, DropInSeen
<1>21. CASE StepFails(r)
  BY <1>21 DEF StepFails, Install
<1> QED
  BY <1>2, <1>3, <1>4, <1>5, <1>6, <1>7, <1>8, <1>9, <1>10, <1>11, <1>12, <1>13, <1>14, <1>15, <1>16, <1>17, <1>18, <1>19, <1>20, <1>21 DEF InstallStep

-----------------------------------------------------------------------------
(* What the host owes to an installation and to a failed install-smoke.    *)

\* A drop-in that a snapshot has seen is still there when the run that took
\* the snapshot may have to put it back.
SnapOnHost(r) ==
    req[r].check = "install-smoke" /\ pc[r] \in Mutating =>
        (snap[r]["dropIn"] = "ours" => host.dropIn = "ours")

\* The inductive invariant.
HealInv ==
    /\ LockInv /\ Apart /\ LinuxIncludes
    /\ FailedSmokeRestores
    /\ stolen = {} => \A r \in Installers : Done(pc[r], host) /\ SnapOnHost(r)

LEMMA HealInit == Init => HealInv
<1> SUFFICES ASSUME Init PROVE HealInv
  OBVIOUS
<1>1. LockInv
  BY LockInit
<1>2. \A r \in Installers : pc[r] = "idle"
  BY DEF Init
<1>3. Apart /\ FailedSmokeRestores
  BY <1>2 DEF Apart, Over, FailedSmokeRestores
<1>4. LinuxIncludes
  BY DEF Init, LinuxIncludes
<1>5. \A r \in Installers : Done(pc[r], host) /\ SnapOnHost(r)
  BY <1>2 DEF Done, SnapOnHost, Mutating, Install, PastReload, PastStart,
     PastService, PastConfigOwn, PastConfig, PastPayloadOwn, PastPayload,
     PastGrant, PastAccount, PastInclude, PastDropIn, PastCA, PastLauncher,
     PastChain
<1> QED
  BY <1>1, <1>3, <1>4, <1>5 DEF HealInv

\* What no step takes away: the platform, the requests, a theft, and the
\* Include.
LEMMA Lasting ==
    ASSUME Typed, [Next]_vars
    PROVE  /\ platform' = platform /\ req' = req /\ stolen \subseteq stolen'
           /\ host.include => host'.include
<1>1. host \in HostType
  BY DEF Typed, TypeOK
<1> USE DEF lockVars, rebootVars, logVars, gatekeeperVars
<1>2. CASE UNCHANGED vars
  BY <1>2 DEF vars
<1>3. ASSUME NEW r \in Installers, Quiet(r)
      PROVE  platform' = platform /\ req' = req /\ stolen \subseteq stolen' /\ host' = host
  BY <1>3, QuietFrame, QuietData DEF Typed
<1>4. ASSUME NEW r \in Installers, Restore(r)
      PROVE  UNCHANGED <<platform, req, stolen>> /\ host'.include = host.include
  BY <1>1, <1>4 DEF Restore, Restored, HostType
<1>5. ASSUME NEW r \in Installers, Kill(r)
      PROVE  UNCHANGED <<platform, req, stolen>> /\ host'.include = host.include
  BY <1>1, <1>5 DEF Kill, Torn, HostType
<1>6. ASSUME NEW r \in Installers, InstallStep(r)
      PROVE  platform' = platform /\ (host.include => host'.include)
  BY <1>1, <1>6, InstallStepMoves, InstallStepParts DEF Typed
<1>7. CASE SelfUpdate /\ UNCHANGED <<req, lockVars, snap, verdict, rebootVars, logVars>>
  BY <1>1, <1>7 DEF SelfUpdate, Set, HostType
<1>8. CASE Hour
  BY <1>8 DEF Hour
<1>9. CASE Reboot
  <2>1. \A h \in HostType : Booted(h).include = h.include
    BY DEF Booted, HostType
  <2>2. Torn(Installers).include = host.include
    BY <1>1 DEF Torn, HostType
  <2> QED
    BY <1>1, <1>9, <2>1, <2>2, TornHost DEF Reboot
<1> QED
  BY <1>2, <1>3, <1>4, <1>5, <1>6, <1>7, <1>8, <1>9, NextCases

\* A run's snapshot and verdict are its own.
LEMMA OwnRecords ==
    ASSUME Typed, [Next]_vars, NEW r \in Installers, pc'[r] = pc[r]
    PROVE  snap'[r] = snap[r] /\ verdict'[r] = verdict[r]
<1>1. /\ pc = [p \in Installers |-> pc[p]] /\ verdict = [p \in Installers |-> verdict[p]]
      /\ snap = [p \in Installers |-> snap[p]]
  BY DEF Typed, TypeOK
<1> USE DEF lockVars, rebootVars, logVars, gatekeeperVars
<1>2. CASE UNCHANGED vars
  BY <1>2 DEF vars
<1>3. ASSUME NEW q \in Installers, Quiet(q)
      PROVE  snap'[r] = snap[r] /\ verdict'[r] = verdict[r]
  <2>1. q # r
    BY <1>1, <1>3, QuietMoves DEF QuietEdge
  <2>2. snap'[r] = snap[r]
    BY <1>1, <1>3, <2>1, QuietData
  <2>3. verdict'[r] = verdict[r]
    BY <1>1, <1>3, <2>1 DEF Quiet, Invoke, tryCreateLock, WriteLockInfo,
       breakIfStale, breakLock, Release, Begin, runDoctorCheck,
       RunBoundedFixture, Snapshot, ResumeOrArm, TriggerReboot,
       ClearRebootState, Verify, writeEvidence, appendBreadcrumb, Verdict
  <2> QED
    BY <2>2, <2>3
<1>4. ASSUME NEW q \in Installers, Restore(q)
      PROVE  snap'[r] = snap[r] /\ verdict'[r] = verdict[r]
  BY <1>1, <1>4 DEF Restore, Goto, Verdict
<1>5. ASSUME NEW q \in Installers, Kill(q)
      PROVE  snap'[r] = snap[r] /\ verdict'[r] = verdict[r]
  BY <1>5 DEF Kill
<1>6. CASE Hour \/ Reboot
  BY <1>6 DEF Hour, Reboot
<1> QED
  BY <1>2, <1>3, <1>4, <1>5, <1>6, NextCases

\* What an installation has done by each of its steps stays done.
LEMMA DoneStep ==
    ASSUME HealInv, SmokeTakesLock, [Next]_vars, stolen = {}, NEW r \in Installers
    PROVE  Done(pc[r], host)'
<1>1. /\ Typed /\ LinuxIncludes /\ Done(pc[r], host) /\ host \in HostType
      /\ platform' = platform
  BY Lasting DEF HealInv, LockInv, Typed, TypeOK
<1> SUFFICES ASSUME pc'[r] \in PastChain \cup {"chain"} PROVE Done(pc[r], host)'
  BY DEF Done, PastReload, PastStart, PastService, PastConfigOwn, PastConfig,
     PastPayloadOwn, PastPayload, PastGrant, PastAccount, PastInclude, PastDropIn,
     PastCA, PastLauncher, PastChain
<1>2. CASE pc'[r] = pc[r]
  <2>1. Engaged(r)
    BY <1>2 DEF Engaged, Mutating, Install, PastReload, PastStart, PastService,
       PastConfigOwn, PastConfig, PastPayloadOwn, PastPayload, PastGrant,
       PastAccount, PastInclude, PastDropIn, PastCA, PastLauncher, PastChain
  <2>2. CASE host' = host
    BY <1>1, <1>2, <2>2 DEF Done
  <2>3. CASE host' = [host EXCEPT !["current"] = 2]
    BY <1>1, <1>2, <2>3 DEF Done, HostType
  <2> QED
    BY <1>2, <2>1, <2>2, <2>3, HostStill DEF HealInv
<1>3. CASE pc'[r] # pc[r]
  <2>1. CASE InstallStep(r)
    BY <1>1, <2>1, InstallStepDone DEF Done
  <2>2. CASE Quiet(r)
    <3>1. QuietEdge(r, pc'[r])
      BY <1>1, <2>2, QuietMoves
    <3> QED
      BY <3>1 DEF QuietEdge, PastReload, PastStart, PastService, PastConfigOwn,
         PastConfig, PastPayloadOwn, PastPayload, PastGrant, PastAccount,
         PastInclude, PastDropIn, PastCA, PastLauncher, PastChain
  <2>3. CASE Restore(r) \/ pc'[r] = "dead"
    <3>1. pc'[r] \in {"ended", "evidence", "dead"}
      BY <1>1, <2>3 DEF Restore, Goto, Typed, TypeOK
    <3> QED
      BY <3>1 DEF PastReload, PastStart, PastService, PastConfigOwn,
         PastConfig, PastPayloadOwn, PastPayload, PastGrant, PastAccount,
         PastInclude, PastDropIn, PastCA, PastLauncher, PastChain
  <2> QED
    BY <1>3, <2>1, <2>2, <2>3, OwnStep DEF HealInv
<1> QED
  BY <1>2, <1>3

LEMMA SnapOnHostStep ==
    ASSUME HealInv, SmokeTakesLock, [Next]_vars, stolen = {}, NEW r \in Installers
    PROVE  SnapOnHost(r)'
<1>1. Typed /\ SnapOnHost(r) /\ host \in HostType /\ req' = req
  BY Lasting DEF HealInv, LockInv, Typed, TypeOK
<1> SUFFICES ASSUME req[r].check = "install-smoke", pc'[r] \in Mutating,
                    snap'[r]["dropIn"] = "ours"
             PROVE  host'.dropIn = "ours"
  BY <1>1 DEF SnapOnHost
<1>2. CASE pc'[r] = pc[r]
  <2>1. Engaged(r) /\ host.dropIn = "ours"
    BY <1>1, <1>2, OwnRecords DEF Engaged, SnapOnHost
  <2>2. host' = host \/ host' = [host EXCEPT !["current"] = 2]
    BY <1>2, <2>1, HostStill DEF HealInv
  <2> QED
    BY <1>1, <2>1, <2>2 DEF HostType
<1>3. CASE pc'[r] # pc[r]
  <2>1. CASE InstallStep(r) /\ UNCHANGED <<req, lockVars, snap, verdict, rebootVars, logVars>>
    <3>1. pc[r] \in Mutating
      BY <1>1, <2>1, InstallStepMoves DEF Typed, Mutating
    <3> QED
      BY <1>1, <2>1, <3>1, InstallStepParts DEF SnapOnHost
  <2>2. CASE Quiet(r)
    <3>1. QuietEdge(r, pc'[r]) /\ host' = host
      BY <1>1, <2>2, QuietMoves, QuietFrame DEF Typed
    <3>2. \/ pc[r] = "verify" /\ pc'[r] = "rollback"
          \/ pc[r] = "begin" /\ pc'[r] = "install"
      BY <3>1 DEF QuietEdge, Mutating, Install
    <3>3. CASE pc[r] = "verify"
      <4>1. snap'[r] = snap[r]
        BY <1>1, <2>2, <3>3, QuietData
      <4> QED
        BY <1>1, <3>1, <3>3, <4>1 DEF SnapOnHost, Mutating
    <3>4. CASE pc[r] = "begin"
      BY <1>1, <2>2, <3>1, <3>2, <3>4, QuietData DEF Typed, Footprint
    <3> QED
      BY <3>2, <3>3, <3>4
  <2>3. CASE Restore(r) \/ pc'[r] = "dead"
    BY <1>1, <2>3 DEF Restore, Goto, Typed, TypeOK, Mutating, Install
  <2> QED
    BY <1>3, <2>1, <2>2, <2>3, OwnStep DEF HealInv
<1> QED
  BY <1>2, <1>3

LEMMA RestoresStep ==
    ASSUME HealInv, SmokeTakesLock, [Next]_vars
    PROVE  FailedSmokeRestores'
<1>1. /\ Typed /\ Typed' /\ host \in HostType /\ req' = req
      /\ stolen \subseteq stolen' /\ Placed
  BY Lasting, TypedStep DEF HealInv, LockInv, Typed, TypeOK
<1> SUFFICES ASSUME stolen = {}, NEW r \in Installers,
                    req[r].check = "install-smoke",
                    verdict'[r] = "fail", snap'[r] # NoSnapshot,
                    pc'[r] \in {"evidence", "crumb", "release"}
             PROVE  snap'[r] = [part \in Footprint |-> host'[part]]
  BY <1>1 DEF FailedSmokeRestores
<1>2. CASE pc'[r] = pc[r]
  <2>1. Engaged(r) /\ snap'[r] = snap[r] /\ verdict'[r] = verdict[r]
    BY <1>1, <1>2, OwnRecords DEF Engaged
  <2>2. snap[r] = [part \in Footprint |-> host[part]]
    BY <1>2, <2>1 DEF HealInv, FailedSmokeRestores
  <2>3. host' = host \/ host' = [host EXCEPT !["current"] = 2]
    BY <1>2, <2>1, HostStill DEF HealInv
  <2>4. \A part \in Footprint : host'[part] = host[part]
    BY <1>1, <2>3 DEF HostType, Footprint
  <2> QED
    BY <2>1, <2>2, <2>4
<1>3. CASE pc'[r] # pc[r]
  <2>1. ~InstallStep(r)
    BY <1>1, InstallStepMoves DEF Typed, Install
  <2>2. CASE Quiet(r)
    <3>1. QuietEdge(r, pc'[r]) /\ host' = host
      BY <1>1, <2>2, QuietMoves, QuietFrame DEF Typed
    <3>2. pc[r] \in {"begin", "verify", "evidence", "crumb"}
      BY <1>1, <3>1 DEF QuietEdge, Placed
    <3>3. CASE pc[r] = "begin"
      BY <1>1, <2>2, <3>3, QuietData DEF Placed
    <3>4. CASE pc[r] = "verify"
      <4>1. Verify(r)
        BY <2>2, <3>4 DEF Quiet, Invoke, tryCreateLock, WriteLockInfo,
           breakIfStale, breakLock, removeIfUnchanged, Release, Begin,
           TriggerReboot, ClearRebootState, writeEvidence, appendBreadcrumb
      <4>2. verdict'[r] = "pass"
        BY <1>1, <4>1 DEF Verify, Verdict, Goto, Typed, TypeOK
      <4> QED
        BY <4>2
    <3>5. CASE pc[r] \in {"evidence", "crumb"}
      <4>1. writeEvidence(r) \/ appendBreadcrumb(r)
        BY <2>2, <3>5 DEF Quiet, Invoke, tryCreateLock, WriteLockInfo,
           breakIfStale, breakLock, removeIfUnchanged, Release, Begin,
           TriggerReboot, ClearRebootState, Verify
      <4>2. snap' = snap /\ verdict' = verdict
        BY <4>1 DEF writeEvidence, appendBreadcrumb
      <4> QED
        BY <3>1, <3>5, <4>2 DEF HealInv, FailedSmokeRestores
    <3> QED
      BY <3>2, <3>3, <3>4, <3>5
  <2>3. CASE Restore(r)
    <3>1. /\ pc[r] = "rollback" /\ snap' = snap
          /\ host' = Restored(host, snap[r])
      BY <1>1, <2>3 DEF Restore, Verdict, Typed, TypeOK
    <3>2. snap[r] \in Snapshots
      BY <1>1, <3>1 DEF Placed, Mutating
    <3>3. \A part \in Footprint : host'[part] = snap[r][part]
      BY <1>1, <3>1 DEF Restored, HostType, Footprint
    <3> QED
      BY <3>1, <3>2, <3>3 DEF Snapshots
  <2> QED
    BY <1>3, <2>1, <2>2, <2>3, OwnStep DEF HealInv
<1> QED
  BY <1>2, <1>3

LEMMA HealStep == SmokeTakesLock /\ HealInv /\ [Next]_vars => HealInv'
<1> SUFFICES ASSUME SmokeTakesLock, HealInv, [Next]_vars PROVE HealInv'
  OBVIOUS
<1>1. LockInv'
  BY LockStep DEF HealInv
<1>2. Apart'
  BY ApartStep DEF HealInv, LockInv
<1>3. LinuxIncludes' /\ stolen \subseteq stolen'
  BY Lasting DEF HealInv, LockInv, LinuxIncludes
<1>4. FailedSmokeRestores'
  BY RestoresStep
<1>5. ASSUME stolen' = {}, NEW r \in Installers
      PROVE  Done(pc[r], host)' /\ SnapOnHost(r)'
  BY <1>3, <1>5, DoneStep, SnapOnHostStep
<1> QED
  BY <1>1, <1>2, <1>3, <1>4, <1>5 DEF HealInv

\* After the last step the doctor finds nothing that installing can repair.
LEMMA VerifiedHealthy ==
    ASSUME Typed, NEW r \in Installers, pc[r] = "verify", Done(pc[r], host)
    PROVE  /\ Doctor \subseteq BeyondInstall
           /\ host.loaded = "ours"
           /\ host.unit \in {"ours"} \cup
                             (IF platform = "linux" THEN {"otherUser"} ELSE {})
<1>1. /\ host.sshd /\ host.chain \in {"foreign", "strict"}
      /\ host.launcher = "strict" /\ host.ca = "ours"
      /\ host.dropIn = "ours" /\ host.include
      /\ host.account \in {"headless", "ok"}
      /\ platform = "linux" => host.principals = "granted"
      /\ host.payload = "agent" /\ host.configOwn
      /\ host.unit = "ours" \/ (host.unit = "otherUser" /\ platform = "linux")
      /\ host.service \/ host.account = "headless"
      /\ host.loaded = "ours"
      /\ platform \in {"linux", "darwin"}
  BY HostFields DEF Typed, TypeOK, Done, PastReload, PastStart, PastService,
     PastConfigOwn, PastConfig, PastPayloadOwn, PastPayload, PastGrant,
     PastAccount, PastInclude, PastDropIn, PastCA, PastLauncher, PastChain
<1>2. ASSUME NEW c \in Checks, ~Grade(c) PROVE c \in BeyondInstall
  <2>1. c \in {"command-binary", "principals-dir", "service-running"}
    BY <1>1, <1>2 DEF Checks, Grade, checkSSHD, checkCAPubkey, checkSSHDropIn,
       AccountExists, checkServiceGroup, checkConfigOwnership, checkPayloadDir,
       checkSSHDEffectiveConfig, DropInSeen
  <2>2. CASE c = "command-binary"
    BY <1>1, <1>2, <2>2 DEF Grade, checkPrincipalsCommandBinary, BeyondInstall, Checks
  <2>3. CASE c = "principals-dir"
    BY <1>1, <1>2, <2>3 DEF Grade, checkPrincipalsDirPerms, BeyondInstall, Checks
  <2>4. CASE c = "service-running"
    BY <1>1, <1>2, <2>4 DEF Grade, BeyondInstall, Checks
  <2> QED
    BY <2>1, <2>2, <2>3, <2>4
<1> QED
  BY <1>1, <1>2 DEF Doctor

\* An installation that returns without an error has healed the host: from
\* any host, complete or torn, after any number of earlier installations,
\* kills and reboots, the doctor fails nothing that installing can repair.
THEOREM InstallationHeals == SmokeTakesLock => (Spec => []InstallHeals)
<1> SUFFICES ASSUME SmokeTakesLock PROVE Spec => []InstallHeals
  OBVIOUS
<1>1. HealInv => InstallHeals
  BY VerifiedHealthy DEF HealInv, LockInv, InstallHeals
<1>2. HealInv /\ [Next]_vars => HealInv'
  BY HealStep
<1> QED
  BY <1>1, <1>2, HealInit, PTL DEF Spec

\* A failed install-smoke that could restore leaves its footprint as it
\* found it, whatever other runs do while it writes its evidence.
THEOREM SmokeRestores == SmokeTakesLock => (Spec => []FailedSmokeRestores)
<1> SUFFICES ASSUME SmokeTakesLock PROVE Spec => []FailedSmokeRestores
  OBVIOUS
<1>1. HealInv => FailedSmokeRestores
  BY DEF HealInv
<1>2. HealInv /\ [Next]_vars => HealInv'
  BY HealStep
<1> QED
  BY <1>1, <1>2, HealInit, PTL DEF Spec

\* The drop-in appears only when the launcher, locked down, and the CA key it
\* refers to are in place; restoring a snapshot never brings it back alone.
THEOREM DropInBacked == SmokeTakesLock => (Spec => DropInLandsBacked)
<1> SUFFICES ASSUME SmokeTakesLock PROVE Spec => DropInLandsBacked
  OBVIOUS
<1>1. HealInv /\ [Next]_vars => HealInv'
  BY HealStep
<1>2. ASSUME HealInv, [Next]_vars, host'.dropIn = "ours", host.dropIn # "ours",
             stolen = {}
      PROVE  host.launcher = "strict" /\ host.ca = "ours"
  <2>1. /\ Typed /\ host \in HostType
        /\ \A r \in Installers : Done(pc[r], host) /\ SnapOnHost(r)
    BY <1>2 DEF HealInv, LockInv, Typed, TypeOK
  <2> USE DEF lockVars, rebootVars, logVars, gatekeeperVars
  <2>2. CASE UNCHANGED vars
    BY <1>2, <2>2 DEF vars
  <2>3. ASSUME NEW r \in Installers, Quiet(r) PROVE FALSE
    BY <1>2, <2>1, <2>3, QuietFrame DEF Typed
  <2>4. ASSUME NEW r \in Installers, Restore(r) PROVE FALSE
    <3>1. pc[r] = "rollback" /\ req[r].check = "install-smoke"
      BY <1>2, <2>1, <2>4 DEF Restore, Typed, Placed, Mutating
    <3>2. snap[r] \in Snapshots
      BY <2>1, <3>1 DEF Typed, Placed, Mutating
    <3>3. host'.dropIn \in {snap[r]["dropIn"], host.dropIn}
      <4>1. \A s : Restored(host, s).dropIn = s["dropIn"]
        BY <2>1 DEF Restored, HostType
      <4>2. \A part \in Footprint :
               [snap[r] EXCEPT ![part] = host[part]]["dropIn"]
                  \in {snap[r]["dropIn"], host.dropIn}
        BY <3>2 DEF Snapshots, Footprint
      <4> QED
        BY <2>4, <3>1, <4>1, <4>2 DEF Restore
    <3> QED
      BY <1>2, <2>1, <3>1, <3>3 DEF SnapOnHost, Mutating
  <2>5. ASSUME NEW r \in Installers, Kill(r) PROVE FALSE
    BY <1>2, <2>1, <2>5 DEF Kill, Torn, HostType
  <2>6. ASSUME NEW r \in Installers, InstallStep(r)
        PROVE  host.launcher = "strict" /\ host.ca = "ours"
    <3>1. pc[r] = "dropIn"
      BY <1>2, <2>1, <2>6, InstallStepParts
    <3> QED
      BY <2>1, <3>1 DEF Done, PastLauncher, PastCA
  <2>7. CASE SelfUpdate
    BY <1>2, <2>1, <2>7 DEF SelfUpdate, Set, HostType
  <2>8. CASE Hour
    BY <1>2, <2>8 DEF Hour
  <2>9. CASE Reboot
    <3>1. \A h \in HostType : Booted(h).dropIn = h.dropIn
      BY DEF Booted, HostType
    <3>2. Torn(Installers).dropIn \in {"other", host.dropIn}
      BY <2>1 DEF Torn, HostType
    <3> QED
      BY <1>2, <2>1, <2>9, <3>1, <3>2, TornHost DEF Reboot
  <2> QED
    BY <1>2, <2>2, <2>3, <2>4, <2>5, <2>6, <2>7, <2>8, <2>9, NextCases
<1> QED
  BY <1>1, <1>2, HealInit, PTL DEF Spec, DropInLandsBacked

=============================================================================
