---------------------------- MODULE Validation ----------------------------
(***************************************************************************)
(* `uncluster validate` (internal/validate, internal/cli/validate_cmd.go)  *)
(* on a host that is installed and reinstalled: the lock that keeps two    *)
(* mutating runs apart, the checks, the evidence and breadcrumb they leave *)
(* and the two phases of reboot-survival. A run is a process of its own;   *)
(* it may be killed at any step, and what it had taken or written stays.   *)
(***************************************************************************)
EXTENDS Gatekeeper, FiniteSets

CONSTANT
    Requests   \* the invocations: what is checked, in which safety class

ASSUME RequestsAssumption ==
    Requests \subseteq
        [check  : {"doctor", "bounded-fixture", "install-smoke",
                   "reboot-survival", "agent-install"},
         safety : {"inspect", "bounded", "privileged", "disruptive"},
         allow  : BOOLEAN,
         force  : BOOLEAN]

\* A run is told from a lock that nobody, or an earlier run, has left.
ASSUME InstallersAssumption == Installers \cap {"none", "old"} = {}

VARIABLES
    req,        \* the invocation of each run
    lock,       \* validation.lock: whose it is, and whether it is written
    aged,       \* the lock is more than staleLockAfter old
    seen,       \* the lock each run read and judged stale
    snap,       \* the footprint each run has a snapshot of
    verdict,    \* what each run's check returned
    armed,      \* reboot-survival.json: the run that armed it
    rebooting,  \* a reboot has been triggered
    started,    \* when each run was started; 0 before
    crumbs,     \* validation.jsonl
    stolen      \* history: the owners whose lock another run removed

lockVars == <<lock, aged, seen, stolen>>
rebootVars == <<armed, rebooting>>
logVars == <<started, crumbs>>
vars == <<gatekeeperVars, faults, req, lockVars, snap, verdict, rebootVars, logVars>>

NoLock == [run |-> "none", full |-> FALSE]

\* A run that is over, in whatever way.
Over(r) == pc[r] \in {"idle", "ended", "dead"}

Dead(r) == r \in Installers => pc[r] \in {"ended", "dead"}

\* The regular files of the install-smoke footprint; the principals
\* directory is one of its paths, but a directory is skipped.
Footprint == {"ca", "dropIn", "config"}

NoSnapshot == [part \in Footprint |-> "unread"]

NeedsLock(q) == q.check # "agent-install" /\ q.safety # "inspect"

Holding(r) ==
    /\ NeedsLock(req[r])
    /\ pc[r] \in Install \cup {"writeLock", "begin", "install", "verify",
                               "rollback", "trigger", "clear", "evidence",
                               "crumb", "release"}

TypeOK ==
    /\ platform \in {"linux", "darwin"}
    /\ host \in HostType
    /\ pc \in [Installers -> Install \cup
                 {"idle", "create", "writeLock", "judge", "recheck", "remove",
                  "retry", "begin", "install", "verify", "rollback", "trigger",
                  "clear", "evidence", "crumb", "release", "unlink", "ended",
                  "dead"}]
    /\ req \in [Installers -> Requests]
    /\ lock \in [run : Installers \cup {"none", "old"}, full : BOOLEAN]
    /\ verdict \in [Installers -> {"none", "pass", "fail", "unclean"}]
    /\ armed \in Installers \cup {"none"}
    /\ stolen \subseteq Installers

\* A host as an earlier installation, or none, has left it, and perhaps the
\* lock of a run that died.
Init ==
    /\ platform \in {"linux", "darwin"}
    /\ host \in {h \in Hosts :
                    IF platform = "linux"
                    THEN h.include /\ h.principals # "acl"
                           /\ h.account \in {"none", "ok"}
                    ELSE h.principals # "granted"}
    /\ pc = [r \in Installers |-> "idle"]
    /\ req \in [Installers -> Requests]
    /\ lock \in {NoLock, [run |-> "old", full |-> TRUE]}
    /\ aged = FALSE
    /\ seen = [r \in Installers |-> NoLock]
    /\ snap = [r \in Installers |-> NoSnapshot]
    /\ verdict = [r \in Installers |-> "none"]
    /\ armed = "none" /\ rebooting = FALSE
    /\ started = [r \in Installers |-> 0] /\ crumbs = {}
    /\ stolen = {}
    /\ faults = 0

Goto(r, to) == pc' = [pc EXCEPT ![r] = to]

Verdict(r, v) == verdict' = [verdict EXCEPT ![r] = v]

-----------------------------------------------------------------------------
(* The gate and the lock.                                                  *)

\* The verdict of the run that was started last, on the same check at this
\* commit and on a clean tree.
ShouldSkip(q) ==
    /\ ~q.force
    /\ \E c \in crumbs :
          /\ c.check = q.check /\ c.result = "pass"
          /\ \A d \in crumbs : d.check = q.check => d.ts <= c.ts

\* Inspecting and bounded runs need no permission.
CheckSafetyAllowed(q) ==
    q.safety \in {"privileged", "disruptive"} => q.allow

\* `agent install` takes no lock; the operator runs it alone.
Alone(r) ==
    \A q \in Installers \ {r} :
        Over(q) \/ "agent-install" \notin {req[q].check, req[r].check}

Invoke(r) ==
    /\ pc[r] = "idle"
    /\ Alone(r)
    /\ Goto(r, IF req[r].check = "agent-install" THEN "install"
               ELSE IF ShouldSkip(req[r]) \/ ~CheckSafetyAllowed(req[r]) THEN "ended"
               ELSE IF NeedsLock(req[r]) THEN "create"
               ELSE "begin")
    /\ UNCHANGED <<platform, host, faults, req, lockVars, snap, verdict,
                   rebootVars, logVars>>

\* O_CREATE|O_EXCL; the second attempt is the last.
tryCreateLock(r) ==
    /\ pc[r] \in {"create", "retry"}
    /\ IF lock = NoLock
       THEN /\ lock' = [run |-> r, full |-> FALSE]
            /\ aged' = FALSE
            /\ Goto(r, "writeLock")
       ELSE /\ Goto(r, IF pc[r] = "create" THEN "judge" ELSE "ended")
            /\ UNCHANGED <<lock, aged>>
    /\ UNCHANGED <<platform, host, faults, req, seen, stolen, snap, verdict,
                   rebootVars, logVars>>

\* A file that is removed in the meantime swallows the write. A write that
\* fails removes the file.
WriteLockInfo(r) ==
    /\ pc[r] = "writeLock"
    /\ \/ /\ lock' = IF lock.run = r THEN [lock EXCEPT !.full = TRUE] ELSE lock
          /\ Goto(r, "begin")
          /\ UNCHANGED <<faults, stolen>>
       \/ /\ Fails("step")
          /\ lock' = NoLock
          /\ stolen' = stolen \cup ({lock.run} \ {r, "none", "old"})
          /\ Goto(r, "ended")
    /\ UNCHANGED <<platform, host, req, aged, seen, snap, verdict, rebootVars,
                   logVars>>

\* Mutant: a lock that does not parse is broken like a stale one.
breakUnparseable(r) ==
    /\ pc[r] = "judge"
    /\ IF lock # NoLock /\ (~lock.full \/ aged \/ Dead(lock.run))
       THEN /\ seen' = [seen EXCEPT ![r] = lock]
            /\ Goto(r, "recheck")
       ELSE Goto(r, "ended") /\ UNCHANGED seen
    /\ UNCHANGED <<platform, host, faults, req, lock, aged, stolen, snap,
                   verdict, rebootVars, logVars>>

\* Vanished, in creation, or held: the run gives up. The process id of a
\* dead owner may have been taken by another process.
breakIfStale(r) ==
    /\ pc[r] = "judge"
    /\ \/ /\ lock.full
          /\ aged \/ Dead(lock.run)
          /\ seen' = [seen EXCEPT ![r] = lock]
          /\ Goto(r, "recheck")
       \/ /\ ~aged \/ ~lock.full
          /\ Goto(r, "ended")
          /\ UNCHANGED seen
    /\ UNCHANGED <<platform, host, faults, req, lock, aged, stolen, snap,
                   verdict, rebootVars, logVars>>

\* The file is read again and compared, and then removed by its name.
removeIfUnchanged(r) ==
    \/ /\ pc[r] = "recheck"
       /\ Goto(r, IF lock # NoLock /\ lock = seen[r] THEN "remove" ELSE "ended")
       /\ UNCHANGED <<lock, stolen>>
    \/ /\ pc[r] = "remove"
       /\ Goto(r, IF lock = NoLock THEN "ended" ELSE "retry")
       /\ lock' = NoLock
       /\ stolen' = stolen \cup
             {q \in Installers : lock.run = q /\ (lock # seen[r] \/ aged)}

breakLock(r) ==
    /\ removeIfUnchanged(r)
    /\ UNCHANGED <<platform, host, faults, req, aged, seen, snap, verdict,
                   rebootVars, logVars>>

\* A lock that parses and is another's is left; what does not parse is taken
\* for the run's own. The file is then removed by its name.
Release(r) ==
    /\ \/ /\ pc[r] = "release"
          /\ Goto(r, IF NeedsLock(req[r]) /\ lock # NoLock
                        /\ (lock.full => lock.run = r)
                     THEN "unlink" ELSE "ended")
          /\ UNCHANGED <<lock, stolen>>
       \/ /\ pc[r] = "unlink"
          /\ Goto(r, "ended")
          /\ lock' = NoLock
          /\ stolen' = stolen \cup ({lock.run} \ {r, "none", "old"})
    /\ UNCHANGED <<platform, host, faults, req, aged, seen, snap, verdict,
                   rebootVars, logVars>>

-----------------------------------------------------------------------------
(* The checks.                                                             *)

\* Every check that looks at the host loads the configuration first.
Healthy == host.config # "torn" /\ Doctor = {}

runDoctorCheck(r) ==
    /\ req[r].check = "doctor"
    /\ Goto(r, "evidence")
    /\ Verdict(r, IF Healthy THEN "pass" ELSE "fail")
    /\ UNCHANGED <<snap, armed, rebooting, faults>>

\* Works in a directory of its own, which is removed either way.
RunBoundedFixture(r) ==
    /\ req[r].check = "bounded-fixture"
    /\ Goto(r, "evidence")
    /\ \/ Verdict(r, "pass") /\ UNCHANGED faults
       \/ Verdict(r, "fail") /\ Fails("step")
    /\ UNCHANGED <<snap, armed, rebooting>>

Snapshot(r) ==
    /\ req[r].check = "install-smoke"
    /\ IF host.config = "torn"
       THEN Goto(r, "evidence") /\ Verdict(r, "fail") /\ UNCHANGED snap
       ELSE /\ Goto(r, "install")
            /\ snap' = [snap EXCEPT ![r] = [part \in Footprint |-> host[part]]]
            /\ UNCHANGED verdict
    /\ UNCHANGED <<armed, rebooting, faults>>

\* Phase 2 if a run is armed, phase 1 otherwise. The state is saved before
\* the reboot is triggered.
ResumeOrArm(r) ==
    /\ req[r].check = "reboot-survival"
    /\ \/ /\ armed # "none"
          /\ Goto(r, "clear")
          /\ Verdict(r, IF Healthy THEN "pass" ELSE "fail")
          /\ UNCHANGED armed
       \/ /\ armed = "none" /\ Healthy
          /\ armed' = r
          /\ Goto(r, "trigger")
          /\ UNCHANGED verdict
       \/ /\ armed = "none" /\ ~Healthy
          /\ Goto(r, "evidence")
          /\ Verdict(r, "fail")
          /\ UNCHANGED armed
    /\ UNCHANGED <<snap, rebooting, faults>>

Begin(r) ==
    /\ pc[r] = "begin"
    /\ \/ runDoctorCheck(r) \/ RunBoundedFixture(r) \/ Snapshot(r)
       \/ ResumeOrArm(r)
    /\ started' = [started EXCEPT ![r] =
                     1 + Cardinality({q \in Installers : started[q] # 0})]
    /\ UNCHANGED <<platform, host, req, lockVars, crumbs>>

\* A trigger that fails is rolled back.
TriggerReboot(r) ==
    /\ pc[r] = "trigger"
    /\ \/ rebooting' = TRUE /\ Verdict(r, "pass") /\ UNCHANGED <<armed, faults>>
       \/ Fails("step") /\ armed' = "none" /\ Verdict(r, "fail")
             /\ UNCHANGED rebooting
    /\ Goto(r, "evidence")
    /\ UNCHANGED <<platform, host, req, lockVars, snap, logVars>>

ClearRebootState(r) ==
    /\ pc[r] = "clear"
    /\ armed' = "none"
    /\ Goto(r, "evidence")
    /\ UNCHANGED <<platform, host, faults, req, lockVars, snap, verdict,
                   rebooting, logVars>>

\* The installation returned: `agent install` is done, install-smoke asks
\* the doctor.
Verify(r) ==
    /\ pc[r] = "verify"
    /\ IF req[r].check = "agent-install" THEN Goto(r, "ended") /\ UNCHANGED verdict
       ELSE IF Healthy THEN Goto(r, "evidence") /\ Verdict(r, "pass")
       ELSE Goto(r, "rollback") /\ UNCHANGED verdict
    /\ UNCHANGED <<platform, host, faults, req, lockVars, snap, rebootVars, logVars>>

\* Mutant: files that were not there before are not removed.
RestoredExisting(h, s) ==
    [part \in DOMAIN h |->
        IF part \in Footprint /\ s[part] # "none" THEN s[part] ELSE h[part]]

\* Each file gets its bytes back, or is removed if it was not there.
Restored(h, s) ==
    [h EXCEPT !.ca = s["ca"], !.dropIn = s["dropIn"], !.config = s["config"],
              !.configOwn = @ /\ s["config"] # "none"]

\* One path that cannot be restored does not keep the others from it.
Restore(r) ==
    /\ pc[r] = "rollback"
    /\ IF req[r].check = "agent-install"
       THEN Goto(r, "ended") /\ UNCHANGED <<host, verdict, faults>>
       ELSE /\ Goto(r, "evidence")
            /\ \/ /\ host' = Restored(host, snap[r])
                  /\ Verdict(r, "fail")
                  /\ UNCHANGED faults
               \/ \E part \in Footprint :
                     /\ Fails("step")
                     /\ host' = Restored(host, [snap[r] EXCEPT ![part] = host[part]])
                     /\ Verdict(r, "unclean")
    /\ UNCHANGED <<platform, req, lockVars, snap, rebootVars, logVars>>

\* Evidence that cannot be written leaves no breadcrumb either.
writeEvidence(r) ==
    /\ pc[r] = "evidence"
    /\ \/ Goto(r, "crumb") /\ UNCHANGED faults
       \/ Fails("step") /\ Goto(r, "release")
    /\ UNCHANGED <<platform, host, req, lockVars, snap, verdict, rebootVars, logVars>>

appendBreadcrumb(r) ==
    /\ pc[r] = "crumb"
    /\ \/ /\ crumbs' = crumbs \cup
                {[check |-> req[r].check, ts |-> started[r],
                  result |-> IF verdict[r] = "pass" THEN "pass" ELSE "fail"]}
          /\ UNCHANGED faults
       \/ Fails("step") /\ UNCHANGED crumbs
    /\ Goto(r, "release")
    /\ UNCHANGED <<platform, host, req, lockVars, snap, verdict, rebootVars, started>>

-----------------------------------------------------------------------------
(* The surroundings.                                                       *)

\* An hour passes over a lock.
Hour ==
    /\ lock.full /\ ~aged
    /\ Fails("hour")
    /\ aged' = TRUE
    /\ UNCHANGED <<gatekeeperVars, req, lock, seen, stolen, snap, verdict,
                   rebootVars, logVars>>

Kill(r) ==
    /\ ~Over(r)
    /\ Fails("crash")
    /\ Goto(r, "dead")
    /\ host' = Torn({r})
    /\ UNCHANGED <<platform, req, lockVars, snap, verdict, rebootVars, logVars>>

\* The reboot that was triggered takes every run with it.
Reboot ==
    /\ rebooting
    /\ rebooting' = FALSE
    /\ pc' = [r \in Installers |-> IF Over(r) THEN pc[r] ELSE "dead"]
    /\ host' = Booted(Torn(Installers))
    /\ UNCHANGED <<platform, faults, req, lockVars, snap, verdict, armed, logVars>>

Next ==
    \/ \E r \in Installers :
          \/ Invoke(r)
          \/ tryCreateLock(r) \/ WriteLockInfo(r) \/ breakIfStale(r)
          \/ breakLock(r) \/ Release(r)
          \/ Begin(r) \/ TriggerReboot(r) \/ ClearRebootState(r)
          \/ Verify(r) \/ Restore(r) \/ writeEvidence(r) \/ appendBreadcrumb(r)
          \/ Kill(r)
    \/ /\ \/ \E r \in Installers : InstallStep(r)
          \/ SelfUpdate
       /\ UNCHANGED <<req, lockVars, snap, verdict, rebootVars, logVars>>
    \/ Hour
    \/ Reboot

Spec == Init /\ [][Next]_vars

-----------------------------------------------------------------------------
(* Properties.                                                             *)

\* What an installation cannot put right: an ancestor of the launcher that
\* does not belong to root, the group of the principals directory on macOS,
\* and a macOS user that was left without its group.
BeyondInstall ==
    {c \in Checks : \/ c = "command-binary"  /\ host.chain = "foreign"
                    \/ c = "principals-dir"  /\ platform = "darwin"
                    \/ c = "service-running" /\ host.account = "headless"}

\* An installation that returns without an error has healed the host, from
\* whatever earlier installations, complete or not, had left: the doctor
\* fails nothing that installing can repair, sshd has loaded the drop-in and
\* the unit is the intended one, another user on Linux excepted.
InstallHeals ==
    stolen = {} => \A r \in Installers : pc[r] = "verify" =>
        /\ Doctor \subseteq BeyondInstall
        /\ host.loaded = "ours"
        /\ host.unit \in {"ours"} \cup
                          (IF platform = "linux" THEN {"otherUser"} ELSE {})

\* sshd is never pointed at a command or a CA key that is not there yet: the
\* drop-in appears only after the launcher, locked down, and the key, as long
\* as no second run takes them away again under a stolen lock.
DropInLandsBacked ==
    [][/\ host'.dropIn = "ours" /\ host.dropIn # "ours"
       /\ stolen = {}
       => host.launcher = "strict" /\ host.ca = "ours"]_vars

\* Installing again never takes an Agent back to the version it was
\* installed with.
NeverDowngrades ==
    [][host'.current >= host.current]_vars

\* A mutating run that is under way owns the lock file, whatever runs were
\* killed and whoever judged whose lock stale - unless its lock was removed
\* by a run that had judged another one, or after an hour.
HoldersOwnTheLock ==
    \A r \in Installers \ stolen : Holding(r) => lock.run = r

\* An install-smoke that fails and could restore leaves the files of its
\* footprint as it found them, in spite of the other runs.
FailedSmokeRestores ==
    stolen = {} => \A r \in Installers :
        /\ req[r].check = "install-smoke"
        /\ verdict[r] = "fail" /\ snap[r] # NoSnapshot
        /\ pc[r] \in {"evidence", "crumb", "release"}
        => snap[r] = [part \in Footprint |-> host[part]]

=============================================================================
