---------------------------- MODULE Gatekeeper ----------------------------
(***************************************************************************)
(* `agent install` and `agent doctor` on Linux and macOS                   *)
(* (internal/gatekeeper): the parts of the host that a certificate login   *)
(* and the Agent's service rest on, the installation that puts them there  *)
(* one step after the other, and the checks that grade them. A step may    *)
(* fail and the process may be killed between any two steps; the next      *)
(* installation starts from what is on the host.                           *)
(***************************************************************************)
EXTENDS FaultBudget

CONSTANTS
    Installers,   \* the processes that install
    Hosts         \* what an installation may find

VARIABLES
    platform,   \* "linux" or "darwin"
    host,       \* the parts of the host, by name
    pc          \* where each process is

Install == {"chain", "launcher", "ca", "dropIn", "include", "principals",
            "account", "group", "user", "primary", "grant", "payload",
            "payloadOwn", "truncate", "config", "configOwn", "configDir",
            "service", "reinstall", "override", "start", "reload"}

\* What each part can look like. The launcher's path is foreign when an
\* ancestor does not belong to root, loose when one is group-writable. The
\* drop-in is "other" in its earlier form or torn. A macOS user is headless
\* between its UniqueID and its PrimaryGroupID.
HostType ==
    [sshd       : BOOLEAN,
     chain      : {"foreign", "loose", "strict"},
     launcher   : {"none", "loose", "strict"},
     ca         : {"none", "other", "ours"},
     dropIn     : {"none", "other", "ours"},
     include    : BOOLEAN,
     principals : {"none", "root", "acl", "granted"},
     account    : {"none", "group", "headless", "ok"},
     payload    : {"none", "loose", "root", "agent"},
     current    : 0..2,
     config     : {"none", "torn", "old", "new"},
     configOwn  : BOOLEAN,
     configDir  : BOOLEAN,
     unit       : {"none", "otherExe", "otherUser", "ours"},
     override   : BOOLEAN,
     service    : BOOLEAN,
     loaded     : {"none", "other", "ours"}]

ASSUME HostsAssumption == Hosts \subseteq HostType

-----------------------------------------------------------------------------
(* What the operating system makes of the parts.                           *)

\* sshd reads the drop-in through the Include of its base configuration.
DropInSeen(h) == IF h.include THEN h.dropIn ELSE "none"

\* The unit starts the launcher as the service account, which must be able
\* to read the configuration and to own the payload it executes.
CanRun(h) ==
    /\ h.unit # "none" /\ h.launcher # "none"
    /\ h.account = "ok"
    /\ h.config \in {"old", "new"} /\ h.configOwn
    /\ h.current # 0 /\ h.payload \in {"loose", "agent"}

-----------------------------------------------------------------------------
(* The doctor.                                                             *)

Checks == {"sshd", "ca-pubkey", "drop-in", "command-binary", "principals-dir",
           "service-account", "service-group", "config-ownership",
           "payload-dir", "service-running", "effective-config"}

checkSSHD == host.sshd

checkCAPubkey == host.ca = "ours"

checkSSHDropIn == host.dropIn # "none"

\* Every component of the command's path, or nothing to check.
checkPrincipalsCommandBinary ==
    /\ host.dropIn # "none"
    /\ host.dropIn = "ours" => host.launcher = "strict" /\ host.chain = "strict"

checkPrincipalsDirPerms == host.principals = "granted"

\* `id -u` knows a user from its UniqueID on.
AccountExists == host.account \in {"headless", "ok"}

checkServiceGroup == host.account # "none"

\* Without a group to compare with, the ownership is not graded.
checkConfigOwnership ==
    host.config # "none" /\ checkServiceGroup => host.configOwn

checkPayloadDir ==
    /\ host.payload # "loose"
    /\ AccountExists => host.payload # "root"

\* `sshd -T` reads the files, not what the daemon has loaded.
checkSSHDEffectiveConfig == DropInSeen(host) = "ours"

Grade(check) ==
    CASE check = "sshd"             -> checkSSHD
      [] check = "ca-pubkey"        -> checkCAPubkey
      [] check = "drop-in"          -> checkSSHDropIn
      [] check = "command-binary"   -> checkPrincipalsCommandBinary
      [] check = "principals-dir"   -> checkPrincipalsDirPerms
      [] check = "service-account"  -> AccountExists
      [] check = "service-group"    -> checkServiceGroup
      [] check = "config-ownership" -> checkConfigOwnership
      [] check = "payload-dir"      -> checkPayloadDir
      [] check = "service-running"  -> host.service
      [] check = "effective-config" -> checkSSHDEffectiveConfig

\* The checks a doctor run reports as failed; its exit code is 2 if any is.
Doctor == {c \in Checks : ~Grade(c)}

-----------------------------------------------------------------------------
(* The installation. One action per step of Install.                       *)

gatekeeperVars == <<platform, host, pc>>

\* Process p completes the step `from` and goes on to the step `to`.
Step(p, from, to) ==
    /\ pc[p] = from
    /\ pc' = [pc EXCEPT ![p] = to]
    /\ UNCHANGED <<platform, faults>>

Set(part, value) == host' = [host EXCEPT ![part] = value]

\* Nothing is touched while sshd does not run.
StartInstall(p) ==
    /\ Step(p, "install", IF host.sshd THEN "chain" ELSE "rollback")
    /\ UNCHANGED host

\* Write permission is taken from the ancestors that belong to root; the
\* others are left to the operator.
tightenChain(p) ==
    /\ Step(p, "chain", "launcher")
    /\ Set("chain", IF host.chain = "loose" THEN "strict" ELSE host.chain)

\* Mutant: the mode of a launcher that is already there is not asserted.
keepLauncherBinary(p) ==
    /\ Step(p, "launcher", "ca")
    /\ Set("launcher", IF host.launcher = "none" THEN "strict" ELSE host.launcher)

\* The binary is copied unless it is the one that runs; owner and mode are
\* asserted in any case.
installLauncherBinary(p) ==
    /\ Step(p, "launcher", "ca")
    /\ Set("launcher", "strict")

writeCAPubkey(p) ==
    /\ Step(p, "ca", "dropIn")
    /\ Set("ca", "ours")

writeSSHDropIn(p) ==
    /\ Step(p, "dropIn", IF platform = "darwin" THEN "include" ELSE "principals")
    /\ Set("dropIn", "ours")

ensureMacOSInclude(p) ==
    /\ Step(p, "include", "principals")
    /\ Set("include", TRUE)

ensurePrincipalsDir(p) ==
    /\ Step(p, "principals", "account")
    /\ Set("principals",
           IF host.principals = "none" THEN "root" ELSE host.principals)

\* An account that `id -u` knows is taken as it is. useradd makes the group
\* and the user in one step.
ensureServiceAccount(p) ==
    \/ /\ AccountExists
       /\ Step(p, "account", "grant")
       /\ UNCHANGED host
    \/ /\ ~AccountExists
       /\ platform = "linux"
       /\ Step(p, "account", "grant")
       /\ Set("account", "ok")
    \/ /\ ~AccountExists
       /\ platform = "darwin"
       /\ Step(p, "account", "group")
       /\ UNCHANGED host

\* macOS: the group record, then the user's UniqueID, then its group.
ensureServiceAccountDarwin(p) ==
    \/ Step(p, "group", "user")    /\ Set("account", "group")
    \/ Step(p, "user", "primary")  /\ Set("account", "headless")
    \/ Step(p, "primary", "grant") /\ Set("account", "ok")

\* chown and chmod on Linux, an ACL entry on macOS.
grantPrincipalsAccess(p) ==
    /\ Step(p, "grant", "payload")
    /\ Set("principals", IF platform = "linux" THEN "granted" ELSE "acl")

\* Mutant: the store is seeded on every installation.
reseedPayloadStore(p) ==
    /\ Step(p, "payload", "payloadOwn")
    /\ host' = [host EXCEPT !.current = 1, !.payload = "root"]

\* Only a store without a current version is seeded; what is written
\* belongs to root until the whole tree is handed over.
setupPayloadStore(p) ==
    /\ Step(p, "payload", "payloadOwn")
    /\ IF host.current = 0
       THEN host' = [host EXCEPT !.current = 1, !.payload = "root"]
       ELSE Set("payload", IF host.payload = "loose" THEN "agent" ELSE host.payload)

chownTreeToServiceAccount(p) ==
    /\ Step(p, "payloadOwn", "truncate")
    /\ Set("payload", "agent")

\* SaveConfigSystem truncates the file, writes it and hands it to the group.
SaveConfigSystem(p) ==
    \/ /\ Step(p, "truncate", "config")
       /\ host' = [host EXCEPT !.config = "torn",
                               !.configOwn = @ /\ host.config # "none"]
    \/ Step(p, "config", "configOwn") /\ Set("config", "new")
    \/ /\ Step(p, "configOwn", "configDir")
       /\ Set("configOwn", host.configOwn \/ checkServiceGroup)

grantConfigDirAccess(p) ==
    /\ Step(p, "configDir", "service")
    /\ Set("configDir", TRUE)

\* The unit's text is searched for the launcher's path and for the account's
\* name. On Linux the path contains the name, so that another user is never
\* noticed.
detectServiceUnitDrift ==
    \/ host.unit = "otherExe"
    \/ host.unit = "otherUser" /\ platform = "darwin"

AfterService == IF platform = "linux" THEN "override" ELSE "start"

\* Mutant: a unit that is already installed is left alone.
keepInstalledService(p) ==
    /\ Step(p, "service", AfterService)
    /\ Set("unit", IF host.unit = "none" THEN "ours" ELSE host.unit)

\* A unit that drifted is stopped, removed and installed again.
installService(p) ==
    \/ /\ detectServiceUnitDrift
       /\ Step(p, "service", "reinstall")
       /\ host' = [host EXCEPT !.unit = "none", !.service = FALSE]
    \/ /\ ~detectServiceUnitDrift
       /\ Step(p, "service", AfterService)
       /\ Set("unit", IF host.unit = "none" THEN "ours" ELSE host.unit)

reinstallService(p) ==
    /\ Step(p, "reinstall", AfterService)
    /\ Set("unit", "ours")

writeSystemdRestartOverride(p) ==
    /\ Step(p, "override", "start")
    /\ Set("override", TRUE)

\* The command succeeds once the process is started, whatever becomes of it.
startService(p) ==
    /\ Step(p, "start", "reload")
    /\ Set("service", CanRun(host))

reloadSSHD(p) ==
    /\ Step(p, "reload", "verify")
    /\ Set("loaded", DropInSeen(host))

\* A step that fails ends the installation where it stands.
StepFails(p) ==
    /\ pc[p] \in Install
    /\ Fails("step")
    /\ pc' = [pc EXCEPT ![p] = "rollback"]
    /\ UNCHANGED <<platform, host>>

InstallStep(p) ==
    \/ StartInstall(p)
    \/ tightenChain(p) \/ installLauncherBinary(p) \/ writeCAPubkey(p)
    \/ writeSSHDropIn(p) \/ ensureMacOSInclude(p) \/ ensurePrincipalsDir(p)
    \/ ensureServiceAccount(p) \/ ensureServiceAccountDarwin(p)
    \/ grantPrincipalsAccess(p)
    \/ setupPayloadStore(p) \/ chownTreeToServiceAccount(p)
    \/ SaveConfigSystem(p) \/ grantConfigDirAccess(p)
    \/ installService(p) \/ reinstallService(p) \/ writeSystemdRestartOverride(p)
    \/ startService(p) \/ reloadSSHD(p)
    \/ StepFails(p)

-----------------------------------------------------------------------------
(* What happens to a host meanwhile.                                       *)

\* The running Agent replaces its payload with a newer version.
SelfUpdate ==
    /\ host.service
    /\ host.current = 1
    /\ Set("current", 2)
    /\ UNCHANGED <<platform, pc, faults>>

\* A file that was being written when its process died is torn.
Torn(dying) ==
    [host EXCEPT !.ca = IF \E p \in dying : pc[p] = "ca" THEN "other" ELSE @,
                 !.dropIn = IF \E p \in dying : pc[p] = "dropIn" THEN "other" ELSE @]

\* After a reboot sshd and the service start from what is on the disk.
Booted(h) ==
    [h EXCEPT !.loaded = DropInSeen(h), !.service = CanRun(h)]

=============================================================================
