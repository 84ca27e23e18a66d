# Formal verification of uncluster

uncluster issues short-lived SSH certificates and keeps, on every machine it
manages, the list of callers that may log in as each local user. This
directory holds TLA+ models translated from `src/internal`, the TLC
configurations that check them on small instances, and proofs that TLAPS
checks for every value of the constants.

## 1. Inventory

| Component | State | Operations | Talks to |
|---|---|---|---|
| server bootstrap and migrations (`cli/server_cmd.go`, `ca`, `store/migrations.go`) | the files `ca` and `ca.pub`, the tables, `schema_version` | bootstrap, start, migrate | disk, store |
| store (`store/sqlite.go`) | rows: agents, tokens, acl, policy versions and state, cert events, update policy | ACL create/delete with version bump, RevokeAgent, RevokeToken, GetPolicySnapshot, heartbeat and event writes | handlers |
| enrollment (`cli/agent_cmd.go`, `server/handlers_agent.go`) | join token and agent rows, the joining host's configuration | `agent join`, handleAgentRegister | store |
| heartbeat handler and authentication (`server/handlers_agent.go`, `middleware_auth.go`) | one request per connection | requireAuth, handleV2Heartbeat | store, Agent |
| CA and audit (`server/handlers_certs.go`, `ca`) | serial in memory, cert events | issue, deny | store, callers |
| operator API (`server/handlers_acl.go`, `_agents.go`, `_tokens.go`, `_update.go`) | none | ACL, agents rm/set, tokens, update policy | store |
| agent run loop (`agent/agent.go`, `http.go`, `cli/agent_cmd.go`) | applied version/hash/status, applyCh, last heartbeat, `.deprovisioned` | heartbeat, fail-closed check, onRevoked, shutdown, restart | handler, rendering |
| principals rendering, Unix (`agent/policy.go`, `policy_apply_unix.go`) | the principals directory | validate, write each file, remove stale files; wipe | sshd reads it |
| principals writer, Windows (`agent/principalswriter*.go`, `policy_apply_windows.go`) | `policy.json`, `applied.json`, the service | submit, poll, apply, deprovision | Agent, installer |
| launcher, payload store, self-update (`agent/launcher.go`, `payloadstore.go`, `healthmarker.go`, `selfupdate*.go`) | `current`, `previous`, quarantine, markers | stage, activate, supervise, roll back | payload, Control plane |
| gatekeeper (`gatekeeper`) | sshd drop-in, CA key, launcher, account, payload, configuration, unit | install, doctor | host |
| validation (`validate`, `cli/validate_cmd.go`) | lock file, evidence, breadcrumbs, armed reboot | acquire, break stale, check, restore, release | gatekeeper |
| operator CLI, endpoint detection, metrics, redaction | none | print, read the host | API |

What is hard here. The Agent learns the ACL only by comparing hashes in
heartbeats, so a removal of access travels through five places (row, snapshot,
answer, channel, directory) and can be lost at each. Requests of one Agent can
overlap, because the client gives up after 45 s and the handler does not know.
Two goroutines render the same directory. What was applied is only in memory,
what is on disk survives. A revocation is three separate observations (token
row, agent row, status column) made at different times. A registration and a
certificate request are each several store calls without a transaction. On
Windows two services agree through two files that either may find old. The
installer and the validator change a host in twenty steps and may be killed
after each. `PROJECT.json` lists the hazards, each at its line.

What makes the parts correct:

- bootstrap: the key hosts are told to trust is the key the server signs
  with; an interrupted migration can be resumed.
- store: a snapshot is one published version; the versions of an Agent only
  grow; the policy-state row never shows an Agent ahead of the Control plane.
- enrollment: one join token makes at most one Agent, and a credential that
  was handed out is backed by its rows.
- handler: nothing is served to a removed Agent.
- CA and audit: no certificate without a grant, none without an audit row, a
  serial of its own and a bounded window.
- agent: a policy is applied in order; a report is the truth about the
  directory; a failed apply is tried again; a lasting outage empties a
  fail-closed Agent; a removed Agent stops.
- directory: each file is what one published version granted, names the
  Agent rejects never appear, grants and removals get there.
- principals writer: an answer in `applied.json` belongs to the request it is
  taken for; a policy gets through; a deprovision ends the service, and
  empties the directory first.
- launcher and payload store: some version that works is reached again as long
  as there is a way back, a version that failed is not activated again,
  `previous` is known to be good, and an update that is expected gets to run.
- gatekeeper: an installation that reports success has healed the host, and
  sshd never refers to something that is not there yet.
- validation: at most one mutating run at a time; a failed install-smoke
  leaves the host as it was.

## 2. Modules

```
Policy            grants, hash, projection to files
Environment       the link, and the budget of faults
PolicyStore       the rows of one Agent and the calls on them   (EXTENDS Policy)
HeartbeatHandler  requests in service, one step per store call  (EXTENDS PolicyStore, Environment)
PrincipalsDir     the directory and a rendering of it           (EXTENDS Policy)
AgentRun          the Agent process                             (EXTENDS PrincipalsDir, Environment)
PolicySync        composition, fairness, properties             (EXTENDS HeartbeatHandler, AgentRun)
PrincipalsReplica abstract specification of the directory

PayloadStore      versions, current, previous, quarantine, markers
Payload           the payload process and the update policy     (EXTENDS PayloadStore, Environment)
Launcher          supervision, composition, properties          (EXTENDS Payload)

FaultBudget       a bounded number of failures
ServerBoot        bootstrap, migrations, server start           (EXTENDS FaultBudget)
Enrollment        join and registration, properties             (EXTENDS ServerBoot)
JoinToken         abstract specification of a join token
CertIssue         certificate requests, ACL, audit, properties  (EXTENDS FaultBudget)
Gatekeeper        the host, install, doctor                     (EXTENDS FaultBudget)
Validation        lock, checks, reboot, properties              (EXTENDS Gatekeeper)
PrincipalsWriter  the Windows spool and both services           (EXTENDS PrincipalsDir, FaultBudget)

MCPolicySync, MCLauncher, MCEnrollment, MCCertIssue, MCValidation,
MCPrincipalsWriter                                  the modules TLC runs
PolicySyncProofs, PolicyOrderProofs, PolicyRemovalProofs, LauncherProofs,
EnrollmentProofs, CertIssueProofs, ValidationProofs, PrincipalsWriterProofs
```

### Policy synchronisation

- `acl`, `version`, `hash`, `status`, `failClosedAfter`, `tokenRevoked`,
  `policyState` are columns. `bumpPolicyVersionTx` runs inside the same
  transaction as the ACL change, so the two are one action. `aclAt` (the ACL
  of each published version) and `removed` are history variables.
- `handler[h]` is a request in service. SQLite serialises statements, and a
  handler holds no transaction across two store calls, so each store call of
  `requireAuth` and `handleV2Heartbeat` is one step and anything may happen
  between two steps. Every call also has its error path (`HandlerError`).
- `hb` is the heartbeat goroutine, `worker` the apply worker, `queue` the
  channel of capacity 1 with its drain-and-resend. `renderPrincipalsDir` is
  one step per rename and per remove, because sshd, a crash and the other
  goroutine see each of them; `atomicWritePrincipals` is one step, because it
  is a rename.
- `marker` is `.deprovisioned`. A crash loses `memory`, keeps `disk` and
  `marker`. `Restart` is what RunAgent does under its supervisor: not at all
  when the marker exists.
- `awaited` is the request the client still waits for. `Timeout` forgets it
  while the handler goes on; `Abandon` ends a request nobody waits for.
- Files are sets of callers (the code writes them sorted, one a line). The
  digest is taken to be collision free: `Hash` is the set of grants itself,
  but for the empty set, whose hash is `""` as in the code. Times are
  abstracted to "fail_closed_after has elapsed".

`PrincipalsReplica` says what the directory promises: files change only by
`Put` of a version that has been adopted, or by `Drop`; adoption never goes
back. `PolicySync` implements it with the refinement mapping `latest <-
version, log <- aclAt, adopted <- rendered, files <- disk`.

### Launcher and payload

- `staged`, `current`, `previous`, `quarantined` are the managed payload
  directory, `health`, `pending` and `deprovisioned` the marker files. All
  survive a crash. `Activate` is two actions, one per `swapSymlink`, because a
  crash or a SIGKILL may come between them; `Stage` is one, because it renames.
- `child` is the payload process. Its update runs in the heartbeat goroutine
  (`HandleCheckUpdate`), so the next heartbeat waits for it, and no longer:
  the `time.Ticker` of agent.go:205 keeps a tick meanwhile, so that it may
  follow at once, before the launcher's one-second poll has seen the pending
  marker, and begin the same update again. `ok` is "had a successful
  heartbeat", which is the health commit; `late` is "a heartbeat did not get
  through", which is what can make a good version miss the deadline;
  `activated` is history, "this process has swapped `current`".
- `launcher.pc` is the place in `Run`. The deadline, an exit and a commit that
  become ready together are taken in any order, as by Go's `select`.
- A stop of the service changes no file, so it is a `Crash`. A crash of the
  launcher alone that leaves its child behind (possible under launchd, not
  under systemd's control groups) is not modelled.

### Bootstrap and enrollment

- `cmd[p]` is where each `server bootstrap` and the one `server start` are.
  `caKey` and `caPub` say whose key pair the two files hold; `ca` is created
  with O_EXCL and can be left partly written by a crash. `Migrations` is the
  list of statements; each runs in one transaction with the new
  `schema_version`. `SchemaAt` is the reference: the tables after each number
  of statements.
- `OpenersOverlap` says whether two processes may be inside OpenSQLite at
  once. The run takes FALSE: with TRUE, two openers that read the same version
  set it back (section 6).
- `join[h]` is the `agent join` of a host and the request it sent.
  `handleAgentRegister` is five store calls, each a step, with a failure of
  each; the answer may be lost. A failed or lost attempt may be repeated up to
  `MaxAttempts`. `owner` is a history variable: for which Agent a join token
  was redeemed.

`JoinToken` says what a join token promises: redeemed at most once, and never
after it was revoked unredeemed. `Enrollment` implements it with `void <-` the
tokens whose row is revoked and that have no owner.

### Certificates

- `req[r]` is a request: authentication, validation, the Agent's row, the ACL,
  signing and the audit row are a step each, with ACL changes, revocations and
  a restart between any two. `serial` is in memory and starts again with the
  server (`life`).
- `granted`, `late`, `unread` and `unlogged` are history: the grant held at
  some time while the request was in service, the caller was revoked before it
  arrived, its body did not decode (handlers_certs.go:51 refuses it without
  trying to write a row), a write of its denial row was tried and failed. A
  refusing path that forgets its row sets neither of the last two.
- `ttl_seconds * time.Second` is 64-bit arithmetic; `DurationMax` stands for
  the longest Duration in seconds, and a product beyond it wraps.

### Gatekeeper and validation

- `host` is a record with one field per part of the host, each with the few
  values that an installer or the doctor can tell apart. `Install` is one
  action per step of the code, in its order, each of which may fail or be
  followed by a kill. `Doctor` is the set of checks that fail.
- `lock` is `validation.lock`: O_EXCL creation and the write of its contents
  are two steps, so are the judgement of a stale lock and its removal. `seen`
  is what a run read when it judged. `aged` is "more than an hour old".
- A run takes a request (check, safety class, flags), passes the gate and the
  skip rule, may take the lock, runs its check, writes evidence and the
  breadcrumb and releases. `armed` and `rebooting` are the two phases of
  reboot-survival.
- `stolen` is history: owners whose lock another run removed.

### Windows principals writer

- `spool` is `policy.json`, `answer` is `applied.json`. `waits` is what each of
  the two submitting goroutines waits for: the worker and the heartbeat
  goroutine (fail-closed wipe). A poll either finds a status that matches its
  version and hash or times out; the spool file stays.
- The writer's tick compares the digest of the spool with `lastDigest`,
  renders, reports. Either service may be killed and started again; the status
  may be lost; `agent install` may run over all of it, one step per service or
  directory operation. The error of `ClearSpoolDesiredState` is ignored, so the
  spool may survive it. `inherited` is history and says that an installation
  met remains of an Agent removed before: its desired state, its writer, its
  status, or that Agent itself still deleting the new writer.
- After a 410 the Agent waits for the wipe, then, whatever came of it, runs
  `deprovisionCleanup` (agent.go:295), writes the marker and ends; it may be
  killed between any two of these. The cleanup stops the writer's service and
  deletes it. Each may be refused for lack of rights, the stop waits for the
  tick under way or times out, and a service deleted while it runs goes on
  until it stops. `cutShort` is history: the cleanup took the writer away
  before it had wiped.

## 3. Runs

`MaxVersion` bounds ACL changes, `MaxPolicies` changes of the update policy,
`MaxFaults` the failures of the kinds in `FaultKinds` or `Failing`, `Handlers`
the requests in service at once.

| Run | Shows | Instance, and why it is enough |
|---|---|---|
| `sync` | TypeOK, NoTornPolicy, DesiredCoversApplied, AppliedMeansOnDisk, FilesWereGranted, AppliedNeverRegresses, ImplementsReplica | one user and two callers make a file differ in content and presence; three changes allow grant, change, take back; two overlapping requests are the least that can write rows or answer out of order; one cut, store error, crash, failed apply or stop |
| `removal` | RemovedNeverServed, RemovedStops | an older request in service while a newer one arrives; one cut, crash, stop or failing wipe |
| `acl_reaches_disk` | RejectedNamesNeverOnDisk, GrantsReachDisk, RemovalReachesDisk | two acceptable usernames and a rejected one, three changes: poison, recover, remove; one crash or failed apply |
| `fail_closed` | FailClosedWipes, FailedApplyRetried | an outage and a failing apply or wipe in the same behaviour |
| `self_update` | TypeOK, OneWriter, NoFalseBlame, QuarantineHolds, LastKnownGood, DeprovisionEnds, SelfHeals, UpdateReached | a seed, a good version, a bad one and one that cannot be executed; two policy changes allow bad then good; one fault of any kind, at any step. The same properties were checked once with two faults on a seed, a bad and a good version (628 000 states) |
| `enrollment` | CredentialsAreBacked, TrustedKeySigns, SchemaMatchesVersion, ImplementsJoinToken | two bootstraps race for the key, two hosts for one join token, with equal or different names; one failure of a file, a store call, a process or an answer |
| `certificates` | CertsAreAudited, DenialsAreAudited, CertsWereGranted, RevokedCallerGetsNone, SerialsAreUnique, WindowIsBounded | two requests for two users of one Agent; three ACL changes allow grant, take back, grant again under a request; ttl at its boundaries; one restart, one failure |
| `validation` | InstallHeals, HoldersOwnTheLock, FailedSmokeRestores, DropInLandsBacked, NeverDowngrades | two runs are enough to race for a lock; a third owner is the stale lock `old`; eight hosts: fresh, without sshd, foreign, installed, drifted in two ways, and two that cannot be healed fully; one failed step, kill or hour |
| `windows` | OkMeansOnDisk, PoliciesReachDisk, DeprovisionRemovesWriter | two users, one of whom loses access in the second version; two failures of eight kinds, so that a status can be lost and a service die in the same behaviour, or an Agent be removed and installed again; refused or late cleanups and clears come on top |
| `v_restart_empty_acl` | violation, finding 1 | |
| `v_wipe_not_resent` | violation, finding 2 | |
| `v_second_activation` | violation, finding 3 | |

Deadlock is checked wherever the system runs on for ever. It is not checked
where it may stop: a deprovisioned launcher has exited, an enrolled host is
done, every request is answered, every run has ended, a removed Windows Agent
is gone.

Symmetry is used in runs without liveness properties only.

## 4. Fairness

`PolicySync!FairSpec` assumes of the code only what Go and the service manager
give: goroutines and handlers that can run do run (weak fairness of each
handler step, of the worker, of a wipe under way, of the end of a request),
the supervisor restarts a stopped process, and the heartbeat loop's `select`
serves each of its two tickers again and again. The last is strong fairness
of `SendHeartbeat` and `CheckFailClosed`, since the loop leaves and re-enters
the `select`, and Go picks among ready cases at random. An eventual property
is stated for an Agent that is `Reachable`, or with `partitioned` among its
outcomes, or (FailClosedWipes) for an outage that lasts.

`Launcher!FairSpec` assumes that launcher and payload run, that SIGKILL ends a
payload being stopped, that a missed deadline is noticed, and that the service
manager restarts a failed launcher. All of it is weak fairness. That a bad
version exits is not assumed: it may hang.

`PrincipalsWriter!FairSpec` assumes that the goroutines of the Agent and the
writer's ticker run, that an installation that was begun goes on, and that
both services are started again, at the latest at the next boot.
`ReceivePolicy` is strongly fair, because a wipe that waits takes the heartbeat
loop's turn.

The operator, the Control plane's decisions, the link, crashes and failures are
never fair. Enrollment, certificates and validation are commands somebody
types or requests somebody sends: they have safety properties only, and no
fairness.

## 5. Proofs

TLAPS proves the following for all sets (finite or not) of users, callers,
handlers, versions, hosts, join tokens and requests, and for any bounds, from
the named assumptions on the constants: bounds are naturals, `BadUsers` are
users, `FaultKinds` and `OperatorOps` are among the kinds known, the seed
version is a version and not a bad one (`StoreAssumption`,
`BadUsersAssumption`, `FaultsAssumption`, `VersionsAssumption`,
`PayloadAssumption`), ttls are integers and the longest Duration is longer
than the maximum ttl (`CertAssumption`), processes of different kinds have
different names (`BootAssumption`, `EnrollmentAssumption`), a validation run
is not called "none" or "old" (`InstallersAssumption`), the history of the ACL
is a sequence of sets of grants (`HistoryAssumption`). Four theorems have a
hypothesis on the constants besides: the operator never sets fail_closed_after
(`NoFailClosed`, one theorem), and
install-smoke is not run under the safety class `inspect` (`SmokeTakesLock`,
three). validate_cmd.go documents that it
needs `--safety privileged --allow-mutate`; the code does not tie the check to
the class, and without it two installations do interleave.

| Theorem | Property | Inductive invariant |
|---|---|---|
| `PolicySyncProofs!TypeCorrect` | TypeOK | itself |
| `PolicySyncProofs!PoliciesAreNotTorn`, `FilesAreGranted` | NoTornPolicy, FilesWereGranted | `HistoryInv`: the log ends in the current ACL and its hash; every policy in a handler, the channel or the worker is a published version; every file comes from the log. A file is written from the worker's policy, so the second needs the first |
| `PolicyOrderProofs!DesiredIsAhead`, `AppliedMonotone`, `SyncImplementsReplica` | DesiredCoversApplied, AppliedNeverRegresses, ImplementsReplica | `OrderInv`: applied <= worker <= channel <= awaited answer <= latest (`ChannelOrder`), and each report in service is at most the version its snapshot will have (`ReportOrder`). Only the awaited request is ordered; late ones are not, which is why an answer may be taken from the awaited request only |
| `PolicyOrderProofs!ReportIsTruth` | AppliedMeansOnDisk, when the operator never sets fail_closed_after | `DirInv`: no answer carries fail-closed, so the heartbeat goroutine never renders (`NeverClosing`), and the files a rendering has written, then those that are not stale, are as its policy has them (`RenderedSoFar`) |
| `PolicyRemovalProofs!RemovedIsRefused` | RemovedNeverServed | `LateRefused`: a request that arrived after the removal never gets past authentication, because the token row it reads was revoked in the same transaction |
| `PolicyRemovalProofs!RejectedNamesKeptOut` | RejectedNamesNeverOnDisk | a rendering past its validation holds no rejected name |
| `LauncherProofs!LauncherTypeCorrect` | TypeOK of Launcher | itself |
| `LauncherProofs!PointersHaveOneWriter` | OneWriter | `Supervised`: a live payload is under one of the two supervision loops or being stopped, and the launcher knows its version |
| `LauncherProofs!QuarantineIsKept` | QuarantineHolds | `CheckedTarget`: a payload about to swap `current` has a target that is not quarantined. Quarantine happens with no live payload (`Supervised`), so the check cannot become stale |
| `LauncherProofs!RollbackIsKnownGood` | LastKnownGood, whatever fails | `RollbackInv`: a payload in an update has had a heartbeat and its version is proven (`ProvenRuns`); until it has activated an update, the payload runs what `current` names (`RunsCurrent`). So what it copies into `previous` first is proven; what it copies a second time need not be, which is finding 3 |
| `LauncherProofs!GoodIsNeverBlamed` | NoFalseBlame | `BlameInv`: while nothing has failed and the Control plane answers, no heartbeat is late, a payload ends under the first supervision loop only if it is bad, and the launcher is on its way to demote only bad versions |
| `EnrollmentProofs!JoinTokenRefined` | ImplementsJoinToken | `EnrollInv`: a registration about to spend its join token has written both rows of its Agent (`JoinOK`); the token of an owner is spent, its rows are there, and the registration it came from is over, so that nobody creates that Agent again (`OwnerOK`). The conditional update of MarkJoinTokenUsed is the one step that makes an owner |
| `EnrollmentProofs!CredentialsAlwaysBacked` | CredentialsAreBacked | `EnrollInv` |
| `EnrollmentProofs!TrustedKeyAlwaysSigns` | TrustedKeySigns | `KeyInv`: a key that `ca.pub`, the server, an answer or a host holds is the one in `ca`, complete (`Known`); until it is complete, O_EXCL leaves one process that writes it, and afterwards none |
| `CertIssueProofs!CertsAlwaysAudited`, `DenialsAlwaysAudited`, `CertsAlwaysGranted`, `RevokedCallersNeverServed`, `SerialsAlwaysUnique`, `WindowAlwaysBounded` | CertsAreAudited, DenialsAreAudited, CertsWereGranted, RevokedCallerGetsNone, SerialsAreUnique, WindowIsBounded | `CertInv`: what a request has established at each of its steps (`RequestOK`), what a certificate took over from it (`CertOK`), and that serials in use are at most the counter and differ (`SerialsDrawn`) |
| `EnrollmentProofs!SchemaAlwaysMatches`, `MigrationsResume` | SchemaMatchesVersion; and that an opener that takes up an interrupted migration never meets a statement SQLite refuses | `SchemaInv`: while openers do not overlap, an opener in the migrations is at the statement after the recorded version, and the tables are those of that version. `SchemaAt` is a recursive function over the list of statements; as the list is fixed, `SchemaUnfolds` exhibits its solution |
| `ValidationProofs!TypeCorrect`, `InstallNeverDowngrades` | TypeOK of Validation, NeverDowngrades | TypeOK |
| `ValidationProofs!MutualExclusion` | HoldersOwnTheLock | `LockInv`: the owner of a lock that was judged stale and not yet removed is gone or robbed already, or the hour is still over and the lock still there (`JudgedStale`) |
| `ValidationProofs!InstallationHeals`, `SmokeRestores`, `DropInBacked` | InstallHeals, FailedSmokeRestores, DropInLandsBacked, under `SmokeTakesLock` | `HealInv`: `LockInv`; `agent install` has the host to itself (`Apart`); as long as no lock was stolen, what an installation has done up to its step is still so (`Done`), and a drop-in that a snapshot has seen is still there (`SnapOnHost`) |
| `PrincipalsWriterProofs!TypeCorrect` | TypeOK of PrincipalsWriter | itself |
| `PrincipalsWriterProofs!SuccessIsOnDisk` | OkMeansOnDisk | `WriterInv`: versions go from queue to spool to the writer's job in order (`InOrder`); where there is evidence of a rendering of v (the writer about to report, the status file or the Agent's report), nothing older than v is on its way to the directory, and while v is still asked for the directory holds it (`EvidenceHolds`). So an old status answers a new submission of the same version truthfully |

Checked by TLC only: the liveness properties, since the prover has no fairness
and no ENABLED: GrantsReachDisk, RemovalReachesDisk, FailClosedWipes,
RemovedStops, FailedApplyRetried, SelfHeals, UpdateReached, DeprovisionEnds,
PoliciesReachDisk, DeprovisionRemovesWriter. Every invariant and action
property of the passing runs is a theorem.

The inductive invariant of PrincipalsWriter was checked by TLC before it was
proved, also with three versions and with five failures, more than the run
allows. That is how `inherited` came to be kept across installations: it used
to be set anew by each one, and after a removal and two installations (four
failures) a status of the removed Agent in `applied.json` was taken for one of
its successor.

No module uses a RECURSIVE operator.

## 6. Findings

Three runs are refuted by TLC; the quotations are in `PROJECT.json`.

1. `v_restart_empty_acl`: a restarted Agent with files on disk and an empty
   ACL is never told to remove them: its report is `""`, the hash of an empty
   ACL.
2. `v_wipe_not_resent`: on Windows, a fail-closed wipe whose status comes too
   late counts as failed while the writer carries it out. The report still
   shows the hash of the policy, and the Control plane does not send it again
   after the outage.
3. `v_second_activation`: the heartbeat after an update may come before the
   launcher's poll and gets `check_update` again. Activate then copies
   `current`, which already names the update, into `previous`, although
   payloadstore.go:176 promises "a known-good target". When the update is bad,
   both pointers name it, a rollback goes from it to itself, and no payload is
   left that could fetch another version: nothing heals. This is the exception
   in LastKnownGood and an outcome (`NoWayBack`) of SelfHeals and
   UpdateReached. A pending marker that cannot be written leads to the same,
   with ten seconds to do it in.

Further disagreements and limits met in the code, which show up as conditions
in the properties or in the choice of constants:

Policy synchronisation

- `UpdateAgentHeartbeat` (sqlite.go:356) writes `status = 'online'` over a
  revocation that came after its request's authentication. The next heartbeat
  gets 401 instead of the 410 of ACCEPTANCE.md:45, and the principals are not
  wiped. RemovedNeverServed and RemovedStops hold in spite of it.
- onRevoked (agent.go:286) wipes while the worker may have a policy in hand,
  which shutdown lets it render afterwards.
- AppliedMeansOnDisk fails with `"failClosed"` among the operator's commands:
  checkFailClosed renders in the heartbeat goroutine while the worker renders,
  although agent.go:245 says "Safe to call concurrently".
- When an apply fails half-way and the ACL is then changed back, the hash
  reported equals the desired one, the status is not looked at and nothing is
  sent again, although docs/architecture.md:123 says the Control plane "keeps
  re-sending policy until a successful apply is reported". Neither grants nor
  removals are then sure to reach the directory: `FailureHidden` is an outcome
  of GrantsReachDisk and RemovalReachesDisk, and FailedApplyRetried has the
  same exception. A rejected username that stays in the ACL holds up removals
  of other users as well (`Poisoned`).
- GrantsReachDisk is checked without fail-closed and fails with it: when the
  outage ends during a fail-closed wipe, the worker may apply a policy while
  the heartbeat goroutine is still removing files. The Agent then reports
  success with the hash of the policy over an empty directory, which is never
  filled again.
- A failed snapshot writes `desired_version` 0 into the row operators read;
  DesiredCoversApplied excepts it.
- A store error during authentication is answered 401 (middleware_auth.go:36),
  which ends the Agent.

Launcher

- An update that cannot be executed is never rolled back: Start fails, Run
  returns (launcher.go:157), and the service manager restarts the launcher onto
  it. It is the other case of `NoWayBack`.
- A good version that an outage keeps from its deadline is quarantined, which
  UpdateReached counts as an outcome; the code documents no way out but the
  operator.
- The deadline path of launcher.go:243 does not ask whether the payload was
  deprovisioned: a payload that is removed before its health commit and slow to
  exit is demoted as a bad version. DeprovisionEnds holds all the same.

Control plane

- Two processes inside OpenSQLite at once can set `schema_version` back
  (migrations.go:3): each reads the version before it begins its statements.
- `ttl_seconds` is compared with the maximum (api/types.go:177, "max 900s") and
  then multiplied as a 64-bit Duration. A negative value below what a Duration
  can hold passes the comparison and wraps around; WindowIsBounded is stated
  for the values that are a Duration.
- handlers_certs.go:30, "Every request (success or denial) writes a row", is
  not so for a body that cannot be decoded (`unread` in DenialsAreAudited) or a
  failing ACL query.
- A registration that fails between its store calls leaves rows nobody has a
  credential for; CredentialsAreBacked does not forbid them. Serials start
  again with the server, so SerialsAreUnique compares those of one life.

Gatekeeper and validation

- install_drift.go:30 looks for the user's name anywhere in the unit. On Linux
  the launcher's path contains it, so another `User=` is never seen as drift
  (the exception in InstallHeals).
- On macOS the principals directory gets an access-control entry and not the
  group that the doctor asks for, so the doctor always fails `principals-dir`
  and install-smoke always restores. A macOS user that was left without its
  PrimaryGroupID is not repaired (`BeyondInstall`).
- `install-smoke` under the default safety class `inspect` takes no lock and
  is not authorised; the run uses the documented invocations.
- The breadcrumb of reboot-survival's first phase is a `pass`, so that
  repeating the command for the second phase is skipped without `--force`.
- `removeIfUnchanged` (lock.go:123) compares and removes in two steps: of two
  breakers of one stale lock, one may remove the other's new lock. A lock file
  created and not yet written when its run died cannot be parsed and counts as
  held for ever, although lock.go:84 lists "unparseable" as abandoned and
  lock.go:44 says that "a crash cannot wedge validation forever".
- `sshd -T` reads the files, not what the daemon has loaded: the doctor cannot
  see a missed reload. SaveConfigSystem truncates and writes in place.

Windows

- The writer does not reset `lastDigest` after a failed apply, so that going
  back to the state before is skipped.
- A status of an earlier round trip with the same version and hash does
  resolve a later apply on a fail-closed host, although
  policy_apply_windows.go:129 says that it "never falsely resolves".
- The deprovision that onRevoked spools can be overwritten by the draining
  worker (the second outcome of DeprovisionRemovesWriter).
- Installing over a writer that is still registered keeps a left-over
  deprovision and never clears `applied.json` (`inherited`). A new writer
  clears the spool, but the error of the remove is dropped
  (install_principalswriter_windows.go:35 and :59): a deprovision that survives
  makes the new writer wipe and delete itself as soon as it starts.
  PoliciesReachDisk says nothing of such hosts.
- deprovisionCleanup (agent.go:295) removes the writer even when the wipe has
  timed out, or was answered by an older status of version 0. Where the
  Agent's account has the rights, the service is then gone and the principals
  files stay, although agent.go:284 says that during a normal deprovision "the
  wipe runs to completion". It is the exception `cutShort` in
  DeprovisionRemovesWriter; without it TLC finds the case with no failure but
  the removal of the Agent. policy_apply_windows.go:20 expects the rights to be
  missing, and then the property holds in full.
- An Agent that the service manager starts again during a reinstallation, after
  the marker was taken away and before the new enrolment is in place, gets
  another 410 and may delete the writer just installed; `agent install` then
  fails at `net start` (`inherited`).

## 7. What is not modelled

- Argument parsing and printing (operator CLI), list and get queries, reads of
  the host (endpoints, metrics), the text of files and messages, the redaction
  of evidence: nothing of it changes state that a property is about.
- Windows: the in-place self-update (no launcher, no health watch, no
  rollback), the base configuration's directives (also their removal in
  deprovisionCleanup), the directory's access-control list and the Windows
  doctor. That the marker may fail to be written is in AgentRun
  only.
- The dogfood and self-update checks of `validate`, which the command line
  binds to a fixed failure.
- Exact times: a deadline, an age or a ticker is an event that may happen
  where the code allows it.
- Secrets and digests: a token is presented or not, a hash has no collisions.
- A crash of the launcher alone that leaves its payload running.
- One Agent is modelled at a time in PolicySync: no statement of the store
  reads the rows of two.
