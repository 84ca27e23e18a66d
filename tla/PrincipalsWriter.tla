------------------------- MODULE PrincipalsWriter -------------------------
(***************************************************************************)
(* How a policy reaches the principals directory on Windows                *)
(* (internal/agent/principalswriter*.go, policy_apply_windows.go): the     *)
(* Agent puts a desired state into a spool file and polls another file for *)
(* the status of the writer, a second service that polls the first file,   *)
(* renders and reports. Two goroutines of the Agent submit, nothing but    *)
(* the two files connects them to the writer, both services are killed and *)
(* started independently, and `agent install` may run over all of it       *)
(* (internal/gatekeeper/install_windows.go).                               *)
(***************************************************************************)
EXTENDS PrincipalsDir, FaultBudget, Sequences

CONSTANT
    History   \* History[v]: the grants of version v of the ACL

ASSUME HistoryAssumption == History \in Seq(SUBSET Grants)

VARIABLES
    published,    \* version of the policy the Control plane serves
    revoked,      \* the Agent was removed: its next heartbeat gets 410
    outage,       \* the Control plane cannot be reached
    failClosed,   \* the Agent was told to fail closed
    agent,        \* the service: "up", "cleanup" and "ending" after a 410, "down"
    applied,      \* what it reports: version, hash, status
    queue,        \* applyCh
    waits,        \* what each goroutine has submitted and waits for
    marker,       \* .deprovisioned
    spool,        \* policy.json, {} if there is none
    answer,       \* applied.json, {} if there is none
    access,       \* the Agent's account may rename in the spool
    registered,   \* the writer's service exists
    writer,       \* what the writer is doing, "down" if it does not run
    job,          \* the desired state it is applying
    lastDigest,   \* the desired state it last applied
    install,      \* the next step of a running `agent install`
    inherited,    \* history: an installation met remains of a removed Agent
    cutShort      \* history: the Agent took the writer away before it had wiped

agentVars == <<agent, applied, queue, waits, marker>>
writerVars == <<registered, writer, job, lastDigest, cutShort>>
envVars == <<published, revoked, outage, failClosed>>
installVars == <<access, install, inherited>>
vars == <<agentVars, writerVars, envVars, installVars, spool, answer, disk, faults>>

Granted(v) == IF v = 0 THEN {} ELSE History[v]

\* api.PolicyPayload of a version; version 0 is the empty one of a wipe.
Payload(v) ==
    [version    |-> v,
     hash       |-> Hash(Granted(v)),
     principals |-> Projection(Granted(v))]

Versions == 0..Len(History)

\* The desired state of an apply, and the one that ends it all.
Desired(v) == [policy |-> Payload(v), deprovision |-> FALSE]
Deprovision == [policy |-> Payload(0), deprovision |-> TRUE]

DesiredStates == {Desired(v) : v \in Versions} \cup {Deprovision}

Statuses == [version : Versions, hash : Hashes, status : {"ok", "failed"}]

Submitters == {"worker", "heartbeat"}

Unapplied == [version |-> 0, hash |-> NoHash, status |-> "none"]

TypeOK ==
    /\ published \in Versions
    /\ {revoked, outage, failClosed, marker, access, registered, inherited, cutShort}
          \subseteq BOOLEAN
    /\ agent \in {"up", "cleanup", "ending", "down"}
    /\ applied \in [version : Versions, hash : Hashes,
                    status : {"none", "ok", "failed"}]
    /\ queue \subseteq {Payload(v) : v \in Versions}
    /\ waits \in [Submitters -> SUBSET DesiredStates]
    /\ spool \subseteq DesiredStates
    /\ answer \subseteq Statuses
    /\ writer \in [pc : RenderPC \cup {"down", "reportOk", "reportFailed", "settle"},
                   snap : SUBSET Policies, todo : SUBSET Users]
    /\ job \subseteq DesiredStates
    /\ lastDigest \subseteq DesiredStates
    /\ install \in {"none", "service", "spool", "startAgent", "startWriter"}
    /\ disk \in Files

\* An installed host with both services running.
Init ==
    /\ published = 0 /\ revoked = FALSE /\ outage = FALSE
    /\ failClosed \in BOOLEAN
    /\ agent = "up" /\ applied = Unapplied /\ queue = {}
    /\ waits = [s \in Submitters |-> {}] /\ marker = FALSE
    /\ spool = {} /\ answer = {} /\ access \in BOOLEAN
    /\ registered = TRUE /\ writer = NoRendering
    /\ job = {} /\ lastDigest = {}
    /\ install = "none" /\ inherited = FALSE /\ cutShort = FALSE
    /\ DiskInit
    /\ faults = 0

-----------------------------------------------------------------------------
(* The Agent.                                                              *)

\* A heartbeat that reports another hash than the policy's is answered with
\* the policy. A full channel is emptied first.
ReceivePolicy ==
    /\ agent = "up" /\ waits["heartbeat"] = {}
    /\ ~outage /\ ~revoked
    /\ applied.hash # Hash(Granted(published))
    /\ queue' = {Payload(published)}
    /\ UNCHANGED <<agent, applied, waits, marker, writerVars, envVars,
                   installVars, spool, answer, disk, faults>>

\* tmp, fsync, rename: the file holds one desired state or the other.
atomicWriteSpoolFile(d) == access /\ spool' = {d}

submitDesiredState(s, d) ==
    /\ atomicWriteSpoolFile(d)
    /\ waits' = [waits EXCEPT ![s] = {d}]

\* Only the status; version and hash do not advance.
Failed == applied' = [applied EXCEPT !.status = "failed"]

\* The worker takes a policy, validates it and submits it. It drains the
\* channel even when the Agent is ending.
doApplyPolicy ==
    /\ agent # "down" /\ waits["worker"] = {}
    /\ \E p \in queue :
          /\ queue' = {}
          /\ IF Invalid(p) \/ ~access
             THEN Failed /\ UNCHANGED <<waits, spool>>
             ELSE /\ submitDesiredState("worker", [policy |-> p, deprovision |-> FALSE])
                  /\ UNCHANGED applied
    /\ UNCHANGED <<agent, marker, writerVars, envVars, installVars, answer,
                   disk, faults>>

\* fail_closed_after has elapsed: the empty policy, applied by the heartbeat
\* goroutine itself.
checkFailClosed ==
    /\ agent = "up" /\ waits["heartbeat"] = {}
    /\ failClosed /\ outage /\ access
    /\ submitDesiredState("heartbeat", Desired(0))
    /\ UNCHANGED <<agent, applied, queue, marker, writerVars, envVars,
                   installVars, answer, disk, faults>>

\* 410: the wipe is submitted; without access the Agent goes on at once.
onRevoked ==
    /\ agent = "up" /\ waits["heartbeat"] = {}
    /\ revoked /\ ~outage
    /\ IF access
       THEN submitDesiredState("heartbeat", Deprovision) /\ UNCHANGED agent
       ELSE agent' = "cleanup" /\ UNCHANGED <<waits, spool>>
    /\ UNCHANGED <<applied, queue, marker, writerVars, envVars, installVars,
                   answer, disk, faults>>

\* Mutant: any status answers.
matchesAnything(st, d) == TRUE

matchesDesired(st, d) ==
    st.version = d.policy.version /\ st.hash = d.policy.hash

\* A goroutine is done waiting with result r. After a deprovision the result
\* is not looked at.
Waited(s, d, r) ==
    /\ waits' = [waits EXCEPT ![s] = {}]
    /\ IF d.deprovision
       THEN agent' = "cleanup" /\ UNCHANGED applied
       ELSE /\ IF r = "ok"
               THEN applied' = [version |-> d.policy.version,
                                hash |-> d.policy.hash, status |-> "ok"]
               ELSE Failed
            /\ UNCHANGED agent
    /\ UNCHANGED <<queue, marker, writerVars, envVars, installVars, spool, answer,
                   disk, faults>>

\* A status that matches, however old it is.
readMatchingAppliedStatus(s) ==
    \E d \in waits[s], st \in answer :
        /\ matchesDesired(st, d)
        /\ Waited(s, d, st.status)

\* applyTimeout has passed, or the Agent is shutting down.
pollTimeout(s) == \E d \in waits[s] : Waited(s, d, "failed")

Down == [NoRendering EXCEPT !.pc = "down"]

\* Whatever became of the wipe, the Agent stops the writer's service and
\* deletes it. Both are best effort: its account may lack the right to either,
\* the stop waits for the tick under way and may time out, and a service that
\* is deleted while it runs goes on until it stops.
deprovisionCleanup ==
    /\ agent = "cleanup"
    /\ agent' = "ending"
    /\ \/ writer.pc = "idle" /\ writer' = Down /\ lastDigest' = {}
       \/ UNCHANGED <<writer, lastDigest>>
    /\ registered' \in {registered, FALSE}
    /\ cutShort' = \/ cutShort
                   \/ /\ <<writer', registered'>> # <<writer, registered>>
                      /\ disk # NoFiles \/ writer.pc \notin {"idle", "down"}
    /\ UNCHANGED <<job, applied, queue, waits, marker, envVars, installVars,
                   spool, answer, disk, faults>>

writeMarker ==
    /\ agent = "ending" /\ ~marker
    /\ marker' = TRUE
    /\ UNCHANGED <<agent, applied, queue, waits, writerVars, envVars,
                   installVars, spool, answer, disk, faults>>

\* Run returns when the channel is drained and the worker idle.
AgentExit ==
    /\ agent = "ending" /\ marker
    /\ queue = {} /\ waits = [s \in Submitters |-> {}]
    /\ agent' = "down"
    /\ UNCHANGED <<applied, queue, waits, marker, writerVars, envVars,
                   installVars, spool, answer, disk, faults>>

Fresh ==
    /\ applied' = Unapplied
    /\ queue' = {}
    /\ waits' = [s \in Submitters |-> {}]

AgentCrash ==
    /\ agent # "down"
    /\ Fails("agent")
    /\ agent' = "down"
    /\ Fresh
    /\ UNCHANGED <<marker, writerVars, envVars, installVars, spool, answer, disk>>

\* An Agent that finds the marker does not run.
AgentStart ==
    /\ agent = "down" /\ ~marker
    /\ agent' = "up"
    /\ Fresh
    /\ UNCHANGED <<marker, writerVars, envVars, installVars, spool, answer,
                   disk, faults>>

-----------------------------------------------------------------------------
(* The writer.                                                             *)

\* tick: a desired state with another digest than the last one applied.
tick ==
    /\ writer.pc = "idle"
    /\ spool # {} /\ spool # lastDigest
    /\ job' = spool
    /\ \E d \in spool : writer' = BeginRender(d.policy)
    /\ UNCHANGED <<registered, lastDigest, cutShort, agentVars, envVars, installVars,
                   spool, answer, disk, faults>>

\* The renderer of PrincipalsDir; the writer validates once more.
applyDesiredStateBytes ==
    /\ \E p \in writer.snap :
          \/ /\ writer.pc = "validate"
             /\ writer' = IF Invalid(p) THEN [writer EXCEPT !.pc = "reportFailed"]
                          ELSE Validated(writer, p)
             /\ UNCHANGED disk
          \/ \E u \in writer.todo :
                /\ writer.pc = "write"
                /\ WriteFile(u, p)
                /\ writer' = Ticked(writer, u)
          \/ /\ writer.pc = "write" /\ writer.todo = {}
             /\ writer' = Listed(writer, p)
             /\ UNCHANGED disk
          \/ \E u \in writer.todo :
                /\ writer.pc = "remove"
                /\ RemoveFile(u)
                /\ writer' = Ticked(writer, u)
          \/ /\ writer.pc = "remove" /\ writer.todo = {}
             /\ writer' = [writer EXCEPT !.pc = "reportOk"]
             /\ UNCHANGED disk
    /\ UNCHANGED <<registered, job, lastDigest, cutShort, agentVars, envVars,
                   installVars, spool, answer, faults>>

\* What was written and removed so far stays.
RenderFails ==
    /\ writer.pc \in {"write", "remove"}
    /\ Fails("render")
    /\ writer' = [writer EXCEPT !.pc = "reportFailed"]
    /\ UNCHANGED <<registered, job, lastDigest, cutShort, agentVars, envVars,
                   installVars, spool, answer, disk>>

\* Mutant: a failed apply counts as acted on.
writeAppliedLatched ==
    /\ writer.pc \in {"reportOk", "reportFailed"}
    /\ answer' = {[version |-> d.policy.version, hash |-> d.policy.hash,
                   status |-> IF writer.pc = "reportOk" THEN "ok" ELSE "failed"]
                    : d \in job}
    /\ lastDigest' = job
    /\ writer' = IF writer.pc = "reportOk" THEN [writer EXCEPT !.pc = "settle"]
                 ELSE NoRendering
    /\ UNCHANGED <<registered, job, cutShort, agentVars, envVars, installVars, spool,
                   disk, faults>>

\* A status that cannot be written is lost.
writeApplied ==
    /\ writer.pc \in {"reportOk", "reportFailed"}
    /\ \/ /\ answer' = {[version |-> d.policy.version, hash |-> d.policy.hash,
                         status |-> IF writer.pc = "reportOk" THEN "ok" ELSE "failed"]
                          : d \in job}
          /\ UNCHANGED faults
       \/ Fails("status") /\ UNCHANGED answer
    /\ writer' = IF writer.pc = "reportOk" THEN [writer EXCEPT !.pc = "settle"]
                 ELSE NoRendering
    /\ UNCHANGED <<registered, job, lastDigest, cutShort, agentVars, envVars,
                   installVars, spool, disk>>

\* Mutant: the wipe is taken for an ordinary apply.
neverSelfRemove(d) == FALSE

shouldSelfRemoveOnApply(d) == d.deprovision

\* lastDigest, and after a deprovision the service deletes itself and stops,
\* deleted or not.
Settle ==
    /\ writer.pc = "settle"
    /\ \E d \in job :
          IF shouldSelfRemoveOnApply(d)
          THEN /\ writer' = Down
               /\ lastDigest' = {}
               /\ \/ registered' = FALSE /\ UNCHANGED faults
                  \/ Fails("scm") /\ UNCHANGED registered
          ELSE /\ writer' = NoRendering
               /\ lastDigest' = job
               /\ UNCHANGED <<registered, faults>>
    /\ UNCHANGED <<job, cutShort, agentVars, envVars, installVars, spool, answer,
                   disk>>

WriterCrash ==
    /\ writer.pc # "down"
    /\ Fails("writer")
    /\ writer' = Down
    /\ lastDigest' = {}
    /\ UNCHANGED <<registered, job, cutShort, agentVars, envVars, installVars, spool,
                   answer, disk>>

\* At boot, or by the operator.
WriterStart ==
    /\ registered /\ writer.pc = "down"
    /\ writer' = NoRendering
    /\ lastDigest' = {}
    /\ UNCHANGED <<registered, job, cutShort, agentVars, envVars, installVars, spool,
                   answer, disk, faults>>

-----------------------------------------------------------------------------
(* agent install. The steps before the services are those of Gatekeeper.   *)

\* The operator installs again, after a deprovision only once the Agent has
\* ended, and takes the marker away.
BeginInstall ==
    /\ install = "none"
    /\ Fails("install")
    /\ revoked => agent = "down"
    /\ install' = "service"
    /\ marker' = FALSE
    /\ UNCHANGED <<agent, applied, queue, waits, writerVars, envVars, access,
                   inherited, spool, answer, disk>>

\* Best effort: an error of the remove is ignored. applied.json is never
\* cleared: it may still speak of the policy of an Agent that is gone.
ClearSpoolDesiredState ==
    /\ spool' \in {{}, spool}
    /\ inherited' = \/ inherited
                    \/ revoked /\ (spool' # {} \/ \E st \in answer : st.version # 0)

\* A service that is not there or has drifted is made anew, once the tick
\* under way is over, and the spool cleared; one that is there is left alone,
\* even if it runs on only until it stops.
installPrincipalsWriterService ==
    /\ install = "service"
    /\ install' = "spool"
    /\ revoked' = FALSE
    /\ \/ /\ writer.pc = "down" \/ (registered /\ writer.pc = "idle")
          /\ registered' = TRUE
          /\ writer' = Down
          /\ lastDigest' = {}
          /\ cutShort' = FALSE
          /\ ClearSpoolDesiredState
       \/ /\ registered \/ writer.pc # "down"
          /\ inherited' = (inherited \/ revoked)
          /\ UNCHANGED <<registered, writer, lastDigest, cutShort, spool>>
    /\ UNCHANGED <<job, agentVars, published, outage, failClosed, access, answer,
                   disk, faults>>

createSpoolDirWithACL ==
    /\ install = "spool"
    /\ install' = "startAgent"
    /\ access' = TRUE
    /\ UNCHANGED <<agentVars, writerVars, envVars, inherited, spool, answer,
                   disk, faults>>

\* Stopped and started; an Agent that has written the marker since does not
\* run.
startServiceWindows ==
    /\ install = "startAgent"
    /\ install' = "startWriter"
    /\ agent' = IF marker THEN "down" ELSE "up"
    /\ Fresh
    /\ UNCHANGED <<marker, writerVars, envVars, access, inherited, spool,
                   answer, disk, faults>>

\* A stop waits for the tick under way, and is the end of a service that is
\* deleted. When a removed Agent has deleted it during the installation, the
\* start fails and the installation with it.
startPrincipalsWriterService ==
    /\ install = "startWriter"
    /\ writer.pc \in {"idle", "down"}
    /\ install' = "none"
    /\ writer' = IF registered THEN NoRendering ELSE Down
    /\ lastDigest' = {}
    /\ inherited' = (inherited \/ ~registered)
    /\ UNCHANGED <<registered, job, cutShort, agentVars, envVars, access, spool,
                   answer, disk, faults>>

-----------------------------------------------------------------------------
(* The Control plane.                                                      *)

Publish ==
    /\ published < Len(History)
    /\ published' = published + 1
    /\ UNCHANGED <<revoked, outage, failClosed, agentVars, writerVars,
                   installVars, spool, answer, disk, faults>>

Remove ==
    /\ install = "none" /\ ~revoked
    /\ Fails("rm")
    /\ revoked' = TRUE
    /\ UNCHANGED <<published, outage, failClosed, agentVars, writerVars,
                   installVars, spool, answer, disk>>

Outage ==
    /\ \/ ~outage /\ Fails("cut")
       \/ outage /\ UNCHANGED faults
    /\ outage' = ~outage
    /\ UNCHANGED <<published, revoked, failClosed, agentVars, writerVars,
                   installVars, spool, answer, disk>>

Poll(s) == readMatchingAppliedStatus(s) \/ pollTimeout(s)

Agent ==
    \/ ReceivePolicy \/ doApplyPolicy \/ checkFailClosed \/ onRevoked
    \/ deprovisionCleanup \/ writeMarker \/ AgentExit \/ AgentCrash \/ AgentStart

Writer ==
    tick \/ applyDesiredStateBytes \/ writeApplied \/ Settle

Installer ==
    \/ installPrincipalsWriterService \/ createSpoolDirWithACL
    \/ startServiceWindows \/ startPrincipalsWriterService

Next ==
    \/ Agent
    \/ \E s \in Submitters : Poll(s)
    \/ Writer \/ RenderFails \/ WriterCrash \/ WriterStart
    \/ BeginInstall \/ Installer
    \/ Publish \/ Remove \/ Outage

Spec == Init /\ [][Next]_vars

\* The goroutines and the writer's ticker run on; services are started again,
\* at the latest at the next boot. The operator, the Control plane and the
\* failures are never fair. ReceivePolicy is strong: a wipe that waits takes
\* the heartbeat loop's turn.
Fairness ==
    /\ SF_vars(ReceivePolicy)
    /\ WF_vars(doApplyPolicy)
    /\ WF_vars(checkFailClosed)
    /\ WF_vars(onRevoked)
    /\ WF_vars(deprovisionCleanup)
    /\ WF_vars(writeMarker)
    /\ WF_vars(AgentExit)
    /\ WF_vars(AgentStart)
    /\ \A s \in Submitters : WF_vars(Poll(s))
    /\ WF_vars(Writer)
    /\ WF_vars(WriterStart)
    /\ WF_vars(Installer)

FairSpec == Spec /\ Fairness

-----------------------------------------------------------------------------
(* Properties.                                                             *)

\* The host belongs to an Agent that is enrolled, and no installation has left
\* the desired state, the writer or a status of one that was removed before.
InService == ~revoked /\ ~marker /\ ~inherited

\* Without fail-closed, a success the Agent reports is one of this policy,
\* however late, early or old the status that told it: while the spool still
\* asks for that version the directory holds exactly its grants.
OkMeansOnDisk ==
    (/\ ~failClosed /\ InService
     /\ applied.status = "ok"
     /\ spool = {Desired(applied.version)})
        => disk = Projection(Granted(applied.version))

\* A policy reaches the directory of a reachable host that does not fail
\* closed, across crashes of both services, failed renderings, lost and stale
\* statuses, timeouts, and an installation on top. Nothing is said of a host
\* on which an installation came upon what a removed Agent had left: when the
\* spool could not be cleared, the new writer wipes and deletes itself.
PoliciesReachDisk ==
    (Granted(published) # {}) ~>
        \/ disk = Projection(Granted(published))
        \/ failClosed \/ outage \/ ~access \/ ~InService

\* A deprovision that reaches the spool and is not overwritten ends with the
\* writer's service removed, whether or not the Agent still waits for it and
\* may remove it itself, and with an empty directory, unless the Agent took
\* the writer away before it had come to the wipe.
DeprovisionRemovesWriter ==
    (spool = {Deprovision} /\ registered) ~>
        \/ ~registered /\ (disk = NoFiles \/ cutShort)
        \/ spool # {Deprovision}

\* policy_apply_windows.go on applyTimeout: a failed apply does not advance
\* appliedVersion "and the Control plane keeps re-sending policy". A wipe
\* that fails leaves the hash of the policy in place, which is therefore not
\* sent again, although the writer has removed or will remove its files.
FailedApplyIsResent ==
    (applied.status = "failed" /\ Granted(published) # {}) ~>
        \/ disk = Projection(Granted(published))
        \/ outage \/ ~access \/ ~InService

=============================================================================
