----------------------------- MODULE PolicySync -----------------------------
(***************************************************************************)
(* Policy synchronisation end to end: operator, Control plane, link and    *)
(* Agent. The Agent's heartbeat waits for at most one request; a request   *)
(* nobody waits for any more may still be in service.                      *)
(***************************************************************************)
EXTENDS HeartbeatHandler, AgentRun

VARIABLE awaited   \* {} or the request the heartbeat goroutine waits for

vars == <<storeVars, handler, agentVars, awaited, envVars>>

TypeOK ==
    /\ StoreTypeOK
    /\ HandlerTypeOK
    /\ AgentTypeOK
    /\ EnvTypeOK
    /\ awaited \in SUBSET Handlers

Init ==
    /\ StoreInit
    /\ HandlerInit
    /\ AgentInit
    /\ EnvInit
    /\ awaited = {}

-----------------------------------------------------------------------------
(* The exchange.                                                           *)

SendHeartbeat(h) ==
    /\ ~partitioned
    /\ Beat
    /\ Arrive(h, [version |-> applied.version, hash |-> applied.hash])
    /\ awaited' = {h}
    /\ UNCHANGED <<storeVars, envVars>>

\* Mutant: any answer will do, also one to a request given up before.
ReceiveAnyAnswer(h) ==
    /\ handler[h].pc = "respond"
    /\ ~partitioned
    /\ \/ handler[h].code = 200 /\ BeatOK(handler[h].policy, handler[h].fca)
       \/ handler[h].code = 401 /\ BeatUnauthorized
       \/ handler[h].code = 410 /\ BeatGone
       \/ handler[h].code = 500 /\ BeatError
    /\ awaited' = {}
    /\ Release(h)
    /\ UNCHANGED <<storeVars, envVars>>

\* The client's view of the answer (ServerClient.do, then heartbeatLoop).
ReceiveAnswer(h) ==
    /\ h \in awaited
    /\ handler[h].pc = "respond"
    /\ ~partitioned
    /\ \/ handler[h].code = 200 /\ BeatOK(handler[h].policy, handler[h].fca)
       \/ handler[h].code = 401 /\ BeatUnauthorized
       \/ handler[h].code = 410 /\ BeatGone
       \/ handler[h].code = 500 /\ BeatError
    /\ awaited' = {}
    /\ Release(h)
    /\ UNCHANGED <<storeVars, envVars>>

\* The client gives up (45s); the handler does not know.
Timeout ==
    /\ partitioned
    /\ BeatError
    /\ awaited' = {}
    /\ UNCHANGED <<storeVars, handler, envVars>>

\* An answer, or a cancelled request, nobody waits for.
Abandon(h) ==
    /\ h \notin awaited
    /\ handler[h].pc # "free"
    /\ Release(h)
    /\ UNCHANGED <<storeVars, agentVars, awaited, envVars>>

-----------------------------------------------------------------------------

Operator ==
    /\ \/ \E g \in Grants : CreateACL(g)
       \/ \E g \in Grants : DeleteACL(g)
       \/ RevokeAgent
       \/ RevokeToken
       \/ \E on \in BOOLEAN : SetAgentFailClosedAfter(on)
    /\ UNCHANGED <<handler, agentVars, awaited, envVars>>

Link ==
    /\ Cut \/ Heal
    /\ UNCHANGED <<storeVars, handler, agentVars, awaited>>

Server(h) ==
    /\ HandlerStep(h) \/ HandlerError(h)
    /\ UNCHANGED <<agentVars, awaited>>

Local ==
    /\ \/ WorkerStep
       \/ FailClosedStep
       \/ WipeStep
       \/ Elapse
       \/ CheckFailClosed
    /\ UNCHANGED <<storeVars, handler, awaited, envVars>>

LocalFault ==
    /\ AgentFault
    /\ UNCHANGED <<storeVars, handler, awaited>>

Lifecycle ==
    /\ \/ Shutdown
       \/ Exit /\ UNCHANGED envVars
       \/ Crash
       \/ Restart /\ UNCHANGED envVars
    /\ awaited' = {}
    /\ UNCHANGED <<storeVars, handler>>

Next ==
    \/ Operator
    \/ Link
    \/ \E h \in Handlers :
          SendHeartbeat(h) \/ ReceiveAnswer(h) \/ Abandon(h) \/ Server(h)
    \/ Timeout
    \/ Local
    \/ LocalFault
    \/ Lifecycle

Spec == Init /\ [][Next]_vars

-----------------------------------------------------------------------------
(* Fairness: goroutines and request handlers keep running, the supervisor  *)
(* restarts a stopped Agent, and Go's select serves both tickers of the    *)
(* heartbeat loop (strong: the loop leaves and re-enters the select). The  *)
(* operator, the link and the faults are never fair.                       *)

Progress(A) == A /\ UNCHANGED <<storeVars, handler, awaited, envVars>>

Fairness ==
    /\ SF_vars(\E h \in Handlers : SendHeartbeat(h))
    /\ WF_vars(\E h \in Handlers : ReceiveAnswer(h))
    /\ WF_vars(Timeout)
    /\ \A h \in Handlers :
          /\ WF_vars(HandlerStep(h) /\ UNCHANGED <<agentVars, awaited>>)
          /\ WF_vars(Abandon(h))
    /\ WF_vars(Progress(WorkerStep))
    /\ WF_vars(Progress(FailClosedStep))
    /\ WF_vars(Progress(WipeStep))
    /\ WF_vars(Progress(Elapse))
    /\ SF_vars(Progress(CheckFailClosed))
    /\ WF_vars(Lifecycle /\ Exit)
    /\ WF_vars(Lifecycle /\ Restart)

FairSpec == Spec /\ Fairness

-----------------------------------------------------------------------------
(* Safety.                                                                 *)

\* The heartbeat loop runs and the link is up.
Reachable == proc = "running" /\ hb.pc # "done" /\ ~partitioned

\* Every policy between a handler's answer and the end of its application.
InTransit == queue \cup worker.snap \cup
             UNION {handler[h].policy : h \in Handlers}

\* p is, in all its parts, one and the same published version of the ACL.
Published(p) ==
    /\ p.version \in 0..version
    /\ p.hash = Hash(aclAt[p.version])
    /\ p.principals = Projection(aclAt[p.version])

\* No torn snapshot: whatever interleaves with the handler, a policy on its
\* way to the Agent carries the version, the hash and the principals of one
\* and the same published ACL (GetPolicySnapshot's read transaction, #41).
NoTornPolicy == \A p \in InTransit : Published(p)

\* Whatever crashes, fails half-way or races, a principals file always holds
\* exactly what some published ACL granted for that user: no mixture of two
\* versions inside one file (atomicWritePrincipals), no caller never granted.
FilesWereGranted ==
    \A u \in Users :
        disk[u] # {} =>
            \E v \in 0..version : disk[u] = Projection(aclAt[v])[u]

\* The version an Agent reports never goes back while it runs, but for the
\* explicit 0 of a fail-closed wipe: answers cannot be applied out of order.
AppliedNeverRegresses ==
    [][\/ applied'.version >= applied.version
       \/ applied'.version = 0]_applied

\* Without fail-closed, a successful report is the truth: when no apply is
\* under way and the last one succeeded, the directory holds exactly the
\* ACL of the version reported, file by file.
AppliedMeansOnDisk ==
    (/\ worker.pc = "idle"
     /\ hb.pc \in {"idle", "waiting"}
     /\ applied.status = "ok"
     /\ applied.version > 0)
        => disk = Projection(aclAt[applied.version])

\* The row an operator compares (desired against applied version) never
\* claims an Agent ahead of the Control plane, although the report is older
\* than the snapshot and two requests may write the row in either order.
DesiredCoversApplied ==
    policyState.desired # 0 => policyState.applied <= policyState.desired

\* A username validateUsername rejects never gets a file, although the
\* Control plane accepts it into the ACL and sends it.
RejectedNamesNeverOnDisk == \A u \in BadUsers : disk[u] = {}

\* A heartbeat that arrives after `agents rm` has committed is never served,
\* not even when an older request has set the status back to online: the
\* revoked token still refuses it (requireAuth applies revoked_at to all).
RemovedNeverServed ==
    \A h \in Handlers : handler[h].late => handler[h].code # 200

Replica == INSTANCE PrincipalsReplica WITH
               latest <- version, log <- aclAt, adopted <- rendered,
               files <- disk

\* The principals directory is a replica of the ACL log that never goes back:
\* every rename and remove, of whichever goroutine, before or after whatever
\* crash, is a Put of the newest version begun so far or a Drop.
ImplementsReplica == Replica!ReplicaSpec

-----------------------------------------------------------------------------
(* What the documentation claims and the code does not keep.               *)

\* ACCEPTANCE.md: removing all ACL rows for a user deletes that user's file.
\* A restarted Agent reports "", the hash of an empty ACL: it is sent nothing
\* and keeps the files of the process before.
RemovedUserHasNoFile ==
    \A u \in Users :
        (Projection(acl)[u] = {}) ~>
            (disk[u] = {} \/ Projection(acl)[u] # {} \/ partitioned)

-----------------------------------------------------------------------------
(* Liveness, of FairSpec.                                                  *)

\* The ACL holds a username the Agent refuses.
Poisoned == \E u \in BadUsers : Projection(acl)[u] # {}

\* A failed apply the Control plane cannot see: it compares hashes, and the
\* ACL was changed back to the one applied before.
FailureHidden == applied.status = "failed" /\ applied.hash = hash

\* An ACL that is not empty (and has no rejected username in it) reaches the
\* directory of an Agent that stays reachable, whatever crash, half-finished
\* apply or refused policy came before, unless the failure stays hidden.
GrantsReachDisk ==
    (acl # {}) ~>
        \/ disk = Projection(acl)
        \/ acl = {} \/ Poisoned \/ ~Reachable \/ FailureHidden

\* Removing all rows of a user removes that user's file, the last row of the
\* ACL included, once the Agent reports what it applied before, unless a
\* failed apply stays hidden. (An Agent that was restarted and has nothing to
\* report is RemovedUserHasNoFile's.)
RemovalReachesDisk ==
    \A u \in Users :
        (Projection(acl)[u] = {} /\ applied.hash # hash) ~>
            \/ disk[u] = {}
            \/ Projection(acl)[u] # {} \/ Poisoned \/ ~Reachable \/ FailureHidden

\* An outage that lasts closes an Agent that was told to fail closed, for as
\* long as it lasts, even if an apply was under way when it began.
FailClosedWipes ==
    <>[](partitioned /\ client.fca /\ client.lastOK)
        => <>[](disk = NoFiles)

\* A removed Agent stops by itself once it can reach the Control plane: no
\* order of the removal and the requests in service keeps it running.
RemovedStops ==
    removed ~> (hb.pc = "done" \/ proc = "stopped" \/ partitioned)

\* A failed apply whose policy is still not the one applied is applied again
\* until it succeeds or the operator changes the ACL back.
FailedApplyRetried ==
    (applied.status = "failed" /\ applied.hash # hash) ~>
        (applied.status # "failed" \/ applied.hash = hash \/ ~Reachable)

=============================================================================
