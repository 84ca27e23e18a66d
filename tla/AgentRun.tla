------------------------------ MODULE AgentRun ------------------------------
(***************************************************************************)
(* The Agent process on Unix: Agent.Run with its two goroutines, the       *)
(* heartbeat loop and the apply worker (internal/agent/agent.go), inside   *)
(* RunAgent under a supervisor that starts it again (internal/cli,         *)
(* internal/agent/launcher.go). Everything but the principals directory    *)
(* and the .deprovisioned marker is memory and dies with the process.      *)
(***************************************************************************)
EXTENDS PrincipalsDir, Environment

VARIABLES
    proc,      \* "running" or "stopped"
    marker,    \* the .deprovisioned file exists
    applied,   \* policyStateVal: version, hash and status of the last apply
    queue,     \* applyCh, a channel of capacity 1: {} or {policy}
    worker,    \* the apply worker's rendering
    hb,        \* the heartbeat goroutine: [pc, todo]
    client,    \* failClosedAfterSec set; lastHeartbeatOK set; it is too old
    rendered   \* history: the newest version a rendering was begun for

memory == <<applied, queue, worker, hb, client>>

agentVars == <<proc, marker, memory, rendered, disk>>

\* idle: in the select;  waiting: request sent;  done: heartbeatLoop returned;
\* fc...: inside checkFailClosed;  wipe...: inside onRevoked.
HbPC == {"idle", "waiting", "fcList", "fcRemove", "wipeList", "wipeRemove",
         "done"}

NoApply == [version |-> 0, hash |-> NoHash, status |-> ""]

NoHeartbeat == [pc |-> "idle", todo |-> {}]

NoClient == [fca |-> FALSE, lastOK |-> FALSE, overdue |-> FALSE]

AgentTypeOK ==
    /\ DiskTypeOK
    /\ proc \in {"running", "stopped"}
    /\ marker \in BOOLEAN
    /\ applied \in [version : Nat, hash : Hashes, status : {"", "ok", "failed"}]
    /\ queue \in SUBSET Policies
    /\ worker \in Renderings
    /\ hb \in [pc : HbPC, todo : SUBSET Users]
    /\ client \in [fca : BOOLEAN, lastOK : BOOLEAN, overdue : BOOLEAN]
    /\ rendered \in Nat

\* Mutant: what was applied survives the process.
MemoryKeepsApplied ==
    /\ applied' = applied
    /\ queue' = {}
    /\ worker' = NoRendering
    /\ hb' = NoHeartbeat
    /\ client' = NoClient

\* agent.New: zero values.
FreshMemory ==
    /\ applied' = NoApply
    /\ queue' = {}
    /\ worker' = NoRendering
    /\ hb' = NoHeartbeat
    /\ client' = NoClient

AgentInit ==
    /\ DiskInit
    /\ proc = "running"
    /\ marker = FALSE
    /\ applied = NoApply
    /\ queue = {}
    /\ worker = NoRendering
    /\ hb = NoHeartbeat
    /\ client = NoClient
    /\ rendered = 0

-----------------------------------------------------------------------------
(* The heartbeat goroutine.                                                *)

\* heartbeatOnceV2 up to the request: the report is a snapshot of applied.
Beat ==
    /\ proc = "running"
    /\ hb.pc = "idle"
    /\ hb' = [hb EXCEPT !.pc = "waiting"]
    /\ UNCHANGED <<proc, marker, applied, queue, worker, client, rendered,
                   disk>>

\* The channel send with its drain-and-resend: a policy not yet taken by the
\* worker is replaced. Only this goroutine sends, so the second send succeeds.
Dispatch(policy) == queue' = IF policy = {} THEN queue ELSE policy

\* 200: the rest of heartbeatOnceV2.
BeatOK(policy, fca) ==
    /\ hb.pc = "waiting"
    /\ hb' = [hb EXCEPT !.pc = "idle"]
    /\ client' = [fca |-> fca, lastOK |-> TRUE, overdue |-> FALSE]
    /\ Dispatch(policy)
    /\ UNCHANGED <<proc, marker, applied, worker, rendered, disk>>

\* Mutant: 401 is an error like any other.
UnauthorizedRetried ==
    /\ hb.pc = "waiting"
    /\ hb' = [hb EXCEPT !.pc = "idle"]
    /\ UNCHANGED <<proc, marker, applied, queue, worker, client, rendered,
                   disk>>

\* 401: heartbeatLoop returns, principals preserved.
BeatUnauthorized ==
    /\ hb.pc = "waiting"
    /\ hb' = [hb EXCEPT !.pc = "done"]
    /\ UNCHANGED <<proc, marker, applied, queue, worker, client, rendered,
                   disk>>

\* 410: onRevoked begins.
BeatGone ==
    /\ hb.pc = "waiting"
    /\ hb' = [hb EXCEPT !.pc = "wipeList"]
    /\ UNCHANGED <<proc, marker, applied, queue, worker, client, rendered,
                   disk>>

\* Any other error, a timeout included: logged, the loop goes on.
BeatError ==
    /\ hb.pc = "waiting"
    /\ hb' = [hb EXCEPT !.pc = "idle"]
    /\ UNCHANGED <<proc, marker, applied, queue, worker, client, rendered,
                   disk>>

\* fail_closed_after elapses since the last successful heartbeat.
Elapse ==
    /\ proc = "running"
    /\ client.fca /\ client.lastOK
    /\ ~client.overdue
    /\ client' = [client EXCEPT !.overdue = TRUE]
    /\ UNCHANGED <<proc, marker, applied, queue, worker, hb, rendered, disk>>

\* Mutant: no second wipe when nothing is recorded as applied.
FailClosedOnce ==
    /\ proc = "running"
    /\ hb.pc = "idle"
    /\ client.fca /\ client.lastOK /\ client.overdue
    /\ applied.hash # NoHash
    /\ hb' = [hb EXCEPT !.pc = "fcList"]
    /\ UNCHANGED <<proc, marker, applied, queue, worker, client, rendered,
                   disk>>

\* The 30s ticker: runApplyPolicy of an empty policy, in THIS goroutine. It
\* has no file to write; it lists, removes and then sets applied.
CheckFailClosed ==
    /\ proc = "running"
    /\ hb.pc = "idle"
    /\ client.fca /\ client.lastOK /\ client.overdue
    /\ hb' = [hb EXCEPT !.pc = "fcList"]
    /\ UNCHANGED <<proc, marker, applied, queue, worker, client, rendered,
                   disk>>

FailClosedList ==
    /\ hb.pc = "fcList"
    /\ hb' = [pc |-> "fcRemove", todo |-> Present]
    /\ UNCHANGED <<proc, marker, applied, queue, worker, client, rendered,
                   disk>>

FailClosedRemove(u) ==
    /\ hb.pc = "fcRemove"
    /\ u \in hb.todo
    /\ RemoveFile(u)
    /\ hb' = [hb EXCEPT !.todo = @ \ {u}]
    /\ UNCHANGED <<proc, marker, applied, queue, worker, client, rendered>>

FailClosedDone ==
    /\ hb.pc = "fcRemove"
    /\ hb.todo = {}
    /\ applied' = [version |-> 0, hash |-> NoHash, status |-> "ok"]
    /\ hb' = NoHeartbeat
    /\ UNCHANGED <<proc, marker, queue, worker, client, rendered, disk>>

FailClosedFail ==
    /\ hb.pc \in {"fcList", "fcRemove"}
    /\ Fault("apply")
    /\ applied' = [applied EXCEPT !.status = "failed"]
    /\ hb' = NoHeartbeat
    /\ UNCHANGED <<proc, marker, queue, worker, client, rendered, disk>>

\* wipePrincipals: ReadDir, then best-effort removes. An unreadable directory
\* ends the wipe, but not the deprovision.
WipeList ==
    /\ hb.pc = "wipeList"
    /\ hb' = [pc |-> "wipeRemove", todo |-> Present]
    /\ UNCHANGED <<proc, marker, applied, queue, worker, client, rendered,
                   disk>>

WipeListFail ==
    /\ hb.pc = "wipeList"
    /\ Fault("wipe")
    /\ hb' = [pc |-> "wipeRemove", todo |-> {}]
    /\ UNCHANGED <<proc, marker, applied, queue, worker, client, rendered,
                   disk>>

WipeRemove(u) ==
    /\ hb.pc = "wipeRemove"
    /\ u \in hb.todo
    /\ RemoveFile(u)
    /\ hb' = [hb EXCEPT !.todo = @ \ {u}]
    /\ UNCHANGED <<proc, marker, applied, queue, worker, client, rendered>>

WipeRemoveFail(u) ==
    /\ hb.pc = "wipeRemove"
    /\ u \in hb.todo
    /\ Fault("wipe")
    /\ hb' = [hb EXCEPT !.todo = @ \ {u}]
    /\ UNCHANGED <<proc, marker, applied, queue, worker, client, rendered,
                   disk>>

\* The marker, and ErrDeprovisioned. A marker that cannot be written is
\* ignored as well.
WipeDone ==
    /\ hb.pc = "wipeRemove"
    /\ hb.todo = {}
    /\ marker' = TRUE
    /\ hb' = [hb EXCEPT !.pc = "done"]
    /\ UNCHANGED <<proc, applied, queue, worker, client, rendered, disk>>

WipeDoneNoMarker ==
    /\ hb.pc = "wipeRemove"
    /\ hb.todo = {}
    /\ Fault("wipe")
    /\ hb' = [hb EXCEPT !.pc = "done"]
    /\ UNCHANGED <<proc, marker, applied, queue, worker, client, rendered,
                   disk>>

-----------------------------------------------------------------------------
(* The apply worker: runApplyPolicy of what it takes from applyCh.         *)

WorkerTake ==
    /\ worker.pc = "idle"
    /\ \E p \in queue :
          /\ queue' = {}
          /\ worker' = BeginRender(p)
          /\ rendered' = IF p.version > rendered THEN p.version ELSE rendered
    /\ UNCHANGED <<proc, marker, applied, hb, client, disk>>

\* Mutant: the payload is not validated.
ValidateNothing ==
    /\ worker.pc = "validate"
    /\ \E p \in worker.snap : worker' = Validated(worker, p)
    /\ UNCHANGED <<proc, marker, applied, queue, hb, client, rendered, disk>>

WorkerValidate ==
    /\ worker.pc = "validate"
    /\ \E p \in worker.snap :
          /\ ~Invalid(p)
          /\ worker' = Validated(worker, p)
    /\ UNCHANGED <<proc, marker, applied, queue, hb, client, rendered, disk>>

WorkerWrite(u) ==
    /\ worker.pc = "write"
    /\ u \in worker.todo
    /\ \E p \in worker.snap : WriteFile(u, p)
    /\ worker' = Ticked(worker, u)
    /\ UNCHANGED <<proc, marker, applied, queue, hb, client, rendered>>

WorkerList ==
    /\ worker.pc = "write"
    /\ worker.todo = {}
    /\ \E p \in worker.snap : worker' = Listed(worker, p)
    /\ UNCHANGED <<proc, marker, applied, queue, hb, client, rendered, disk>>

WorkerRemove(u) ==
    /\ worker.pc = "remove"
    /\ u \in worker.todo
    /\ RemoveFile(u)
    /\ worker' = Ticked(worker, u)
    /\ UNCHANGED <<proc, marker, applied, queue, hb, client, rendered>>

\* Success: version, hash and status under policyMu.
WorkerDone ==
    /\ worker.pc = "remove"
    /\ worker.todo = {}
    /\ \E p \in worker.snap :
          applied' = [version |-> p.version, hash |-> p.hash, status |-> "ok"]
    /\ worker' = NoRendering
    /\ UNCHANGED <<proc, marker, queue, hb, client, rendered, disk>>

\* Mutant: a status the Control plane does not know.
ApplyErrored ==
    /\ applied' = [applied EXCEPT !.status = "error"]
    /\ worker' = NoRendering
    /\ UNCHANGED <<proc, marker, queue, hb, client, rendered, disk>>

\* Failure: only the status; version and hash do not advance.
ApplyFailed ==
    /\ applied' = [applied EXCEPT !.status = "failed"]
    /\ worker' = NoRendering
    /\ UNCHANGED <<proc, marker, queue, hb, client, rendered, disk>>

WorkerInvalid ==
    /\ worker.pc = "validate"
    /\ \E p \in worker.snap : Invalid(p)
    /\ ApplyFailed

WorkerFail ==
    /\ worker.pc # "idle"
    /\ Fault("apply")
    /\ ApplyFailed

-----------------------------------------------------------------------------
(* The life of the process.                                                *)

\* SIGTERM cancels the context: the heartbeat loop returns from its select or
\* from the request it waits for (a fail-closed or a wipe runs to its end).
Shutdown ==
    /\ proc = "running"
    /\ hb.pc \in {"idle", "waiting"}
    /\ Fault("stop")
    /\ hb' = [hb EXCEPT !.pc = "done"]
    /\ UNCHANGED <<proc, marker, applied, queue, worker, client, rendered,
                   disk>>

\* Run's shutdown: the heartbeat goroutine has returned, applyCh is closed,
\* and the worker drains what was queued before Run returns.
Exit ==
    /\ proc = "running"
    /\ hb.pc = "done"
    /\ queue = {}
    /\ worker.pc = "idle"
    /\ proc' = "stopped"
    /\ FreshMemory
    /\ UNCHANGED <<marker, rendered, disk>>

Crash ==
    /\ proc = "running"
    /\ Fault("crash")
    /\ proc' = "stopped"
    /\ FreshMemory
    /\ UNCHANGED <<marker, rendered, disk>>

\* The supervisor starts it again; RunAgent refuses when the marker exists.
Restart ==
    /\ proc = "stopped"
    /\ ~marker
    /\ proc' = "running"
    /\ UNCHANGED <<marker, memory, rendered, disk>>

WorkerStep ==
    \/ WorkerTake
    \/ WorkerValidate
    \/ WorkerInvalid
    \/ \E u \in Users : WorkerWrite(u)
    \/ WorkerList
    \/ \E u \in Users : WorkerRemove(u)
    \/ WorkerDone

FailClosedStep ==
    \/ FailClosedList
    \/ \E u \in Users : FailClosedRemove(u)
    \/ FailClosedDone

WipeStep ==
    \/ WipeList
    \/ \E u \in Users : WipeRemove(u)
    \/ WipeDone

\* A fault that hits the Agent while it keeps running.
AgentFault ==
    \/ WorkerFail
    \/ FailClosedFail
    \/ WipeListFail
    \/ \E u \in Users : WipeRemoveFail(u)
    \/ WipeDoneNoMarker

=============================================================================
