-------------------------- MODULE HeartbeatHandler --------------------------
(***************************************************************************)
(* The Control plane's side of a heartbeat: requireAuth, then              *)
(* handleV2Heartbeat. Every store call is a step of its own, because the   *)
(* operator's commands, and a second request of the same Agent, may commit *)
(* between two of them. A request keeps being served after its client has  *)
(* given up on it.                                                         *)
(***************************************************************************)
EXTENDS PolicyStore, Environment

CONSTANT Handlers   \* request slots: how many requests may be in service

VARIABLE handler

\* The store call a request is about to make; "respond" = answered.
HandlerPC == {"free", "GetTokenByID", "GetAgent", "UpdateAgentHeartbeat",
              "GetPolicySnapshot", "UpsertAgentPolicyState", "reply",
              "respond"}

Report == [version : Nat, hash : Hashes]

NoReport == [version |-> 0, hash |-> NoHash]

Free ==
    [pc |-> "free", report |-> NoReport, rowRevoked |-> FALSE,
     policy |-> {}, desired |-> 0, fca |-> FALSE, code |-> 0,
     late |-> FALSE]

\* 0: not answered yet.
Codes == {0, 200, 401, 410, 500}

Requests ==
    [pc : HandlerPC,
     report : Report,          \* req.PolicyState
     rowRevoked : BOOLEAN,     \* revoked_at of the token row it read
     policy : SUBSET Policies, \* the payload of the answer, {} for nil
     desired : Nat,            \* version of the snapshot, 0 if none
     fca : BOOLEAN,            \* FailClosedAfter of the answer
     code : Codes,
     late : BOOLEAN]           \* history: arrived after the removal

HandlerTypeOK == handler \in [Handlers -> Requests]

HandlerInit == handler = [h \in Handlers |-> Free]

-----------------------------------------------------------------------------

\* The request of an Agent that reports having applied r arrives.
Arrive(h, r) ==
    /\ handler[h].pc = "free"
    /\ handler' = [handler EXCEPT ![h] =
                      [Free EXCEPT !.pc = "GetTokenByID", !.report = r,
                                   !.late = removed]]

At(h, pc) == handler[h].pc = pc

Goto(h, pc) == handler' = [handler EXCEPT ![h].pc = pc]

Answer(h, code) ==
    handler' = [handler EXCEPT ![h].pc = "respond", ![h].code = code]

\* requireAuth, first read: the token row, kept for the checks below.
AuthToken(h) ==
    /\ At(h, "GetTokenByID")
    /\ handler' = [handler EXCEPT ![h].pc = "GetAgent",
                                  ![h].rowRevoked = tokenRevoked]
    /\ UNCHANGED <<storeVars, envVars>>

\* Mutant: agent tokens skip the revocation check.
AuthAgentNoTokenCheck(h) ==
    /\ At(h, "GetAgent")
    /\ IF status = "revoked" THEN Answer(h, 410)
       ELSE handler' = [handler EXCEPT ![h].pc = "UpdateAgentHeartbeat",
                                       ![h].fca = failClosedAfter]
    /\ UNCHANGED <<storeVars, envVars>>

\* requireAuth, second read: 410 for a revoked Agent comes before 401 for a
\* revoked token, and the token row is the one read earlier.
AuthAgent(h) ==
    /\ At(h, "GetAgent")
    /\ IF status = "revoked" THEN Answer(h, 410)
       ELSE IF handler[h].rowRevoked THEN Answer(h, 401)
       ELSE handler' = [handler EXCEPT ![h].pc = "UpdateAgentHeartbeat",
                                       ![h].fca = failClosedAfter]
    /\ UNCHANGED <<storeVars, envVars>>

\* Any error of either read is answered 401.
AuthStoreError(h) ==
    /\ At(h, "GetTokenByID") \/ At(h, "GetAgent")
    /\ Fault("store")
    /\ Answer(h, 401)
    /\ UNCHANGED storeVars

HandleUpdate(h) ==
    /\ At(h, "UpdateAgentHeartbeat")
    /\ UpdateAgentHeartbeat
    /\ Goto(h, "GetPolicySnapshot")
    /\ UNCHANGED envVars

HandleUpdateError(h) ==
    /\ At(h, "UpdateAgentHeartbeat")
    /\ Fault("store")
    /\ Answer(h, 500)
    /\ UNCHANGED storeVars

\* Mutant: an empty ACL is taken for "nothing to send".
SnapshotSkipsEmpty(h) ==
    /\ At(h, "GetPolicySnapshot")
    /\ handler' = [handler EXCEPT
          ![h].pc = "UpsertAgentPolicyState",
          ![h].desired = version,
          ![h].policy = IF hash # handler[h].report.hash /\ hash # NoHash
                          THEN {GetPolicySnapshot} ELSE {}]
    /\ UNCHANGED <<storeVars, envVars>>

\* Mutant: a version is sent once, whatever became of it.
SnapshotSentOnce(h) ==
    /\ At(h, "GetPolicySnapshot")
    /\ handler' = [handler EXCEPT
          ![h].pc = "UpsertAgentPolicyState",
          ![h].desired = version,
          ![h].policy = IF policyState.desired # version
                          THEN {GetPolicySnapshot} ELSE {}]
    /\ UNCHANGED <<storeVars, envVars>>

\* The policy is sent iff its hash is not the one the Agent reported.
HandleSnapshot(h) ==
    /\ At(h, "GetPolicySnapshot")
    /\ handler' = [handler EXCEPT
          ![h].pc = "UpsertAgentPolicyState",
          ![h].desired = version,
          ![h].policy = IF hash # handler[h].report.hash
                          THEN {GetPolicySnapshot} ELSE {}]
    /\ UNCHANGED <<storeVars, envVars>>

\* A failed snapshot is not an error of the request: no policy, desired nil.
HandleSnapshotError(h) ==
    /\ At(h, "GetPolicySnapshot")
    /\ Fault("store")
    /\ Goto(h, "UpsertAgentPolicyState")
    /\ UNCHANGED storeVars

HandleUpsert(h) ==
    /\ At(h, "UpsertAgentPolicyState")
    /\ UpsertAgentPolicyState(handler[h].desired, handler[h].report.version)
    /\ Goto(h, "reply")
    /\ UNCHANGED envVars

\* Best effort: its error is dropped.
HandleUpsertError(h) ==
    /\ At(h, "UpsertAgentPolicyState")
    /\ Fault("store")
    /\ Goto(h, "reply")
    /\ UNCHANGED storeVars

\* GetAgent again, for the freshest fail_closed_after, then 200.
HandleReply(h) ==
    /\ At(h, "reply")
    /\ handler' = [handler EXCEPT ![h].pc = "respond", ![h].code = 200,
                                  ![h].fca = failClosedAfter]
    /\ UNCHANGED <<storeVars, envVars>>

\* The re-read fails: the value read by requireAuth stands.
HandleReplyError(h) ==
    /\ At(h, "reply")
    /\ Fault("store")
    /\ Answer(h, 200)
    /\ UNCHANGED storeVars

HandlerStep(h) ==
    \/ AuthToken(h)
    \/ AuthAgent(h)
    \/ HandleUpdate(h)
    \/ HandleSnapshot(h)
    \/ HandleUpsert(h)
    \/ HandleReply(h)

HandlerError(h) ==
    \/ AuthStoreError(h)
    \/ HandleUpdateError(h)
    \/ HandleSnapshotError(h)
    \/ HandleUpsertError(h)
    \/ HandleReplyError(h)

\* The slot is free again.
Release(h) == handler' = [handler EXCEPT ![h] = Free]

=============================================================================
