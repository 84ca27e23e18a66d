------------------------ MODULE PolicyRemovalProofs ------------------------
(***************************************************************************)
(* Theorems about what is refused: the heartbeats of a removed Agent and   *)
(* the usernames the Agent rejects.                                        *)
(***************************************************************************)
EXTENDS PolicySyncProofs

\* Removal revokes the token for good; a request that arrived after it has
\* either not read the token row, or read it revoked, or has been refused.
\* The status column plays no part: an older request may overwrite it.
LateRefused(r) ==
    r.late => \/ r.pc = "GetTokenByID" /\ r.code = 0
              \/ r.pc = "GetAgent" /\ r.code = 0 /\ r.rowRevoked
              \/ r.pc = "respond" /\ r.code \in {401, 410}

RemovalInv ==
    /\ TypeOK
    /\ removed => tokenRevoked
    /\ \A h \in Handlers : handler[h].late => removed
    /\ \A h \in Handlers : LateRefused(handler[h])

-----------------------------------------------------------------------------

LEMMA RemovedStays ==
    ASSUME TypeOK, [Next]_vars
    PROVE  /\ removed => removed'
           /\ tokenRevoked => tokenRevoked'
           /\ (removed => tokenRevoked) => (removed' => tokenRevoked')
  <1>1. CASE Operator
    <2>1. CASE \/ \E g \in Grants : CreateACL(g) \/ DeleteACL(g)
               \/ \E on \in BOOLEAN : SetAgentFailClosedAfter(on)
      <3>1. UNCHANGED <<removed, tokenRevoked>>
        BY <2>1 DEF CreateACL, DeleteACL, SetAgentFailClosedAfter,
                    agentRowVars
      <3> QED BY <3>1, Zenon
    <2>2. CASE RevokeAgent
      BY <2>2, Zenon DEF RevokeAgent
    <2>3. CASE RevokeToken
      BY <2>3, Zenon DEF RevokeToken
    <2> QED BY <1>1, <2>1, <2>2, <2>3 DEF Operator
  <1>2. ASSUME NEW h \in Handlers, Server(h)
        PROVE  UNCHANGED <<removed, tokenRevoked>>
    BY <1>2 DEF Server, HandlerStep, HandlerError, storeVars, AuthToken,
                AuthAgent, HandleUpdate, HandleSnapshot, HandleUpsert,
                HandleReply, AuthStoreError, HandleUpdateError,
                HandleSnapshotError, HandleUpsertError, HandleReplyError,
                UpdateAgentHeartbeat, UpsertAgentPolicyState
  <1>3. CASE \/ \E h \in Handlers :
                   SendHeartbeat(h) \/ ReceiveAnswer(h) \/ Abandon(h)
             \/ Link \/ Timeout \/ Local \/ LocalFault \/ Lifecycle
    BY <1>3 DEF SendHeartbeat, ReceiveAnswer, Abandon, Link, Timeout, Local,
                LocalFault, Lifecycle, storeVars
  <1>4. CASE UNCHANGED vars
    BY <1>4 DEF vars, storeVars
  <1> QED BY <1>1, <1>2, <1>3, <1>4 DEF Next

\* A late request moves towards its refusal only.
LEMMA LateStep ==
    ASSUME RemovalInv, [Next]_vars, NEW k \in Handlers
    PROVE  /\ handler'[k].late => removed
           /\ LateRefused(handler'[k])
  <1> DEFINE Kept(r) == (r.late => removed) /\ LateRefused(r)
  <1>0. /\ handler \in [Handlers -> Requests] /\ handler[k] \in Requests
        /\ Kept(handler[k])
        /\ removed => tokenRevoked
    BY DEF RemovalInv, TypeOK, HandlerTypeOK
  <1>1. Kept(Free)
    BY DEF Free, LateRefused
  <1>2. SUFFICES Kept(handler'[k])
    OBVIOUS
  <1>3. CASE handler'[k] = handler[k]
    BY <1>0, <1>3
  <1>4. ASSUME NEW h \in Handlers, SendHeartbeat(h)
        PROVE  Kept(handler'[k])
    <2>1. CASE h = k
      <3>1. handler'[k] = [Free EXCEPT !.pc = "GetTokenByID",
                  !.report = [version |-> applied.version,
                              hash |-> applied.hash],
                  !.late = removed]
        BY <1>0, <1>4, <2>1 DEF SendHeartbeat, Arrive
      <3>2. /\ handler'[k].late = removed
            /\ handler'[k].pc = "GetTokenByID"
            /\ handler'[k].code = 0
        BY <3>1 DEF Free
      <3> QED BY <3>2 DEF LateRefused
    <2>2. CASE h # k
      BY <1>0, <1>3, <1>4, <2>2 DEF SendHeartbeat, Arrive
    <2> QED BY <2>1, <2>2
  <1>5. ASSUME NEW h \in Handlers, ReceiveAnswer(h) \/ Abandon(h)
        PROVE  Kept(handler'[k])
    <2>1. handler'[k] = handler[k] \/ handler'[k] = Free
      BY <1>0, <1>5 DEF ReceiveAnswer, Abandon, Release
    <2> QED BY <1>1, <1>3, <2>1
  <1>6. ASSUME NEW h \in Handlers, Server(h)
        PROVE  Kept(handler'[k])
    <2>1. CASE h # k
      <3>1. handler'[k] = handler[k]
        BY <1>0, <1>6, <2>1
           DEF Server, HandlerStep, HandlerError, Goto, Answer, AuthToken,
               AuthAgent, HandleUpdate, HandleSnapshot, HandleUpsert,
               HandleReply, AuthStoreError, HandleUpdateError,
               HandleSnapshotError, HandleUpsertError, HandleReplyError
      <3> QED BY <1>3, <3>1
    <2>2. CASE h = k /\ AuthToken(h)
      <3>1. /\ handler[k].pc = "GetTokenByID"
            /\ handler'[k].late = handler[k].late
            /\ handler'[k].pc = "GetAgent"
            /\ handler'[k].code = handler[k].code
            /\ handler'[k].rowRevoked = tokenRevoked
        BY <1>0, <2>2 DEF AuthToken, At, Requests
      <3> QED BY <1>0, <3>1 DEF LateRefused
    <2>3. CASE h = k /\ AuthAgent(h)
      <3>1. /\ handler[k].pc = "GetAgent"
            /\ handler'[k].late = handler[k].late
            /\ \/ handler'[k].pc = "respond" /\ handler'[k].code \in {401, 410}
               \/ ~handler[k].rowRevoked
        BY <1>0, <2>3 DEF AuthAgent, At, Answer, Requests
      <3> QED BY <1>0, <3>1 DEF LateRefused
    <2>4. CASE h = k /\ AuthStoreError(h)
      <3>1. /\ handler'[k].late = handler[k].late
            /\ handler'[k].pc = "respond" /\ handler'[k].code = 401
        BY <1>0, <2>4 DEF AuthStoreError, Answer, Requests
      <3> QED BY <1>0, <3>1 DEF LateRefused
    <2>5. CASE /\ h = k
               /\ \/ HandleUpdate(h) \/ HandleSnapshot(h) \/ HandleUpsert(h)
                  \/ HandleReply(h) \/ HandleUpdateError(h)
                  \/ HandleSnapshotError(h) \/ HandleUpsertError(h)
                  \/ HandleReplyError(h)
      <3>1. /\ handler[k].pc \in {"UpdateAgentHeartbeat", "GetPolicySnapshot",
                                  "UpsertAgentPolicyState", "reply"}
            /\ handler'[k].late = handler[k].late
        BY <1>0, <2>5
           DEF At, Goto, Answer, HandleUpdate, HandleSnapshot, HandleUpsert,
               HandleReply, HandleUpdateError, HandleSnapshotError,
               HandleUpsertError, HandleReplyError, Requests
      <3> QED BY <1>0, <3>1 DEF LateRefused
    <2> QED BY <1>6, <2>1, <2>2, <2>3, <2>4, <2>5
            DEF Server, HandlerStep, HandlerError
  <1>7. CASE \/ Operator \/ Link \/ Timeout \/ Local \/ LocalFault
             \/ Lifecycle \/ UNCHANGED vars
    BY <1>3, <1>7
       DEF Operator, Link, Timeout, Local, LocalFault, Lifecycle, vars
  <1> QED BY <1>4, <1>5, <1>6, <1>7 DEF Next

\* A heartbeat that arrives after `agents rm` has committed is refused, no
\* matter which older requests are still in service.
THEOREM RemovedIsRefused == Spec => []RemovedNeverServed
  <1>1. Init => RemovalInv
    BY InitType
       DEF Init, StoreInit, HandlerInit, Free, LateRefused, RemovalInv
  <1>2. RemovalInv /\ [Next]_vars => RemovalInv'
    <2> SUFFICES ASSUME RemovalInv, [Next]_vars PROVE RemovalInv'
      OBVIOUS
    <2>1. TypeOK'
      BY TypeInductive DEF RemovalInv
    <2>2. removed => removed'
      BY RemovedStays DEF RemovalInv
    <2>3. removed' => tokenRevoked'
      BY RemovedStays DEF RemovalInv
    <2>4. \A h \in Handlers : handler'[h].late => removed'
      BY <2>2, LateStep
    <2>5. \A h \in Handlers : LateRefused(handler'[h])
      BY LateStep
    <2> QED BY <2>1, <2>3, <2>4, <2>5 DEF RemovalInv, LateRefused
  <1>3. RemovalInv => RemovedNeverServed
    BY DEF RemovalInv, LateRefused, RemovedNeverServed
  <1> QED BY <1>1, <1>2, <1>3, PTL DEF Spec

-----------------------------------------------------------------------------
(* Rejected usernames.                                                     *)

\* There is at most one policy at each place of the channel.
Lone(S) == \A p, q \in S : p = q

LoneInv ==
    /\ Lone(queue)
    /\ Lone(worker.snap)
    /\ \A h \in Handlers : Lone(handler[h].policy)

LEMMA LoneStep ==
    ASSUME TypeOK, LoneInv, [Next]_vars
    PROVE  LoneInv'
  <1>1. ASSUME NEW S, NEW T, Lone(S), T \subseteq S
        PROVE  Lone(T)
    BY <1>1 DEF Lone
  <1>2. Lone(queue')
    BY <1>1, QueueStep DEF LoneInv
  <1>3. Lone(worker'.snap)
    BY <1>1, WorkerSnapStep DEF LoneInv
  <1>4. ASSUME NEW h \in Handlers
        PROVE  Lone(handler'[h].policy)
    <2>1. Lone({GetPolicySnapshot})
      BY DEF Lone
    <2> QED BY <1>1, <2>1, HandlerPolicyStep DEF LoneInv
  <1> QED BY <1>2, <1>3, <1>4 DEF LoneInv, Lone

\* Past validation the worker holds a policy without rejected usernames.
ValidatedInv ==
    /\ TypeOK
    /\ LoneInv
    /\ worker.pc \in {"write", "remove"} =>
          \A p \in worker.snap : ~Invalid(p)
    /\ RejectedNamesNeverOnDisk

\* Only WorkerValidate gets the worker past validation.
LEMMA ValidationStep ==
    ASSUME TypeOK, LoneInv, [Next]_vars, worker'.pc \in {"write", "remove"},
           NEW p \in worker'.snap
    PROVE  \/ ~Invalid(p)
           \/ worker.pc \in {"write", "remove"} /\ p \in worker.snap
  <1>0. worker \in Renderings
    BY DEF TypeOK, AgentTypeOK
  <1>1. CASE worker' = worker
    BY <1>1
  <1>2. CASE worker' = NoRendering
    BY <1>2 DEF NoRendering
  <1>3. ASSUME NEW h \in Handlers,
               \/ SendHeartbeat(h) \/ ReceiveAnswer(h)
               \/ Abandon(h) \/ Server(h)
        PROVE  worker' = worker
    BY <1>3 DEF SendHeartbeat, Beat, Abandon, Server, agentVars, memory,
                ReceiveAnswer, BeatOK, BeatUnauthorized, BeatGone, BeatError
  <1>4. CASE Operator \/ Link \/ Timeout \/ UNCHANGED vars
    BY <1>1, <1>4
       DEF Operator, Link, Timeout, BeatError, vars, agentVars, memory
  <1>5. CASE Local
    <2>1. CASE WorkerTake
      <3>1. worker'.pc = "validate"
        BY <2>1 DEF WorkerTake, BeginRender
      <3> QED BY <3>1
    <2>2. CASE WorkerValidate
      <3>1. PICK q \in worker.snap : ~Invalid(q) /\ worker' = Validated(worker, q)
        BY <2>2 DEF WorkerValidate
      <3>2. worker'.snap = worker.snap
        BY <1>0, <3>1 DEF Validated, Renderings
      <3>3. p = q
        BY <3>1, <3>2 DEF LoneInv, Lone
      <3> QED BY <3>1, <3>3
    <2>3. CASE WorkerList
      BY <1>0, <2>3 DEF WorkerList, Listed, Renderings
    <2>4. ASSUME NEW u \in Users, WorkerWrite(u) \/ WorkerRemove(u)
          PROVE  worker'.snap = worker.snap /\ worker'.pc = worker.pc
      BY <1>0, <2>4 DEF WorkerWrite, WorkerRemove, Ticked, Renderings
    <2>5. CASE WorkerInvalid \/ WorkerDone
      BY <1>2, <2>5 DEF WorkerInvalid, ApplyFailed, WorkerDone
    <2>6. CASE FailClosedStep \/ WipeStep \/ Elapse \/ CheckFailClosed
      BY <1>1, <2>6
         DEF FailClosedStep, FailClosedList, FailClosedRemove, FailClosedDone,
             WipeStep, WipeList, WipeRemove, WipeDone, Elapse, CheckFailClosed
    <2> QED BY <1>5, <2>1, <2>2, <2>3, <2>4, <2>5, <2>6 DEF Local, WorkerStep
  <1>6. CASE LocalFault
    BY <1>1, <1>2, <1>6
       DEF LocalFault, AgentFault, WorkerFail, ApplyFailed, FailClosedFail,
           WipeListFail, WipeRemoveFail, WipeDoneNoMarker
  <1>7. CASE Lifecycle
    BY <1>1, <1>2, <1>7
       DEF Lifecycle, Shutdown, Exit, Crash, Restart, FreshMemory, memory
  <1> QED BY <1>1, <1>3, <1>4, <1>5, <1>6, <1>7 DEF Next

LEMMA RejectedStep ==
    ASSUME ValidatedInv, [Next]_vars
    PROVE  RejectedNamesNeverOnDisk'
  <1>1. SUFFICES ASSUME NEW u \in BadUsers
                 PROVE  disk'[u] = {}
    BY DEF RejectedNamesNeverOnDisk
  <1>2. u \in Users /\ disk[u] = {}
    BY BadUsersAssumption DEF ValidatedInv, RejectedNamesNeverOnDisk
  <1>3. ASSUME NEW p \in worker.snap, ~Invalid(p)
        PROVE  p.principals[u] = {}
    BY <1>3 DEF Invalid
  <1> QED BY <1>2, <1>3, FileStep DEF ValidatedInv

\* A username the Agent rejects never gets a principals file, although the
\* Control plane stores it, hashes it and sends it.
THEOREM RejectedNamesKeptOut == Spec => []RejectedNamesNeverOnDisk
  <1>1. Init => ValidatedInv
    <2> SUFFICES ASSUME Init PROVE ValidatedInv
      OBVIOUS
    <2>1. LoneInv
      BY DEF Init, AgentInit, HandlerInit, NoRendering, Free, LoneInv, Lone
    <2>2. RejectedNamesNeverOnDisk
      BY BadUsersAssumption
         DEF Init, AgentInit, DiskInit, NoFiles, RejectedNamesNeverOnDisk
    <2>3. worker.snap = {}
      BY DEF Init, AgentInit, NoRendering
    <2> QED BY <2>1, <2>2, <2>3, InitType DEF ValidatedInv
  <1>2. ValidatedInv /\ [Next]_vars => ValidatedInv'
    <2> SUFFICES ASSUME ValidatedInv, [Next]_vars PROVE ValidatedInv'
      OBVIOUS
    <2>1. TypeOK' /\ LoneInv'
      BY TypeInductive, LoneStep DEF ValidatedInv
    <2>2. ASSUME worker'.pc \in {"write", "remove"}, NEW p \in worker'.snap
          PROVE  ~Invalid(p)
      BY <2>2, ValidationStep DEF ValidatedInv
    <2> QED BY <2>1, <2>2, RejectedStep DEF ValidatedInv, Invalid
  <1>3. ValidatedInv => RejectedNamesNeverOnDisk
    BY DEF ValidatedInv
  <1> QED BY <1>1, <1>2, <1>3, PTL DEF Spec

=============================================================================
