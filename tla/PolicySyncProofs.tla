-------------------------- MODULE PolicySyncProofs --------------------------
(***************************************************************************)
(* Theorems about PolicySync, for every value of its constants: its types, *)
(* that no policy in transit is torn, and that files were granted.         *)
(***************************************************************************)
EXTENDS PolicySync, TLAPS

-----------------------------------------------------------------------------
(* Facts about the data.                                                   *)

LEMMA NoHashType == NoHash \in Hashes
  <1>1. Hash({}) = NoHash
    BY DEF Hash
  <1>2. {} \in SUBSET Grants
    OBVIOUS
  <1> QED BY <1>1, <1>2 DEF Hashes

LEMMA HashType ==
    ASSUME NEW g, g \subseteq Grants
    PROVE  Hash(g) \in Hashes
  BY DEF Hashes

LEMMA ProjectionType ==
    ASSUME NEW g
    PROVE  Projection(g) \in Files
  BY DEF Projection, Files

LEMMA NoFilesType == NoFiles \in Files
  BY DEF NoFiles, Files

LEMMA SnapshotType ==
    ASSUME StoreTypeOK
    PROVE  GetPolicySnapshot \in Policies
  BY ProjectionType DEF StoreTypeOK, GetPolicySnapshot, Policies

-----------------------------------------------------------------------------
(* Type correctness, component by component.                               *)

LEMMA ArrivalType ==
    ASSUME NEW r \in Report, NEW b \in BOOLEAN
    PROVE  [Free EXCEPT !.pc = "GetTokenByID", !.report = r, !.late = b]
              \in Requests
  BY DEF Free, Requests, HandlerPC, Codes

LEMMA FreeType == Free \in Requests
  BY NoHashType DEF Free, NoReport, Report, Requests, HandlerPC, Codes

\* Installing a request in its slot.
LEMMA SlotType ==
    ASSUME HandlerTypeOK, NEW h \in Handlers, NEW r \in Requests,
           handler' = [handler EXCEPT ![h] = r]
    PROVE  HandlerTypeOK'
  BY DEF HandlerTypeOK

LEMMA InitType == Init => TypeOK
  <1> SUFFICES ASSUME Init PROVE TypeOK
    OBVIOUS
  <1> USE NoHashType, NoFilesType
  <1>1. StoreTypeOK
    <2>1. aclAt \in [0..version -> SUBSET Grants]
      <3>1. 0..0 = {0}
        OBVIOUS
      <3> QED BY <3>1 DEF Init, StoreInit
    <2> QED BY <2>1 DEF Init, StoreInit, StoreTypeOK
  <1>2. HandlerTypeOK
    BY FreeType DEF Init, HandlerInit, HandlerTypeOK
  <1>3. AgentTypeOK
    BY DEF Init, AgentInit, DiskInit, AgentTypeOK, DiskTypeOK, NoApply,
           NoRendering, NoHeartbeat, NoClient, Renderings, RenderPC, HbPC
  <1>4. EnvTypeOK
    <2>1. faults \in 0..MaxFaults
      BY FaultsAssumption DEF Init, EnvInit
    <2> QED BY <2>1 DEF Init, EnvInit, EnvTypeOK
  <1> QED BY <1>1, <1>2, <1>3, <1>4 DEF Init, TypeOK

LEMMA FaultType ==
    ASSUME EnvTypeOK, NEW k, Fault(k)
    PROVE  EnvTypeOK'
  BY FaultsAssumption DEF EnvTypeOK, Fault

LEMMA BumpType ==
    ASSUME StoreTypeOK, NEW g, g \subseteq Grants, bumpPolicyVersionTx(g)
    PROVE  /\ version' \in Nat
           /\ hash' \in Hashes
           /\ aclAt' \in [0..version' -> SUBSET Grants]
  BY HashType DEF StoreTypeOK, bumpPolicyVersionTx

LEMMA OperatorType ==
    ASSUME TypeOK, Operator
    PROVE  StoreTypeOK'
  <1> USE DEF TypeOK
  <1>1. ASSUME NEW g \in Grants, CreateACL(g)
        PROVE  StoreTypeOK'
    <2>1. acl \cup {g} \subseteq Grants
      BY DEF StoreTypeOK
    <2> QED BY <1>1, <2>1, BumpType
            DEF CreateACL, StoreTypeOK, agentRowVars
  <1>2. ASSUME NEW g \in Grants, DeleteACL(g)
        PROVE  StoreTypeOK'
    <2>1. acl \ {g} \subseteq Grants
      BY DEF StoreTypeOK
    <2> QED BY <1>2, <2>1, BumpType
            DEF DeleteACL, StoreTypeOK, agentRowVars
  <1>3. CASE RevokeAgent
    BY <1>3 DEF RevokeAgent, StoreTypeOK
  <1>4. CASE RevokeToken
    BY <1>4 DEF RevokeToken, StoreTypeOK
  <1>5. ASSUME NEW on \in BOOLEAN, SetAgentFailClosedAfter(on)
        PROVE  StoreTypeOK'
    BY <1>5 DEF SetAgentFailClosedAfter, StoreTypeOK
  <1> QED BY <1>1, <1>2, <1>3, <1>4, <1>5 DEF Operator

\* What every step of a handler does to the other components.
LEMMA ServerType ==
    ASSUME TypeOK, NEW h \in Handlers, Server(h)
    PROVE  StoreTypeOK' /\ HandlerTypeOK' /\ EnvTypeOK'
  <1> USE DEF TypeOK
  <1>1. StoreTypeOK' /\ EnvTypeOK'
    <2>1. UNCHANGED storeVars => StoreTypeOK'
      BY DEF storeVars, StoreTypeOK
    <2>2. UNCHANGED envVars => EnvTypeOK'
      BY DEF envVars, EnvTypeOK
    <2>3. CASE HandleUpdate(h)
      BY <2>2, <2>3 DEF HandleUpdate, UpdateAgentHeartbeat, StoreTypeOK
    <2>4. CASE HandleUpsert(h)
      <3>1. handler[h].desired \in Nat /\ handler[h].report.version \in Nat
        BY DEF HandlerTypeOK, Requests, Report
      <3> QED BY <2>2, <2>4, <3>1
              DEF HandleUpsert, UpsertAgentPolicyState, StoreTypeOK
    <2>5. CASE AuthToken(h) \/ AuthAgent(h) \/ HandleSnapshot(h) \/ HandleReply(h)
      BY <2>1, <2>2, <2>5 DEF AuthToken, AuthAgent, HandleSnapshot, HandleReply
    <2>6. CASE HandlerError(h)
      BY <2>1, <2>6, FaultType
         DEF HandlerError, AuthStoreError, HandleUpdateError,
             HandleSnapshotError, HandleUpsertError, HandleReplyError
    <2> QED BY <2>3, <2>4, <2>5, <2>6 DEF Server, HandlerStep
  <1>2. HandlerTypeOK'
    <2> DEFINE r == handler[h]
    <2>0. r \in Requests
      BY DEF HandlerTypeOK
    <2>a. {0, 200, 401, 410, 500} \subseteq Codes
      BY DEF Codes
    <2>b. {"GetAgent", "UpdateAgentHeartbeat", "GetPolicySnapshot",
           "UpsertAgentPolicyState", "reply", "respond"} \subseteq HandlerPC
      BY DEF HandlerPC
    <2>c. tokenRevoked \in BOOLEAN /\ failClosedAfter \in BOOLEAN
      BY DEF StoreTypeOK
    <2>d. ASSUME NEW c \in Codes, Answer(h, c)
          PROVE  HandlerTypeOK'
      <3>1. [r EXCEPT !.pc = "respond", !.code = c] \in Requests
        BY <2>0, <2>b DEF Requests
      <3>2. handler' = [handler EXCEPT ![h] =
                          [r EXCEPT !.pc = "respond", !.code = c]]
        BY <2>d DEF Answer
      <3> QED BY <3>1, <3>2, SlotType
    <2>e. ASSUME NEW pc \in HandlerPC, Goto(h, pc)
          PROVE  HandlerTypeOK'
      <3>1. [r EXCEPT !.pc = pc] \in Requests
        BY <2>0 DEF Requests
      <3>2. handler' = [handler EXCEPT ![h] = [r EXCEPT !.pc = pc]]
        BY <2>e DEF Goto
      <3> QED BY <3>1, <3>2, SlotType
    <2>1. CASE AuthToken(h)
      <3>1. [r EXCEPT !.pc = "GetAgent", !.rowRevoked = tokenRevoked]
               \in Requests
        BY <2>0, <2>b, <2>c DEF Requests
      <3>2. handler' = [handler EXCEPT ![h] =
                  [r EXCEPT !.pc = "GetAgent", !.rowRevoked = tokenRevoked]]
        BY <2>1 DEF AuthToken
      <3> QED BY <3>1, <3>2, SlotType
    <2>2. CASE AuthAgent(h)
      <3>1. [r EXCEPT !.pc = "UpdateAgentHeartbeat", !.fca = failClosedAfter]
               \in Requests
        BY <2>0, <2>b, <2>c DEF Requests
      <3>2. \/ Answer(h, 410)
            \/ Answer(h, 401)
            \/ handler' = [handler EXCEPT ![h] =
                             [r EXCEPT !.pc = "UpdateAgentHeartbeat",
                                       !.fca = failClosedAfter]]
        BY <2>2 DEF AuthAgent
      <3> QED BY <2>a, <2>d, <3>1, <3>2, SlotType
    <2>3. CASE HandleSnapshot(h)
      <3> DEFINE ps == IF hash # r.report.hash
                         THEN {GetPolicySnapshot} ELSE {}
      <3>1. ps \in SUBSET Policies
        BY SnapshotType
      <3>2. version \in Nat
        BY DEF StoreTypeOK
      <3>3. [r EXCEPT !.pc = "UpsertAgentPolicyState", !.desired = version,
                      !.policy = ps] \in Requests
        BY <2>0, <2>b, <3>1, <3>2 DEF Requests
      <3>4. handler' = [handler EXCEPT ![h] =
                          [r EXCEPT !.pc = "UpsertAgentPolicyState",
                                    !.desired = version, !.policy = ps]]
        BY <2>3 DEF HandleSnapshot
      <3> QED BY <3>3, <3>4, SlotType
    <2>4. CASE HandleReply(h)
      <3>0. 200 \in Codes /\ "respond" \in HandlerPC
        BY DEF Codes, HandlerPC
      <3>1. [r EXCEPT !.pc = "respond", !.code = 200, !.fca = failClosedAfter]
               \in Requests
        BY <2>0, <2>c, <3>0 DEF Requests
      <3>2. handler' = [handler EXCEPT ![h] =
                          [r EXCEPT !.pc = "respond", !.code = 200,
                                    !.fca = failClosedAfter]]
        BY <2>4 DEF HandleReply
      <3> QED BY <3>1, <3>2, SlotType
    <2>5. CASE HandleUpdate(h) \/ HandleUpsert(h)
      BY <2>5, <2>b, <2>e DEF HandleUpdate, HandleUpsert
    <2>6. CASE HandlerError(h)
      BY <2>6, <2>a, <2>b, <2>d, <2>e
         DEF HandlerError, AuthStoreError, HandleUpdateError,
             HandleSnapshotError, HandleUpsertError, HandleReplyError
    <2> QED BY <2>1, <2>2, <2>3, <2>4, <2>5, <2>6 DEF Server, HandlerStep
  <1> QED BY <1>1, <1>2

LEMMA FilesUpdate ==
    ASSUME NEW f \in Files, NEW u \in Users, NEW cs \in SUBSET Callers
    PROVE  [f EXCEPT ![u] = cs] \in Files
  BY DEF Files

LEMMA TickType ==
    ASSUME AgentTypeOK, NEW u
    PROVE  [hb EXCEPT !.todo = @ \ {u}] \in [pc : HbPC, todo : SUBSET Users]
  <1>1. hb \in [pc : HbPC, todo : SUBSET Users]
    BY DEF AgentTypeOK
  <1> QED BY <1>1

LEMMA FreshType ==
    ASSUME AgentTypeOK, FreshMemory, proc' = "stopped",
           UNCHANGED <<marker, rendered, disk>>
    PROVE  AgentTypeOK'
  BY NoHashType
     DEF FreshMemory, AgentTypeOK, DiskTypeOK, NoApply, NoRendering,
         NoHeartbeat, NoClient, Renderings, RenderPC, HbPC

LEMMA WorkerType ==
    ASSUME AgentTypeOK, WorkerStep
    PROVE  AgentTypeOK'
  <1> USE DEF AgentTypeOK, DiskTypeOK
  <1>1. CASE WorkerTake
    <2>1. PICK p \in queue :
             /\ queue' = {}
             /\ worker' = BeginRender(p)
             /\ rendered' = IF p.version > rendered
                              THEN p.version ELSE rendered
      BY <1>1 DEF WorkerTake
    <2>2. p \in Policies /\ p.version \in Nat
      BY DEF Policies
    <2>3. worker' \in Renderings
      BY <2>1, <2>2 DEF BeginRender, Renderings, RenderPC
    <2> QED BY <1>1, <2>1, <2>2, <2>3 DEF WorkerTake
  <1>2. CASE WorkerValidate
    <2>1. PICK p \in worker.snap : worker' = Validated(worker, p)
      BY <1>2 DEF WorkerValidate
    <2>2. Wanted(p) \in SUBSET Users
      BY DEF Wanted
    <2>3. worker' \in Renderings
      BY <2>1, <2>2 DEF Validated, Renderings, RenderPC
    <2> QED BY <1>2, <2>3 DEF WorkerValidate
  <1>3. CASE WorkerInvalid
    BY <1>3 DEF WorkerInvalid, ApplyFailed, NoRendering, Renderings, RenderPC
  <1>4. ASSUME NEW u \in Users, WorkerWrite(u)
        PROVE  AgentTypeOK'
    <2>1. PICK p \in worker.snap : WriteFile(u, p)
      BY <1>4 DEF WorkerWrite
    <2>2. p \in Policies
      BY DEF Renderings
    <2>3. p.principals[u] \in SUBSET Callers
      BY <2>2 DEF Policies, Files
    <2>4. disk' \in Files
      BY <2>1, <2>3, FilesUpdate DEF WriteFile
    <2>5. worker' \in Renderings
      BY <1>4 DEF WorkerWrite, Ticked, Renderings
    <2> QED BY <1>4, <2>4, <2>5 DEF WorkerWrite
  <1>5. CASE WorkerList
    <2>1. PICK p \in worker.snap : worker' = Listed(worker, p)
      BY <1>5 DEF WorkerList
    <2>2. Present \ Wanted(p) \in SUBSET Users
      BY DEF Present
    <2>3. worker' \in Renderings
      BY <2>1, <2>2 DEF Listed, Renderings, RenderPC
    <2> QED BY <1>5, <2>3 DEF WorkerList
  <1>6. ASSUME NEW u \in Users, WorkerRemove(u)
        PROVE  AgentTypeOK'
    <2>1. disk' \in Files
      BY <1>6, FilesUpdate DEF WorkerRemove, RemoveFile
    <2>2. worker' \in Renderings
      BY <1>6 DEF WorkerRemove, Ticked, Renderings
    <2> QED BY <1>6, <2>1, <2>2 DEF WorkerRemove
  <1>7. CASE WorkerDone
    <2>1. PICK p \in worker.snap :
             applied' = [version |-> p.version, hash |-> p.hash,
                         status |-> "ok"]
      BY <1>7 DEF WorkerDone
    <2>2. p \in Policies
      BY DEF Renderings
    <2>3. p.version \in Nat /\ p.hash \in Hashes
      BY <2>2 DEF Policies
    <2>4. worker' \in Renderings
      BY <1>7 DEF WorkerDone, NoRendering, Renderings, RenderPC
    <2> QED BY <1>7, <2>1, <2>3, <2>4 DEF WorkerDone
  <1> QED BY <1>1, <1>2, <1>3, <1>4, <1>5, <1>6, <1>7 DEF WorkerStep

\* The heartbeat goroutine away from the network.
LEMMA HeartbeatType ==
    ASSUME AgentTypeOK,
           FailClosedStep \/ WipeStep \/ Elapse \/ CheckFailClosed
    PROVE  AgentTypeOK'
  <1>1. ASSUME NEW u \in Users, FailClosedRemove(u) \/ WipeRemove(u)
        PROVE  AgentTypeOK'
    <2>1. disk' \in Files
      <3>1. disk' = [disk EXCEPT ![u] = {}]
        BY <1>1 DEF FailClosedRemove, WipeRemove, RemoveFile
      <3> QED BY <3>1, FilesUpdate DEF AgentTypeOK, DiskTypeOK
    <2>2. hb' = [hb EXCEPT !.todo = @ \ {u}]
      BY <1>1 DEF FailClosedRemove, WipeRemove
    <2>3. hb' \in [pc : HbPC, todo : SUBSET Users]
      BY <2>2, TickType
    <2> QED BY <1>1, <2>1, <2>3 DEF FailClosedRemove, WipeRemove, AgentTypeOK, DiskTypeOK
  <1>2. CASE FailClosedList \/ WipeList
    <2>1. Present \in SUBSET Users
      BY DEF Present
    <2>2. hb' \in [pc : HbPC, todo : SUBSET Users]
      BY <1>2, <2>1 DEF FailClosedList, WipeList, HbPC
    <2> QED BY <1>2, <2>2 DEF FailClosedList, WipeList, AgentTypeOK, DiskTypeOK
  <1>3. CASE FailClosedDone
    BY <1>3, NoHashType DEF FailClosedDone, NoHeartbeat, HbPC, AgentTypeOK, DiskTypeOK
  <1>4. CASE WipeDone
    BY <1>4 DEF WipeDone, HbPC, AgentTypeOK, DiskTypeOK
  <1>5. CASE Elapse
    BY <1>5 DEF Elapse, AgentTypeOK, DiskTypeOK
  <1>6. CASE CheckFailClosed
    BY <1>6 DEF CheckFailClosed, HbPC, AgentTypeOK, DiskTypeOK
  <1> QED BY <1>1, <1>2, <1>3, <1>4, <1>5, <1>6
          DEF FailClosedStep, WipeStep

LEMMA AgentFaultType ==
    ASSUME AgentTypeOK, EnvTypeOK, AgentFault
    PROVE  AgentTypeOK' /\ EnvTypeOK'
  <1>1. EnvTypeOK'
    BY FaultType DEF AgentFault, WorkerFail, FailClosedFail, WipeListFail,
                     WipeRemoveFail, WipeDoneNoMarker
  <1>2. CASE WorkerFail
    BY <1>1, <1>2
       DEF WorkerFail, ApplyFailed, NoRendering, Renderings, RenderPC, AgentTypeOK, DiskTypeOK
  <1>3. CASE FailClosedFail
    BY <1>1, <1>3 DEF FailClosedFail, NoHeartbeat, HbPC, AgentTypeOK, DiskTypeOK
  <1>4. CASE WipeListFail
    <2>1. hb' \in [pc : HbPC, todo : SUBSET Users]
      BY <1>4 DEF WipeListFail, HbPC
    <2> QED BY <1>1, <1>4, <2>1 DEF WipeListFail, AgentTypeOK, DiskTypeOK
  <1>6. CASE WipeDoneNoMarker
    <2>0. hb \in [pc : HbPC, todo : SUBSET Users]
      BY DEF AgentTypeOK
    <2>1. hb' \in [pc : HbPC, todo : SUBSET Users]
      BY <1>6, <2>0 DEF WipeDoneNoMarker, HbPC
    <2> QED BY <1>1, <1>6, <2>1 DEF WipeDoneNoMarker, AgentTypeOK, DiskTypeOK
  <1>5. ASSUME NEW u \in Users, WipeRemoveFail(u)
        PROVE  AgentTypeOK'
    <2>1. hb' \in [pc : HbPC, todo : SUBSET Users]
      BY <1>5, TickType DEF WipeRemoveFail
    <2> QED BY <1>5, <2>1 DEF WipeRemoveFail, AgentTypeOK, DiskTypeOK
  <1> QED BY <1>1, <1>2, <1>3, <1>4, <1>5, <1>6 DEF AgentFault

LEMMA LifecycleType ==
    ASSUME AgentTypeOK, EnvTypeOK, Lifecycle
    PROVE  AgentTypeOK' /\ EnvTypeOK'
  <1>1. UNCHANGED envVars => EnvTypeOK'
    BY DEF envVars, EnvTypeOK
  <1>2. CASE Shutdown
    <2>0. hb \in [pc : HbPC, todo : SUBSET Users]
      BY DEF AgentTypeOK
    <2>1. hb' \in [pc : HbPC, todo : SUBSET Users]
      BY <1>2, <2>0 DEF Shutdown, HbPC
    <2>2. EnvTypeOK'
      BY <1>2, FaultType DEF Shutdown
    <2> QED BY <1>2, <2>1, <2>2 DEF Shutdown, AgentTypeOK, DiskTypeOK
  <1>3. CASE Exit /\ UNCHANGED envVars
    BY <1>1, <1>3, FreshType DEF Exit
  <1>4. CASE Crash
    BY <1>4, FreshType, FaultType DEF Crash
  <1>5. CASE Restart /\ UNCHANGED envVars
    BY <1>1, <1>5 DEF Restart, memory, AgentTypeOK, DiskTypeOK
  <1> QED BY <1>2, <1>3, <1>4, <1>5 DEF Lifecycle

\* What the heartbeat goroutine does with an answer of each kind.
LEMMA AnswerType ==
    ASSUME AgentTypeOK,
           NEW ps \in SUBSET Policies, NEW fca \in BOOLEAN,
           BeatOK(ps, fca) \/ BeatUnauthorized \/ BeatGone \/ BeatError
    PROVE  AgentTypeOK'
  <1>0. hb \in [pc : HbPC, todo : SUBSET Users]
    BY DEF AgentTypeOK
  <1>1. CASE BeatOK(ps, fca)
    <2>1. hb' \in [pc : HbPC, todo : SUBSET Users]
      BY <1>0, <1>1 DEF BeatOK, HbPC
    <2>2. queue' \in SUBSET Policies
      BY <1>1 DEF BeatOK, Dispatch, AgentTypeOK
    <2>3. client' = [fca |-> fca, lastOK |-> TRUE, overdue |-> FALSE]
      BY <1>1 DEF BeatOK
    <2>4. client' \in [fca : BOOLEAN, lastOK : BOOLEAN, overdue : BOOLEAN]
      BY <2>3
    <2> QED BY <1>1, <2>1, <2>2, <2>4 DEF BeatOK, AgentTypeOK, DiskTypeOK
  <1>2. CASE BeatUnauthorized \/ BeatGone \/ BeatError
    <2>1. hb' \in [pc : HbPC, todo : SUBSET Users]
      BY <1>0, <1>2 DEF BeatUnauthorized, BeatGone, BeatError, HbPC
    <2> QED BY <1>2, <2>1
            DEF BeatUnauthorized, BeatGone, BeatError, AgentTypeOK, DiskTypeOK
  <1> QED BY <1>1, <1>2

\* One step of the whole system.
LEMMA TypeInductive ==
    ASSUME TypeOK, [Next]_vars
    PROVE  TypeOK'
  <1> USE DEF TypeOK
  <1>1. UNCHANGED storeVars => StoreTypeOK'
    BY DEF storeVars, StoreTypeOK
  <1>2. UNCHANGED handler => HandlerTypeOK'
    BY DEF HandlerTypeOK
  <1>3. UNCHANGED agentVars => AgentTypeOK'
    BY DEF agentVars, memory, AgentTypeOK, DiskTypeOK
  <1>4. UNCHANGED envVars => EnvTypeOK'
    BY DEF envVars, EnvTypeOK
  <1>5. CASE Operator
    BY <1>2, <1>3, <1>4, <1>5, OperatorType DEF Operator
  <1>6. CASE Link
    <2>1. EnvTypeOK'
      <3>1. faults' \in 0..MaxFaults
        BY <1>6, FaultsAssumption DEF Link, Cut, Heal, EnvTypeOK
      <3>2. partitioned' \in BOOLEAN
        BY <1>6 DEF Link, Cut, Heal
      <3> QED BY <3>1, <3>2 DEF EnvTypeOK
    <2> QED BY <1>1, <1>2, <1>3, <1>6, <2>1 DEF Link
  <1>7. ASSUME NEW h \in Handlers, SendHeartbeat(h)
        PROVE  TypeOK'
    <2>1. HandlerTypeOK'
      <3>1. [version |-> applied.version, hash |-> applied.hash] \in Report
        BY DEF AgentTypeOK, Report
      <3>2. [Free EXCEPT !.pc = "GetTokenByID",
                 !.report = [version |-> applied.version,
                             hash |-> applied.hash],
                 !.late = removed] \in Requests
        BY <3>1, ArrivalType DEF StoreTypeOK
      <3> QED BY <1>7, <3>2, SlotType DEF SendHeartbeat, Arrive
    <2>2. AgentTypeOK'
      <3>1. hb \in [pc : HbPC, todo : SUBSET Users]
        BY DEF AgentTypeOK
      <3>2. hb' \in [pc : HbPC, todo : SUBSET Users]
        BY <1>7, <3>1 DEF SendHeartbeat, Beat, HbPC
      <3> QED BY <1>7, <3>2 DEF SendHeartbeat, Beat, AgentTypeOK, DiskTypeOK
    <2> QED BY <1>1, <1>4, <1>7, <2>1, <2>2 DEF SendHeartbeat
  <1>8. ASSUME NEW h \in Handlers, ReceiveAnswer(h)
        PROVE  TypeOK'
    <2>1. handler[h].policy \in SUBSET Policies /\ handler[h].fca \in BOOLEAN
      BY DEF HandlerTypeOK, Requests
    <2>2. AgentTypeOK'
      BY <1>8, <2>1, AnswerType DEF ReceiveAnswer
    <2>3. HandlerTypeOK'
      BY <1>8, FreeType, SlotType DEF ReceiveAnswer, Release
    <2> QED BY <1>1, <1>4, <1>8, <2>2, <2>3 DEF ReceiveAnswer
  <1>9. ASSUME NEW h \in Handlers, Abandon(h)
        PROVE  TypeOK'
    <2>1. HandlerTypeOK'
      BY <1>9, FreeType, SlotType DEF Abandon, Release
    <2> QED BY <1>1, <1>3, <1>4, <1>9, <2>1 DEF Abandon
  <1>10. ASSUME NEW h \in Handlers, Server(h)
         PROVE  TypeOK'
    BY <1>3, <1>10, ServerType DEF Server
  <1>11. CASE Timeout
    BY <1>1, <1>2, <1>4, <1>11, AnswerType DEF Timeout
  <1>12. CASE Local
    BY <1>1, <1>2, <1>4, <1>12, WorkerType, HeartbeatType DEF Local
  <1>13. CASE LocalFault
    BY <1>1, <1>2, <1>13, AgentFaultType DEF LocalFault
  <1>14. CASE Lifecycle
    BY <1>1, <1>2, <1>14, LifecycleType DEF Lifecycle
  <1>15. CASE UNCHANGED vars
    BY <1>1, <1>2, <1>3, <1>4, <1>15 DEF vars
  <1> QED BY <1>5, <1>6, <1>7, <1>8, <1>9, <1>10, <1>11, <1>12, <1>13,
             <1>14, <1>15 DEF Next

\* Every variable keeps the range of the Go type or database column it
\* models, for every set of users, callers and request slots.
THEOREM TypeCorrect == Spec => []TypeOK
  <1>1. Init => TypeOK
    BY InitType
  <1>2. TypeOK /\ [Next]_vars => TypeOK'
    BY TypeInductive
  <1> QED BY <1>1, <1>2, PTL DEF Spec

-----------------------------------------------------------------------------
(***************************************************************************)
(* Theorems that relate what is on its way to the Agent, and what is in    *)
(* its principals directory, to the ACLs the operator has published.       *)
(*                                                                         *)
(* The argument: the log of ACLs only grows (LogGrows), its last entry is  *)
(* the ACL in force and the stored hash is that ACL's (LogIsCurrent), so a *)
(* snapshot is published when it is taken and stays so. Nothing but a      *)
(* snapshot enters the channel from handler to worker (TransitStep), and   *)
(* a file is only ever written from a policy the worker holds.             *)
(***************************************************************************)

\* The last entry of the log is the ACL in force, and hash is its hash.
LogIsCurrent == aclAt[version] = acl /\ hash = Hash(acl)

HistoryInv == TypeOK /\ LogIsCurrent /\ NoTornPolicy /\ FilesWereGranted

-----------------------------------------------------------------------------
(* The log.                                                                *)

\* A published version is never changed.
LEMMA LogGrows ==
    ASSUME TypeOK, [Next]_vars
    PROVE  /\ version' \in Nat
           /\ version <= version'
           /\ \A v \in 0..version : v \in 0..version' /\ aclAt'[v] = aclAt[v]
  <1> USE DEF TypeOK, StoreTypeOK
  <1>1. ASSUME NEW g, bumpPolicyVersionTx(g)
        PROVE  /\ version' \in Nat
               /\ version <= version'
               /\ \A v \in 0..version : v \in 0..version' /\ aclAt'[v] = aclAt[v]
    BY <1>1 DEF bumpPolicyVersionTx
  <1>2. CASE UNCHANGED <<version, aclAt>>
    BY <1>2
  <1>3. \/ \E g : bumpPolicyVersionTx(g)
        \/ UNCHANGED <<version, aclAt>>
    <2>1. CASE Operator
      BY <2>1 DEF Operator, CreateACL, DeleteACL, RevokeAgent, RevokeToken,
                  SetAgentFailClosedAfter
    <2>2. ASSUME NEW h \in Handlers, Server(h)
          PROVE  UNCHANGED <<version, aclAt>>
      BY <2>2 DEF Server, HandlerStep, HandlerError, storeVars, AuthToken,
                  AuthAgent, HandleUpdate, HandleSnapshot, HandleUpsert,
                  HandleReply, AuthStoreError, HandleUpdateError,
                  HandleSnapshotError, HandleUpsertError, HandleReplyError,
                  UpdateAgentHeartbeat, UpsertAgentPolicyState
    <2>3. CASE \/ \E h \in Handlers :
                     SendHeartbeat(h) \/ ReceiveAnswer(h) \/ Abandon(h)
               \/ Link \/ Timeout \/ Local \/ LocalFault \/ Lifecycle
      BY <2>3 DEF SendHeartbeat, ReceiveAnswer, Abandon, Link, Timeout, Local,
                  LocalFault, Lifecycle, storeVars
    <2>4. CASE UNCHANGED vars
      BY <2>4 DEF vars, storeVars
    <2> QED BY <2>1, <2>2, <2>3, <2>4 DEF Next
  <1> QED BY <1>1, <1>2, <1>3

LEMMA LogStaysCurrent ==
    ASSUME TypeOK, LogIsCurrent, [Next]_vars
    PROVE  LogIsCurrent'
  <1> USE DEF LogIsCurrent
  <1>1. ASSUME acl' \subseteq Grants, bumpPolicyVersionTx(acl')
        PROVE  LogIsCurrent'
    BY <1>1 DEF bumpPolicyVersionTx, TypeOK, StoreTypeOK
  <1>2. CASE UNCHANGED <<acl, version, hash, aclAt>>
    BY <1>2
  <1>3. \/ bumpPolicyVersionTx(acl')
        \/ UNCHANGED <<acl, version, hash, aclAt>>
    <2>1. CASE Operator
      BY <2>1 DEF Operator, CreateACL, DeleteACL, RevokeAgent, RevokeToken,
                  SetAgentFailClosedAfter
    <2>2. ASSUME NEW h \in Handlers, Server(h)
          PROVE  UNCHANGED <<acl, version, hash, aclAt>>
      BY <2>2 DEF Server, HandlerStep, HandlerError, storeVars, AuthToken,
                  AuthAgent, HandleUpdate, HandleSnapshot, HandleUpsert,
                  HandleReply, AuthStoreError, HandleUpdateError,
                  HandleSnapshotError, HandleUpsertError, HandleReplyError,
                  UpdateAgentHeartbeat, UpsertAgentPolicyState
    <2>3. CASE \/ \E h \in Handlers :
                     SendHeartbeat(h) \/ ReceiveAnswer(h) \/ Abandon(h)
               \/ Link \/ Timeout \/ Local \/ LocalFault \/ Lifecycle
      BY <2>3 DEF SendHeartbeat, ReceiveAnswer, Abandon, Link, Timeout, Local,
                  LocalFault, Lifecycle, storeVars
    <2>4. CASE UNCHANGED vars
      BY <2>4 DEF vars, storeVars
    <2> QED BY <2>1, <2>2, <2>3, <2>4 DEF Next
  <1>4. acl' \subseteq Grants
    BY TypeInductive DEF TypeOK, StoreTypeOK
  <1> QED BY <1>1, <1>2, <1>3, <1>4

\* What was published once remains so.
LEMMA StaysPublished ==
    ASSUME TypeOK, [Next]_vars, NEW p, Published(p)
    PROVE  Published(p)'
  BY LogGrows DEF Published

\* A snapshot is published when it is taken.
LEMMA SnapshotPublished ==
    ASSUME TypeOK, LogIsCurrent
    PROVE  Published(GetPolicySnapshot)
  BY DEF Published, GetPolicySnapshot, LogIsCurrent, TypeOK, StoreTypeOK

-----------------------------------------------------------------------------
(* The channel from handler to worker.                                     *)

LEMMA HandlerPolicyStep ==
    ASSUME TypeOK, [Next]_vars, NEW k \in Handlers
    PROVE  \/ handler'[k].policy \subseteq handler[k].policy
           \/ handler'[k].policy \subseteq {GetPolicySnapshot}
  <1>0. handler \in [Handlers -> Requests] /\ handler[k] \in Requests
    BY DEF TypeOK, HandlerTypeOK
  <1>1. CASE UNCHANGED handler
    BY <1>1
  <1>2. ASSUME NEW h \in Handlers, SendHeartbeat(h)
        PROVE  handler'[k].policy \subseteq handler[k].policy
    BY <1>0, <1>2 DEF SendHeartbeat, Arrive, Free
  <1>3. ASSUME NEW h \in Handlers, ReceiveAnswer(h) \/ Abandon(h)
        PROVE  handler'[k].policy \subseteq handler[k].policy
    BY <1>0, <1>3 DEF ReceiveAnswer, Abandon, Release, Free
  <1>4. ASSUME NEW h \in Handlers, HandleSnapshot(h)
        PROVE  \/ handler'[k].policy \subseteq handler[k].policy
               \/ handler'[k].policy \subseteq {GetPolicySnapshot}
    <2>1. CASE h = k
      <3>1. handler'[k].policy = IF hash # handler[h].report.hash
                                   THEN {GetPolicySnapshot} ELSE {}
        BY <1>0, <1>4, <2>1 DEF HandleSnapshot, Requests
      <3> QED BY <3>1
    <2>2. CASE h # k
      BY <1>0, <1>4, <2>2 DEF HandleSnapshot
    <2> QED BY <2>1, <2>2
  <1>5. ASSUME NEW h \in Handlers,
               \/ AuthToken(h) \/ AuthAgent(h) \/ HandleReply(h)
               \/ HandleUpdate(h) \/ HandleUpsert(h) \/ HandlerError(h)
        PROVE  handler'[k].policy = handler[k].policy
    BY <1>0, <1>5
       DEF Requests, Goto, Answer, AuthToken, AuthAgent, HandleReply,
           HandleUpdate, HandleUpsert, HandlerError, AuthStoreError,
           HandleUpdateError, HandleSnapshotError, HandleUpsertError,
           HandleReplyError
  <1>6. CASE \/ Operator \/ Link \/ Timeout \/ Local \/ LocalFault
             \/ Lifecycle \/ UNCHANGED vars
    BY <1>1, <1>6
       DEF Operator, Link, Timeout, Local, LocalFault, Lifecycle, vars
  <1> QED BY <1>2, <1>3, <1>4, <1>5, <1>6 DEF Next, Server, HandlerStep

\* The queue takes what an answer carries.
LEMMA QueueStep ==
    ASSUME TypeOK, [Next]_vars
    PROVE  \/ queue' \subseteq queue
           \/ \E h \in Handlers : ReceiveAnswer(h) /\ queue' = handler[h].policy
  <1>1. ASSUME NEW h \in Handlers, ReceiveAnswer(h)
        PROVE  queue' \subseteq queue \/ queue' = handler[h].policy
    BY <1>1 DEF ReceiveAnswer, BeatOK, Dispatch, BeatUnauthorized, BeatGone,
                BeatError
  <1>2. ASSUME NEW h \in Handlers, SendHeartbeat(h) \/ Abandon(h) \/ Server(h)
        PROVE  queue' = queue
    BY <1>2 DEF SendHeartbeat, Beat, Abandon, Server, agentVars, memory
  <1>3. CASE Operator \/ Link \/ Timeout \/ UNCHANGED vars
    BY <1>3 DEF Operator, Link, Timeout, BeatError, vars, agentVars, memory
  <1>4. CASE Local
    <2>1. CASE WorkerStep
      BY <2>1 DEF WorkerStep, WorkerTake, WorkerValidate, WorkerInvalid,
                  ApplyFailed, WorkerWrite, WorkerList, WorkerRemove,
                  WorkerDone
    <2>2. CASE FailClosedStep \/ WipeStep \/ Elapse \/ CheckFailClosed
      BY <2>2 DEF FailClosedStep, FailClosedList, FailClosedRemove,
                  FailClosedDone, WipeStep, WipeList, WipeRemove, WipeDone,
                  Elapse, CheckFailClosed
    <2> QED BY <1>4, <2>1, <2>2 DEF Local
  <1>5. CASE LocalFault
    BY <1>5 DEF LocalFault, AgentFault, WorkerFail, ApplyFailed,
                FailClosedFail, WipeListFail, WipeRemoveFail,
                WipeDoneNoMarker
  <1>6. CASE Lifecycle
    BY <1>6 DEF Lifecycle, Shutdown, Exit, Crash, Restart, FreshMemory, memory
  <1> QED BY <1>1, <1>2, <1>3, <1>4, <1>5, <1>6 DEF Next

\* The worker takes what is queued.
LEMMA WorkerSnapStep ==
    ASSUME TypeOK, [Next]_vars
    PROVE  \/ worker'.snap \subseteq worker.snap
           \/ Local /\ WorkerTake /\ worker'.snap \subseteq queue
  <1>0. worker \in Renderings
    BY DEF TypeOK, AgentTypeOK
  <1>1. ASSUME NEW h \in Handlers,
               \/ SendHeartbeat(h) \/ ReceiveAnswer(h)
               \/ Abandon(h) \/ Server(h)
        PROVE  worker' = worker
    BY <1>1 DEF SendHeartbeat, Beat, Abandon, Server, agentVars, memory,
                ReceiveAnswer, BeatOK, BeatUnauthorized, BeatGone, BeatError
  <1>2. CASE Operator \/ Link \/ Timeout \/ UNCHANGED vars
    BY <1>2 DEF Operator, Link, Timeout, BeatError, vars, agentVars, memory
  <1>3. CASE Local
    <2>1. CASE WorkerTake
      <3>1. PICK p \in queue : worker' = BeginRender(p)
        BY <2>1 DEF WorkerTake
      <3>2. worker'.snap = {p}
        BY <3>1 DEF BeginRender
      <3> QED BY <1>3, <2>1, <3>2
    <2>2. CASE WorkerValidate \/ WorkerList
      BY <1>0, <2>2 DEF WorkerValidate, Validated, WorkerList, Listed, Renderings
    <2>3. ASSUME NEW u \in Users, WorkerWrite(u) \/ WorkerRemove(u)
          PROVE  worker'.snap = worker.snap
      BY <1>0, <2>3 DEF WorkerWrite, WorkerRemove, Ticked, Renderings
    <2>4. CASE WorkerInvalid \/ WorkerDone
      BY <2>4 DEF WorkerInvalid, ApplyFailed, WorkerDone, NoRendering
    <2>5. CASE FailClosedStep \/ WipeStep \/ Elapse \/ CheckFailClosed
      BY <2>5 DEF FailClosedStep, FailClosedList, FailClosedRemove,
                  FailClosedDone, WipeStep, WipeList, WipeRemove, WipeDone,
                  Elapse, CheckFailClosed
    <2> QED BY <1>3, <2>1, <2>2, <2>3, <2>4, <2>5 DEF Local, WorkerStep
  <1>4. CASE LocalFault
    BY <1>4 DEF LocalFault, AgentFault, WorkerFail, ApplyFailed, NoRendering,
                FailClosedFail, WipeListFail, WipeRemoveFail,
                WipeDoneNoMarker
  <1>5. CASE Lifecycle
    BY <1>5 DEF Lifecycle, Shutdown, Exit, Crash, Restart, FreshMemory,
                memory, NoRendering
  <1> QED BY <1>1, <1>2, <1>3, <1>4, <1>5 DEF Next

\* Nothing but a fresh snapshot comes into the channel.
LEMMA TransitStep ==
    ASSUME TypeOK, [Next]_vars, NEW p \in InTransit'
    PROVE  p \in InTransit \/ p = GetPolicySnapshot
  <1>1. queue' \subseteq InTransit
    BY QueueStep DEF InTransit
  <1>2. worker'.snap \subseteq InTransit
    BY WorkerSnapStep DEF InTransit
  <1>3. ASSUME NEW h \in Handlers, p \in handler'[h].policy
        PROVE  p \in InTransit \/ p = GetPolicySnapshot
    BY <1>3, HandlerPolicyStep DEF InTransit
  <1> QED BY <1>1, <1>2, <1>3 DEF InTransit

LEMMA NoTornStep ==
    ASSUME TypeOK, LogIsCurrent, NoTornPolicy, [Next]_vars
    PROVE  NoTornPolicy'
  <1>1. SUFFICES ASSUME NEW p \in InTransit'
                 PROVE  Published(p)'
    BY DEF NoTornPolicy
  <1>2. Published(p)
    BY TransitStep, SnapshotPublished DEF NoTornPolicy
  <1> QED BY <1>2, StaysPublished

-----------------------------------------------------------------------------
(* The directory.                                                          *)

\* A step leaves a file alone, removes it, or writes it from the policy the
\* worker holds.
LEMMA FileStep ==
    ASSUME TypeOK, [Next]_vars, NEW u \in Users
    PROVE  \/ disk'[u] = disk[u]
           \/ disk'[u] = {}
           \/ /\ worker.pc = "write"
              /\ \E p \in worker.snap : disk'[u] = p.principals[u]
  <1>0. disk \in [Users -> SUBSET Callers]
    BY DEF TypeOK, AgentTypeOK, DiskTypeOK, Files
  <1>1. ASSUME NEW h \in Handlers,
               \/ SendHeartbeat(h) \/ ReceiveAnswer(h)
               \/ Abandon(h) \/ Server(h)
        PROVE  disk' = disk
    BY <1>1 DEF SendHeartbeat, Beat, Abandon, Server, agentVars,
                ReceiveAnswer, BeatOK, BeatUnauthorized, BeatGone, BeatError
  <1>2. CASE Operator \/ Link \/ Timeout \/ UNCHANGED vars
    BY <1>2 DEF Operator, Link, Timeout, BeatError, vars, agentVars
  <1>3. CASE Local
    <2>1. ASSUME NEW w \in Users, WorkerWrite(w)
          PROVE  \/ disk'[u] = disk[u]
                 \/ /\ worker.pc = "write"
                    /\ \E p \in worker.snap : disk'[u] = p.principals[u]
      BY <1>0, <2>1 DEF WorkerWrite, WriteFile
    <2>2. ASSUME NEW w \in Users,
                 WorkerRemove(w) \/ FailClosedRemove(w) \/ WipeRemove(w)
          PROVE  disk'[u] = disk[u] \/ disk'[u] = {}
      BY <1>0, <2>2 DEF WorkerRemove, FailClosedRemove, WipeRemove, RemoveFile
    <2>3. CASE \/ WorkerTake \/ WorkerValidate \/ WorkerInvalid \/ WorkerList
               \/ WorkerDone
      BY <2>3 DEF WorkerTake, WorkerValidate, WorkerInvalid, ApplyFailed,
                  WorkerList, WorkerDone
    <2>4. CASE \/ FailClosedList \/ FailClosedDone \/ WipeList \/ WipeDone
               \/ Elapse \/ CheckFailClosed
      BY <2>4 DEF FailClosedList, FailClosedDone, WipeList, WipeDone, Elapse,
                  CheckFailClosed
    <2> QED BY <1>3, <2>1, <2>2, <2>3, <2>4
            DEF Local, WorkerStep, FailClosedStep, WipeStep
  <1>4. CASE LocalFault
    BY <1>4 DEF LocalFault, AgentFault, WorkerFail, ApplyFailed,
                FailClosedFail, WipeListFail, WipeRemoveFail,
                WipeDoneNoMarker
  <1>5. CASE Lifecycle
    BY <1>5 DEF Lifecycle, Shutdown, Exit, Crash, Restart
  <1> QED BY <1>1, <1>2, <1>3, <1>4, <1>5 DEF Next

LEMMA FilesStep ==
    ASSUME TypeOK, NoTornPolicy, FilesWereGranted, [Next]_vars
    PROVE  FilesWereGranted'
  <1>1. SUFFICES ASSUME NEW u \in Users, disk'[u] # {}
                 PROVE  \E v \in 0..version' :
                           disk'[u] = Projection(aclAt'[v])[u]
    BY DEF FilesWereGranted, Projection
  <1>2. ASSUME NEW v \in 0..version
        PROVE  v \in 0..version' /\ aclAt'[v] = aclAt[v]
    BY <1>2, LogGrows
  <1>3. CASE disk'[u] = disk[u]
    <2>1. PICK v \in 0..version : disk[u] = Projection(aclAt[v])[u]
      BY <1>1, <1>3 DEF FilesWereGranted
    <2> QED BY <1>2, <1>3, <2>1
  <1>4. ASSUME NEW p \in worker.snap, disk'[u] = p.principals[u]
        PROVE  \E v \in 0..version' : disk'[u] = Projection(aclAt'[v])[u]
    <2>1. Published(p)
      BY DEF NoTornPolicy, InTransit
    <2>2. p.version \in 0..version
      BY <2>1 DEF Published
    <2>3. disk'[u] = Projection(aclAt[p.version])[u]
      BY <1>4, <2>1 DEF Published
    <2> QED BY <1>2, <2>2, <2>3
  <1> QED BY <1>1, <1>3, <1>4, FileStep

-----------------------------------------------------------------------------

LEMMA HistoryInit == Init => HistoryInv
  <1> SUFFICES ASSUME Init PROVE HistoryInv
    OBVIOUS
  <1>1. TypeOK
    BY InitType
  <1>2. LogIsCurrent
    BY DEF Init, StoreInit, LogIsCurrent, Hash
  <1>3. NoTornPolicy
    BY DEF Init, HandlerInit, AgentInit, NoTornPolicy, InTransit, Free,
           NoRendering
  <1>4. FilesWereGranted
    BY DEF Init, AgentInit, DiskInit, NoFiles, FilesWereGranted
  <1> QED BY <1>1, <1>2, <1>3, <1>4 DEF HistoryInv

\* The three facts together are inductive.
THEOREM HistoryInvariant == Spec => []HistoryInv
  <1>1. HistoryInv /\ [Next]_vars => HistoryInv'
    BY TypeInductive, LogStaysCurrent, NoTornStep, FilesStep DEF HistoryInv
  <1> QED BY <1>1, HistoryInit, PTL DEF Spec

\* However requests, operator commands, crashes and failures interleave, a
\* policy on its way to the Agent is one published version of the ACL.
THEOREM PoliciesAreNotTorn == Spec => []NoTornPolicy
  <1>1. HistoryInv => NoTornPolicy
    BY DEF HistoryInv
  <1> QED BY <1>1, HistoryInvariant, PTL

\* Whatever crashes, fails half-way or races, every principals file holds
\* exactly what one published version of the ACL granted for its user.
THEOREM FilesAreGranted == Spec => []FilesWereGranted
  <1>1. HistoryInv => FilesWereGranted
    BY DEF HistoryInv
  <1> QED BY <1>1, HistoryInvariant, PTL

=============================================================================
