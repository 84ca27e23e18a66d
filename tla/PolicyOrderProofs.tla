------------------------- MODULE PolicyOrderProofs -------------------------
(***************************************************************************)
(* Theorems about the order in which policies reach the directory, and     *)
(* that PolicySync implements PrincipalsReplica.                           *)
(*                                                                         *)
(* Requests of one Agent may overlap in the Control plane, but only the    *)
(* newest of them is awaited. Its snapshot was taken after everything in   *)
(* the channel, so versions only grow from the directory (rendered),       *)
(* through the worker and the queue, to the awaited answer and the store.  *)
(***************************************************************************)
EXTENDS PolicySyncProofs

\* From the directory up to the store, versions do not decrease.
ChannelOrder ==
    /\ applied.version <= rendered
    /\ rendered <= version
    /\ \A p \in worker.snap : p.version = rendered
    /\ \A p \in queue : rendered <= p.version
    /\ \A h \in awaited : \A p \in handler[h].policy :
          /\ rendered <= p.version
          /\ \A q \in queue : q.version <= p.version

\* What a request reports, and what the store records of it, is behind.
ReportOrder ==
    /\ \A h \in Handlers :
          /\ handler[h].report.version <= version
          /\ \/ handler[h].desired = 0
             \/ handler[h].report.version <= handler[h].desired
    /\ DesiredCoversApplied

OrderInv == HistoryInv /\ ChannelOrder /\ ReportOrder

-----------------------------------------------------------------------------

\* Which steps move the rendered version, and how.
LEMMA RenderedStep ==
    ASSUME TypeOK, [Next]_vars
    PROVE  \/ rendered' = rendered
           \/ Local /\ WorkerTake
  <1>1. ASSUME NEW h \in Handlers,
               \/ SendHeartbeat(h) \/ ReceiveAnswer(h)
               \/ Abandon(h) \/ Server(h)
        PROVE  rendered' = rendered
    BY <1>1 DEF SendHeartbeat, Beat, Abandon, Server, agentVars,
                ReceiveAnswer, BeatOK, BeatUnauthorized, BeatGone, BeatError
  <1>2. CASE Operator \/ Link \/ Timeout \/ UNCHANGED vars
    BY <1>2 DEF Operator, Link, Timeout, BeatError, vars, agentVars
  <1>3. CASE Local
    <2>1. CASE WorkerTake
      BY <1>3, <2>1
    <2>2. ASSUME NEW w \in Users,
                 \/ WorkerWrite(w) \/ WorkerRemove(w) \/ FailClosedRemove(w)
                 \/ WipeRemove(w)
          PROVE  rendered' = rendered
      BY <2>2 DEF WorkerWrite, WorkerRemove, FailClosedRemove, WipeRemove
    <2>3. CASE \/ WorkerValidate \/ WorkerInvalid \/ WorkerList
               \/ WorkerDone
      BY <2>3 DEF WorkerValidate, WorkerInvalid, ApplyFailed,
                  WorkerList, WorkerDone
    <2>4. CASE \/ FailClosedList \/ FailClosedDone \/ WipeList \/ WipeDone
               \/ Elapse \/ CheckFailClosed
      BY <2>4 DEF FailClosedList, FailClosedDone, WipeList, WipeDone, Elapse,
                  CheckFailClosed
    <2> QED BY <1>3, <2>1, <2>2, <2>3, <2>4
            DEF Local, WorkerStep, FailClosedStep, WipeStep
  <1>4. CASE LocalFault
    BY <1>4 DEF LocalFault, AgentFault, WorkerFail, ApplyFailed,
                FailClosedFail, WipeListFail, WipeRemoveFail,
                WipeDoneNoMarker
  <1>5. CASE Lifecycle
    BY <1>5 DEF Lifecycle, Shutdown, Exit, Crash, Restart
  <1> QED BY <1>1, <1>2, <1>3, <1>4, <1>5 DEF Next

\* The reported version is replaced by that of the policy just rendered, or
\* is reset by a restart or a fail-closed wipe.
LEMMA AppliedStep ==
    ASSUME TypeOK, [Next]_vars
    PROVE  \/ applied'.version = applied.version
           \/ applied'.version = 0
           \/ /\ \E p \in worker.snap : applied'.version = p.version
              /\ rendered' = rendered
  <1>0. applied \in [version : Nat, hash : Hashes,
                     status : {"", "ok", "failed"}]
    BY DEF TypeOK, AgentTypeOK
  <1>1. ASSUME NEW h \in Handlers,
               \/ SendHeartbeat(h) \/ ReceiveAnswer(h)
               \/ Abandon(h) \/ Server(h)
        PROVE  applied' = applied
    BY <1>1 DEF SendHeartbeat, Beat, Abandon, Server, agentVars, memory,
                ReceiveAnswer, BeatOK, BeatUnauthorized, BeatGone, BeatError
  <1>2. CASE Operator \/ Link \/ Timeout \/ UNCHANGED vars
    BY <1>2 DEF Operator, Link, Timeout, BeatError, vars, agentVars, memory
  <1>3. CASE Local
    <2>1. CASE WorkerDone
      BY <2>1 DEF WorkerDone
    <2>2. ASSUME NEW w \in Users,
                 \/ WorkerWrite(w) \/ WorkerRemove(w) \/ FailClosedRemove(w)
                 \/ WipeRemove(w)
          PROVE  applied' = applied
      BY <2>2 DEF WorkerWrite, WorkerRemove, FailClosedRemove, WipeRemove
    <2>3. CASE WorkerTake \/ WorkerValidate \/ WorkerInvalid \/ WorkerList
      BY <1>0, <2>3 DEF WorkerTake, WorkerValidate, WorkerInvalid,
                        ApplyFailed, WorkerList
    <2>4. CASE FailClosedDone
      BY <2>4 DEF FailClosedDone
    <2>5. CASE \/ FailClosedList \/ WipeList \/ WipeDone \/ Elapse
               \/ CheckFailClosed
      BY <2>5 DEF FailClosedList, WipeList, WipeDone, Elapse, CheckFailClosed
    <2> QED BY <1>3, <2>1, <2>2, <2>3, <2>4, <2>5
            DEF Local, WorkerStep, FailClosedStep, WipeStep
  <1>4. CASE LocalFault
    <2>1. \/ applied' = applied
          \/ applied' = [applied EXCEPT !.status = "failed"]
      BY <1>4 DEF LocalFault, AgentFault, WorkerFail, ApplyFailed,
                  FailClosedFail, WipeListFail, WipeRemoveFail,
                  WipeDoneNoMarker
    <2> QED BY <1>0, <2>1
  <1>5. CASE Lifecycle
    <2>1. applied' = applied \/ applied' = NoApply
      BY <1>5 DEF Lifecycle, Shutdown, Exit, Crash, Restart, FreshMemory,
                  memory
    <2>2. NoApply.version = 0
      BY DEF NoApply
    <2> QED BY <2>1, <2>2
  <1> QED BY <1>1, <1>2, <1>3, <1>4, <1>5 DEF Next

LEMMA AwaitedStep ==
    ASSUME [Next]_vars
    PROVE  \/ awaited' \subseteq awaited
           \/ \E h \in Handlers : SendHeartbeat(h) /\ awaited' = {h}
  <1>1. ASSUME NEW h \in Handlers, ReceiveAnswer(h) \/ Abandon(h) \/ Server(h)
        PROVE  awaited' \subseteq awaited
    BY <1>1 DEF ReceiveAnswer, Abandon, Server
  <1>2. ASSUME NEW h \in Handlers, SendHeartbeat(h)
        PROVE  awaited' = {h}
    BY <1>2 DEF SendHeartbeat
  <1>3. CASE \/ Operator \/ Link \/ Timeout \/ Local \/ LocalFault
             \/ Lifecycle \/ UNCHANGED vars
    BY <1>3 DEF Operator, Link, Timeout, Local, LocalFault, Lifecycle, vars
  <1> QED BY <1>1, <1>2, <1>3 DEF Next

LEMMA ChannelStep ==
    ASSUME HistoryInv, ChannelOrder, [Next]_vars
    PROVE  ChannelOrder'
  <1>0. /\ TypeOK
        /\ version \in Nat /\ version' \in Nat /\ version <= version'
        /\ rendered \in Nat /\ rendered' \in Nat
        /\ applied.version \in Nat
    BY LogGrows, TypeInductive
       DEF HistoryInv, TypeOK, StoreTypeOK, AgentTypeOK
  <1>a. ASSUME NEW p \in InTransit
        PROVE  p.version \in Nat /\ p.version <= version
    BY <1>0 DEF HistoryInv, NoTornPolicy, Published
  <1>1. CASE Local /\ WorkerTake
    <2>1. UNCHANGED <<version, handler, awaited, applied>>
      BY <1>1 DEF Local, storeVars, WorkerTake
    <2>2. PICK p \in queue :
             /\ queue' = {}
             /\ worker' = BeginRender(p)
             /\ rendered' = IF p.version > rendered
                              THEN p.version ELSE rendered
      BY <1>1 DEF WorkerTake
    <2>3. p.version \in Nat /\ p.version <= version
      BY <1>a DEF InTransit
    <2>4. rendered' = p.version /\ rendered <= rendered'
      BY <1>0, <2>2, <2>3 DEF ChannelOrder
    <2>5. worker'.snap = {p}
      BY <2>2 DEF BeginRender
    <2>6. ASSUME NEW h \in awaited', NEW q \in handler'[h].policy
          PROVE  rendered' <= q.version
      BY <2>1, <2>4, <2>6 DEF ChannelOrder
    <2>7. applied'.version <= rendered'
      BY <1>0, <2>1, <2>4 DEF ChannelOrder
    <2> QED BY <2>1, <2>2, <2>3, <2>4, <2>5, <2>6, <2>7 DEF ChannelOrder
  <1>2. CASE ~(Local /\ WorkerTake)
    <2>1. rendered' = rendered /\ worker'.snap \subseteq worker.snap
      BY <1>0, <1>2, RenderedStep, WorkerSnapStep
    <2>2. applied'.version <= rendered'
      BY <1>0, <2>1, AppliedStep DEF ChannelOrder
    <2>3. rendered' <= version' /\ \A p \in worker'.snap : p.version = rendered'
      BY <1>0, <2>1 DEF ChannelOrder
    <2>4. \A p \in queue' : rendered' <= p.version
      BY <1>0, <2>1, QueueStep DEF ChannelOrder, ReceiveAnswer
    <2>5. ASSUME NEW h \in awaited', NEW p \in handler'[h].policy
          PROVE  /\ rendered' <= p.version
                 /\ \A q \in queue' : q.version <= p.version
      <3>0. h \in Handlers
        BY TypeInductive, <1>0 DEF TypeOK
      <3>1. queue' \subseteq queue
        BY <1>0, <2>5, QueueStep DEF ReceiveAnswer
      <3>2. h \in awaited
        <4>1. SUFFICES ASSUME SendHeartbeat(h) PROVE FALSE
          BY AwaitedStep
        <4>2. handler'[h].policy = {}
          BY <1>0, <3>0, <4>1
             DEF SendHeartbeat, Arrive, Free, TypeOK, HandlerTypeOK
        <4> QED BY <2>5, <4>2
      <3>3. p \in handler[h].policy \/ p = GetPolicySnapshot
        BY <1>0, <2>5, <3>0, HandlerPolicyStep
      <3>4. CASE p \in handler[h].policy
        BY <2>1, <3>1, <3>2, <3>4 DEF ChannelOrder
      <3>5. CASE p = GetPolicySnapshot
        <4>1. p.version = version
          BY <3>5 DEF GetPolicySnapshot
        <4>2. \A q \in queue' : q.version <= p.version
          BY <1>a, <3>1, <4>1 DEF InTransit
        <4> QED BY <2>1, <4>1, <4>2 DEF ChannelOrder
      <3> QED BY <3>3, <3>4, <3>5
    <2> QED BY <2>2, <2>3, <2>4, <2>5 DEF ChannelOrder
  <1> QED BY <1>1, <1>2

\* How a step changes the report and the snapshot version of a request.
LEMMA RequestStep ==
    ASSUME TypeOK, [Next]_vars, NEW k \in Handlers
    PROVE  \/ /\ handler'[k].report = handler[k].report
              /\ handler'[k].desired \in {handler[k].desired, version}
           \/ /\ handler'[k].report.version \in {0, applied.version}
              /\ handler'[k].desired = 0
  <1>0. handler \in [Handlers -> Requests] /\ handler[k] \in Requests
    BY DEF TypeOK, HandlerTypeOK
  <1>1. ASSUME NEW h \in Handlers, SendHeartbeat(h)
        PROVE  \/ handler'[k] = handler[k]
               \/ /\ handler'[k].report.version = applied.version
                  /\ handler'[k].desired = 0
    BY <1>0, <1>1 DEF SendHeartbeat, Arrive, Free
  <1>2. ASSUME NEW h \in Handlers, ReceiveAnswer(h) \/ Abandon(h)
        PROVE  \/ handler'[k] = handler[k]
               \/ /\ handler'[k].report.version = 0
                  /\ handler'[k].desired = 0
    BY <1>0, <1>2 DEF ReceiveAnswer, Abandon, Release, Free, NoReport
  <1>3. ASSUME NEW h \in Handlers, HandleSnapshot(h)
        PROVE  /\ handler'[k].report = handler[k].report
               /\ handler'[k].desired \in {handler[k].desired, version}
    BY <1>0, <1>3 DEF HandleSnapshot, Requests
  <1>4. ASSUME NEW h \in Handlers,
               \/ AuthToken(h) \/ AuthAgent(h) \/ HandleReply(h)
               \/ HandleUpdate(h) \/ HandleUpsert(h) \/ HandlerError(h)
        PROVE  /\ handler'[k].report = handler[k].report
               /\ handler'[k].desired = handler[k].desired
    BY <1>0, <1>4
       DEF Requests, Goto, Answer, AuthToken, AuthAgent, HandleReply,
           HandleUpdate, HandleUpsert, HandlerError, AuthStoreError,
           HandleUpdateError, HandleSnapshotError, HandleUpsertError,
           HandleReplyError
  <1>5. CASE \/ Operator \/ Link \/ Timeout \/ Local \/ LocalFault
             \/ Lifecycle \/ UNCHANGED vars
    BY <1>5 DEF Operator, Link, Timeout, Local, LocalFault, Lifecycle, vars
  <1> QED BY <1>1, <1>2, <1>3, <1>4, <1>5 DEF Next, Server, HandlerStep

\* The row of the store is written from a request.
LEMMA StateRowStep ==
    ASSUME [Next]_vars
    PROVE  \/ policyState' = policyState
           \/ \E h \in Handlers :
                 policyState' = [desired |-> handler[h].desired,
                                 applied |-> handler[h].report.version]
  <1>1. CASE Operator
    BY <1>1 DEF Operator, CreateACL, DeleteACL, RevokeAgent, RevokeToken,
                SetAgentFailClosedAfter, agentRowVars
  <1>2. ASSUME NEW h \in Handlers, Server(h)
        PROVE  \/ policyState' = policyState
               \/ policyState' = [desired |-> handler[h].desired,
                                  applied |-> handler[h].report.version]
    BY <1>2 DEF Server, HandlerStep, HandlerError, storeVars, AuthToken,
                AuthAgent, HandleUpdate, HandleSnapshot, HandleUpsert,
                HandleReply, AuthStoreError, HandleUpdateError,
                HandleSnapshotError, HandleUpsertError, HandleReplyError,
                UpdateAgentHeartbeat, UpsertAgentPolicyState
  <1>3. CASE \/ \E h \in Handlers :
                   SendHeartbeat(h) \/ ReceiveAnswer(h) \/ Abandon(h)
             \/ Link \/ Timeout \/ Local \/ LocalFault \/ Lifecycle
    BY <1>3 DEF SendHeartbeat, ReceiveAnswer, Abandon, Link, Timeout, Local,
                LocalFault, Lifecycle, storeVars
  <1>4. CASE UNCHANGED vars
    BY <1>4 DEF vars, storeVars
  <1> QED BY <1>1, <1>2, <1>3, <1>4 DEF Next

LEMMA ReportStep ==
    ASSUME HistoryInv, ChannelOrder, ReportOrder, [Next]_vars
    PROVE  ReportOrder'
  <1>0. /\ TypeOK
        /\ version \in Nat /\ version' \in Nat /\ version <= version'
        /\ rendered \in Nat
        /\ applied.version \in Nat
    BY LogGrows DEF HistoryInv, TypeOK, StoreTypeOK, AgentTypeOK
  <1>1. applied.version <= version
    BY <1>0 DEF ChannelOrder
  <1>2. ASSUME NEW h \in Handlers
        PROVE  /\ handler'[h].report.version <= version'
               /\ \/ handler'[h].desired = 0
                  \/ handler'[h].report.version <= handler'[h].desired
    <2>1. handler[h].report.version \in Nat /\ handler[h].desired \in Nat
      BY <1>0 DEF TypeOK, HandlerTypeOK, Requests, Report
    <2>2. /\ handler[h].report.version <= version
          /\ \/ handler[h].desired = 0
             \/ handler[h].report.version <= handler[h].desired
      BY DEF ReportOrder
    <2>3. CASE /\ handler'[h].report = handler[h].report
               /\ handler'[h].desired \in {handler[h].desired, version}
      BY <1>0, <2>1, <2>2, <2>3
    <2>4. CASE /\ handler'[h].report.version \in {0, applied.version}
               /\ handler'[h].desired = 0
      BY <1>0, <1>1, <2>4
    <2> QED BY <1>0, <2>3, <2>4, RequestStep
  <1>3. DesiredCoversApplied'
    <2>1. CASE policyState' = policyState
      BY <2>1 DEF ReportOrder, DesiredCoversApplied
    <2>2. ASSUME NEW h \in Handlers,
                 policyState' = [desired |-> handler[h].desired,
                                 applied |-> handler[h].report.version]
          PROVE  DesiredCoversApplied'
      BY <2>2 DEF ReportOrder, DesiredCoversApplied
    <2> QED BY <2>1, <2>2, StateRowStep
  <1> QED BY <1>2, <1>3 DEF ReportOrder

-----------------------------------------------------------------------------

LEMMA OrderInit == Init => OrderInv
  <1> SUFFICES ASSUME Init PROVE OrderInv
    OBVIOUS
  <1>1. ChannelOrder
    <2>1. version = 0 /\ rendered = 0 /\ queue = {} /\ awaited = {}
      BY DEF Init, StoreInit, AgentInit
    <2>2. applied.version = 0 /\ worker.snap = {}
      BY DEF Init, AgentInit, NoApply, NoRendering
    <2> QED BY <2>1, <2>2 DEF ChannelOrder
  <1>2. ReportOrder
    BY DEF Init, StoreInit, HandlerInit, Free, NoReport, ReportOrder,
           DesiredCoversApplied
  <1> QED BY <1>1, <1>2, HistoryInit DEF OrderInv

LEMMA OrderStep == OrderInv /\ [Next]_vars => OrderInv'
  <1> SUFFICES ASSUME OrderInv, [Next]_vars PROVE OrderInv'
    OBVIOUS
  <1>1. HistoryInv'
    BY TypeInductive, LogStaysCurrent, NoTornStep, FilesStep
       DEF OrderInv, HistoryInv
  <1> QED BY <1>1, ChannelStep, ReportStep DEF OrderInv

\* Versions are ordered all the way from the directory to the store.
THEOREM OrderInvariant == Spec => []OrderInv
  BY OrderInit, OrderStep, PTL DEF Spec

\* The row an operator reads never shows an Agent ahead of the Control plane,
\* in whatever order overlapping requests write it.
THEOREM DesiredIsAhead == Spec => []DesiredCoversApplied
  <1>1. OrderInv => DesiredCoversApplied
    BY DEF OrderInv, ReportOrder
  <1> QED BY <1>1, OrderInvariant, PTL

\* No answer is applied out of order: the version an Agent reports goes back
\* only to 0, by a restart or a fail-closed wipe.
THEOREM AppliedMonotone == Spec => AppliedNeverRegresses
  <1>1. OrderInv /\ [Next]_vars
          => [\/ applied'.version >= applied.version
              \/ applied'.version = 0]_applied
    <2> SUFFICES ASSUME OrderInv, [Next]_vars
                 PROVE  \/ applied'.version >= applied.version
                        \/ applied'.version = 0
      OBVIOUS
    <2>1. TypeOK /\ applied.version \in Nat /\ rendered \in Nat
      BY DEF OrderInv, HistoryInv, TypeOK, AgentTypeOK
    <2> QED BY <2>1, AppliedStep DEF OrderInv, ChannelOrder
  <1> QED BY <1>1, OrderInvariant, PTL DEF Spec, AppliedNeverRegresses

-----------------------------------------------------------------------------
(* PolicySync implements PrincipalsReplica.                                *)

LEMMA ReplicaInitially == Init => Replica!ReplicaInit
  BY DEF Init, StoreInit, AgentInit, DiskInit, NoFiles,
         Replica!ReplicaInit, Replica!NoFiles

\* An ACL change publishes, nothing else does.
LEMMA PublishStep ==
    ASSUME OrderInv, Operator
    PROVE  Replica!Publish \/ UNCHANGED <<version, aclAt, rendered, disk>>
  <1>0. UNCHANGED <<rendered, disk>>
    BY DEF Operator, agentVars
  <1>a. aclAt[version] = acl
    BY DEF OrderInv, HistoryInv, LogIsCurrent
  <1>1. ASSUME NEW g \in Grants, CreateACL(g)
        PROVE  Replica!Publish
    BY <1>0, <1>1, <1>a
       DEF CreateACL, bumpPolicyVersionTx, Grants,
           Replica!Publish, Replica!Grants
  <1>2. ASSUME NEW g \in Grants, DeleteACL(g)
        PROVE  Replica!Publish
    BY <1>0, <1>2, <1>a
       DEF DeleteACL, bumpPolicyVersionTx, Grants,
           Replica!Publish, Replica!Grants
  <1>3. CASE \/ RevokeAgent \/ RevokeToken
             \/ \E on \in BOOLEAN : SetAgentFailClosedAfter(on)
    BY <1>0, <1>3 DEF RevokeAgent, RevokeToken, SetAgentFailClosedAfter
  <1> QED BY <1>1, <1>2, <1>3 DEF Operator

\* Every local step adopts, puts, drops or is invisible.
LEMMA LocalReplicaStep ==
    ASSUME OrderInv, Local
    PROVE  \/ Replica!ReplicaNext
           \/ UNCHANGED <<version, aclAt, rendered, disk>>
  <1>0. UNCHANGED <<version, aclAt>>
    BY DEF Local, storeVars
  <1>a. rendered \in Nat /\ version \in Nat
    BY DEF OrderInv, HistoryInv, TypeOK, AgentTypeOK, StoreTypeOK
  <1>1. CASE WorkerTake
    <2>1. PICK p \in queue :
             rendered' = IF p.version > rendered THEN p.version ELSE rendered
      BY <1>1 DEF WorkerTake
    <2>2. p.version \in Nat /\ p.version <= version
      BY <1>a DEF OrderInv, HistoryInv, NoTornPolicy, InTransit, Published
    <2>3. disk' = disk
      BY <1>1 DEF WorkerTake
    <2>4. rendered' = rendered \/ rendered' \in (rendered + 1)..version
      BY <1>a, <2>1, <2>2
    <2> QED BY <1>0, <2>3, <2>4 DEF Replica!ReplicaNext, Replica!Adopt
  <1>2. ASSUME NEW u \in Users, WorkerWrite(u)
        PROVE  Replica!Put(u)
    <2>1. PICK p \in worker.snap : WriteFile(u, p)
      BY <1>2 DEF WorkerWrite
    <2>2. p.version = rendered /\ p.principals = Projection(aclAt[rendered])
      BY DEF OrderInv, ChannelOrder, HistoryInv, NoTornPolicy, InTransit,
             Published
    <2>3. disk' = [disk EXCEPT ![u] = Projection(aclAt[rendered])[u]]
      BY <2>1, <2>2 DEF WriteFile
    <2>4. rendered' = rendered
      BY <1>2 DEF WorkerWrite
    <2> QED BY <1>0, <2>3, <2>4
            DEF Replica!Put, Replica!Projection, Projection
  <1>3. ASSUME NEW u \in Users,
               WorkerRemove(u) \/ FailClosedRemove(u) \/ WipeRemove(u)
        PROVE  Replica!Drop(u)
    BY <1>0, <1>3 DEF WorkerRemove, FailClosedRemove, WipeRemove, RemoveFile,
                      Replica!Drop
  <1>4. CASE \/ WorkerValidate \/ WorkerInvalid \/ WorkerList \/ WorkerDone
             \/ FailClosedList \/ FailClosedDone \/ WipeList \/ WipeDone
             \/ Elapse \/ CheckFailClosed
    BY <1>0, <1>4
       DEF WorkerValidate, WorkerInvalid, ApplyFailed, WorkerList, WorkerDone,
           FailClosedList, FailClosedDone, WipeList, WipeDone, Elapse,
           CheckFailClosed
  <1> QED BY <1>1, <1>2, <1>3, <1>4
          DEF Local, WorkerStep, FailClosedStep, WipeStep,
              Replica!ReplicaNext

LEMMA ReplicaStep ==
    ASSUME OrderInv, [Next]_vars
    PROVE  [Replica!ReplicaNext]_<<version, aclAt, rendered, disk>>
  <1>1. CASE Operator
    BY <1>1, PublishStep DEF Replica!ReplicaNext
  <1>2. CASE Local
    BY <1>2, LocalReplicaStep
  <1>3. ASSUME NEW h \in Handlers,
               \/ SendHeartbeat(h) \/ ReceiveAnswer(h) \/ Abandon(h)
        PROVE  UNCHANGED <<version, aclAt, rendered, disk>>
    BY <1>3 DEF SendHeartbeat, Beat, Abandon, agentVars, storeVars,
                ReceiveAnswer, BeatOK, BeatUnauthorized, BeatGone, BeatError
  <1>4. ASSUME NEW h \in Handlers, Server(h)
        PROVE  UNCHANGED <<version, aclAt, rendered, disk>>
    BY <1>4 DEF Server, HandlerStep, HandlerError, storeVars, agentVars,
                AuthToken, AuthAgent, HandleUpdate, HandleSnapshot,
                HandleUpsert, HandleReply, AuthStoreError, HandleUpdateError,
                HandleSnapshotError, HandleUpsertError, HandleReplyError,
                UpdateAgentHeartbeat, UpsertAgentPolicyState
  <1>5. CASE Link \/ Timeout \/ UNCHANGED vars
    BY <1>5 DEF Link, Timeout, BeatError, vars, agentVars, storeVars
  <1>6. CASE LocalFault
    BY <1>6 DEF LocalFault, AgentFault, WorkerFail, ApplyFailed,
                FailClosedFail, WipeListFail, WipeRemoveFail,
                WipeDoneNoMarker, storeVars
  <1>7. CASE Lifecycle
    BY <1>7 DEF Lifecycle, Shutdown, Exit, Crash, Restart, storeVars
  <1> QED BY <1>1, <1>2, <1>3, <1>4, <1>5, <1>6, <1>7 DEF Next

\* The principals directory is a replica of the ACL log that never goes back,
\* whatever interleaves, crashes or fails.
THEOREM SyncImplementsReplica == Spec => ImplementsReplica
  <1>1. OrderInv /\ [Next]_vars
          => [Replica!ReplicaNext]_<<version, aclAt, rendered, disk>>
    BY ReplicaStep
  <1> QED BY <1>1, ReplicaInitially, OrderInvariant, PTL
          DEF Spec, ImplementsReplica, Replica!ReplicaSpec,
              Replica!replicaVars

-----------------------------------------------------------------------------
(* An Agent that is never told to fail closed has one goroutine that       *)
(* renders, until a wipe ends the heartbeat loop for good. Its report then *)
(* describes the directory.                                                *)

\* The operator never sets fail_closed_after.
NoFailClosed == "failClosed" \notin OperatorOps

\* So no answer carries it and checkFailClosed never acts.
NeverClosing ==
    /\ failClosedAfter = FALSE
    /\ \A h \in Handlers : handler[h].fca = FALSE
    /\ client.fca = FALSE
    /\ hb.pc \notin {"fcList", "fcRemove"}

Quiet == hb.pc \in {"idle", "waiting"}

\* How far a rendering under way has got: the files written, then the files
\* that are not stale.
RenderedSoFar ==
    Quiet =>
      \A p \in worker.snap :
        /\ worker.pc = "write" =>
              \A u \in Wanted(p) \ worker.todo : disk[u] = p.principals[u]
        /\ worker.pc = "remove" =>
              \A u \in Users :
                 IF u \in worker.todo THEN p.principals[u] = {}
                                      ELSE disk[u] = p.principals[u]

DirInv == OrderInv /\ NeverClosing /\ RenderedSoFar /\ AppliedMeansOnDisk

LEMMA NeverClosingStep ==
    ASSUME NoFailClosed, TypeOK, NeverClosing, [Next]_vars
    PROVE  NeverClosing'
  <1>0. /\ handler \in [Handlers -> Requests]
        /\ client \in [fca : BOOLEAN, lastOK : BOOLEAN, overdue : BOOLEAN]
        /\ hb \in [pc : HbPC, todo : SUBSET Users]
    BY DEF TypeOK, HandlerTypeOK, AgentTypeOK
  <1>1. ASSUME NEW h \in Handlers, SendHeartbeat(h)
        PROVE  NeverClosing'
    BY <1>0, <1>1 DEF NeverClosing, SendHeartbeat, Beat, Arrive, Free,
                      storeVars
  <1>2. ASSUME NEW h \in Handlers, ReceiveAnswer(h)
        PROVE  NeverClosing'
    <2>1. failClosedAfter' = FALSE
      BY <1>2 DEF ReceiveAnswer, storeVars, NeverClosing
    <2>2. \A k \in Handlers : handler'[k].fca = FALSE
      BY <1>0, <1>2 DEF ReceiveAnswer, Release, Free, NeverClosing
    <2>3. client'.fca = FALSE
      BY <1>0, <1>2 DEF ReceiveAnswer, BeatOK, BeatUnauthorized, BeatGone,
                        BeatError, NeverClosing
    <2>4. hb'.pc \in {"idle", "done", "wipeList"}
      BY <1>0, <1>2 DEF ReceiveAnswer, BeatOK, BeatUnauthorized, BeatGone,
                        BeatError
    <2> QED BY <2>1, <2>2, <2>3, <2>4 DEF NeverClosing
  <1>3. ASSUME NEW h \in Handlers, Abandon(h)
        PROVE  NeverClosing'
    BY <1>0, <1>3 DEF NeverClosing, Abandon, Release, Free, storeVars,
                      agentVars, memory
  <1>4. ASSUME NEW h \in Handlers, Server(h)
        PROVE  NeverClosing'
    <2>1. UNCHANGED <<hb, client>>
      BY <1>4 DEF Server, agentVars, memory
    <2>2. failClosedAfter' = failClosedAfter
      BY <1>4 DEF Server, HandlerStep, HandlerError, storeVars,
                  AuthToken, AuthAgent, HandleUpdate, HandleSnapshot,
                  HandleUpsert, HandleReply, AuthStoreError,
                  HandleUpdateError, HandleSnapshotError, HandleUpsertError,
                  HandleReplyError, UpdateAgentHeartbeat,
                  UpsertAgentPolicyState
    <2>3. ASSUME NEW k \in Handlers
          PROVE  handler'[k].fca = FALSE
      <3>1. handler[k].fca = FALSE /\ failClosedAfter = FALSE
        BY DEF NeverClosing
      <3>2. CASE AuthToken(h) \/ AuthAgent(h) \/ HandleUpdate(h)
        BY <1>0, <3>1, <3>2 DEF AuthToken, AuthAgent, HandleUpdate, Goto,
                                Answer, Requests
      <3>3. CASE HandleSnapshot(h) \/ HandleUpsert(h) \/ HandleReply(h)
        BY <1>0, <3>1, <3>3 DEF HandleSnapshot, HandleUpsert, HandleReply,
                                Goto, Requests
      <3>4. CASE HandlerError(h)
        BY <1>0, <3>1, <3>4 DEF HandlerError, AuthStoreError,
              HandleUpdateError, HandleSnapshotError, HandleUpsertError,
              HandleReplyError, Goto, Answer, Requests
      <3> QED BY <1>4, <3>2, <3>3, <3>4 DEF Server, HandlerStep
    <2> QED BY <2>1, <2>2, <2>3 DEF NeverClosing
  <1>5. CASE Operator
    BY <1>5 DEF NeverClosing, NoFailClosed, Operator, CreateACL, DeleteACL,
                RevokeAgent, RevokeToken, SetAgentFailClosedAfter,
                agentRowVars, agentVars, memory
  <1>6. CASE Link \/ Timeout \/ UNCHANGED vars
    BY <1>0, <1>6 DEF NeverClosing, Link, Timeout, BeatError, vars,
                      agentVars, memory, storeVars
  <1>7. CASE Local
    <2>1. UNCHANGED <<failClosedAfter, handler>>
      BY <1>7 DEF Local, storeVars
    <2>2. CASE WorkerStep
      BY <2>1, <2>2 DEF NeverClosing, WorkerStep, WorkerTake, WorkerValidate,
                  WorkerInvalid, ApplyFailed, WorkerWrite, WorkerList,
                  WorkerRemove, WorkerDone
    <2>3. CASE FailClosedStep
      BY <2>3 DEF NeverClosing, FailClosedStep, FailClosedList,
                  FailClosedRemove, FailClosedDone
    <2>4. CASE WipeStep
      BY <1>0, <2>1, <2>4 DEF NeverClosing, WipeStep, WipeList, WipeRemove,
                              WipeDone
    <2>5. CASE Elapse \/ CheckFailClosed
      BY <2>5 DEF NeverClosing, Elapse, CheckFailClosed
    <2> QED BY <1>7, <2>2, <2>3, <2>4, <2>5 DEF Local
  <1>8. CASE LocalFault
    BY <1>0, <1>8 DEF NeverClosing, LocalFault, AgentFault, WorkerFail,
                  ApplyFailed, FailClosedFail, WipeListFail, WipeRemoveFail,
                  WipeDoneNoMarker, storeVars
  <1>9. CASE Lifecycle
    BY <1>0, <1>9 DEF NeverClosing, Lifecycle, Shutdown, Exit, Crash,
                  Restart, FreshMemory, NoHeartbeat, NoClient, memory,
                  storeVars
  <1> QED BY <1>1, <1>2, <1>3, <1>4, <1>5, <1>6, <1>7, <1>8, <1>9 DEF Next

\* A step of anything but the worker: it leaves the report, the rendering and
\* the directory alone, or loses the first two, or the loop is past heartbeats.
LEMMA OtherStep ==
    ASSUME TypeOK, NeverClosing, [Next]_vars, ~WorkerStep, ~WorkerFail
    PROVE  \/ /\ UNCHANGED <<worker, applied, disk>>
              /\ Quiet' => Quiet
           \/ worker' = NoRendering /\ applied' = NoApply
           \/ ~Quiet'
  <1>0. hb \in [pc : HbPC, todo : SUBSET Users]
    BY DEF TypeOK, AgentTypeOK
  <1>1. ASSUME NEW h \in Handlers, SendHeartbeat(h) \/ ReceiveAnswer(h)
        PROVE  UNCHANGED <<worker, applied, disk>> /\ Quiet
    BY <1>1 DEF SendHeartbeat, Beat, ReceiveAnswer, BeatOK, BeatUnauthorized,
                BeatGone, BeatError, Quiet
  <1>2. CASE \/ \E h \in Handlers : Abandon(h) \/ Server(h)
             \/ Operator \/ Link \/ UNCHANGED vars
    BY <1>2 DEF Abandon, Server, Operator, Link, vars, agentVars, memory,
                Quiet
  <1>3. CASE Timeout
    BY <1>3 DEF Timeout, BeatError, Quiet
  <1>4. CASE Local
    <2>1. CASE FailClosedStep
      BY <2>1 DEF NeverClosing, FailClosedStep, FailClosedList,
                  FailClosedRemove, FailClosedDone
    <2>2. CASE WipeStep
      BY <1>0, <2>2 DEF WipeStep, WipeList, WipeRemove, WipeDone, Quiet
    <2>3. CASE Elapse \/ CheckFailClosed
      BY <2>3 DEF Elapse, CheckFailClosed, NeverClosing
    <2> QED BY <1>4, <2>1, <2>2, <2>3 DEF Local
  <1>5. CASE LocalFault
    BY <1>0, <1>5 DEF LocalFault, AgentFault, FailClosedFail, WipeListFail,
                  WipeRemoveFail, WipeDoneNoMarker, NeverClosing, Quiet
  <1>6. CASE Lifecycle
    BY <1>0, <1>6 DEF Lifecycle, Shutdown, Exit, Crash, Restart, FreshMemory,
                      memory, Quiet
  <1> QED BY <1>1, <1>2, <1>3, <1>4, <1>5, <1>6 DEF Next

\* All the worker holds is one version of the ACL.
LEMMA WorkerTarget ==
    ASSUME OrderInv, NEW p \in worker.snap
    PROVE  /\ p.version = rendered
           /\ p.principals = Projection(aclAt[rendered])
           /\ p.principals \in [Users -> SUBSET Callers]
  <1>1. /\ p.version = rendered
        /\ p.principals = Projection(aclAt[rendered])
    BY DEF OrderInv, ChannelOrder, HistoryInv, NoTornPolicy, InTransit,
           Published
  <1>2. p \in Policies
    BY DEF OrderInv, HistoryInv, TypeOK, AgentTypeOK, Renderings
  <1>3. p.principals \in [Users -> SUBSET Callers]
    BY <1>2 DEF Policies, Files
  <1> QED BY <1>1, <1>3

\* A write brings the directory closer to the policy, a listing finds what is
\* left to remove, a remove takes it away.
LEMMA RenderingStep ==
    ASSUME DirInv, [Next]_vars
    PROVE  RenderedSoFar'
  <1>0. /\ OrderInv /\ TypeOK /\ NeverClosing /\ RenderedSoFar
        /\ worker \in Renderings
        /\ disk \in [Users -> SUBSET Callers]
    BY DEF DirInv, OrderInv, HistoryInv, TypeOK, AgentTypeOK, DiskTypeOK,
           Files
  <1>1. CASE \/ UNCHANGED <<worker, applied, disk>> /\ (Quiet' => Quiet)
             \/ worker' = NoRendering /\ applied' = NoApply
             \/ ~Quiet'
    BY <1>0, <1>1 DEF RenderedSoFar, NoRendering, Wanted
  <1>2. CASE WorkerFail
    BY <1>2 DEF WorkerFail, ApplyFailed, NoRendering, RenderedSoFar
  <1>3. CASE WorkerTake \/ WorkerInvalid \/ WorkerDone
    BY <1>3 DEF WorkerTake, BeginRender, WorkerInvalid, ApplyFailed,
                WorkerDone, NoRendering, RenderedSoFar
  <1>4. CASE WorkerValidate
    <2>1. PICK p \in worker.snap : worker' = Validated(worker, p)
      BY <1>4 DEF WorkerValidate
    <2>2. /\ worker'.pc = "write" /\ worker'.todo = Wanted(p)
          /\ worker'.snap = worker.snap
      BY <1>0, <2>1 DEF Validated, Renderings
    <2>3. \A q \in worker.snap : Wanted(q) = Wanted(p)
      BY <1>0, <2>1, WorkerTarget DEF Wanted
    <2> QED BY <2>2, <2>3 DEF RenderedSoFar
  <1>5. ASSUME NEW w \in Users, WorkerWrite(w)
        PROVE  RenderedSoFar'
    <2>1. PICK p \in worker.snap : disk' = [disk EXCEPT ![w] = p.principals[w]]
      BY <1>5 DEF WorkerWrite, WriteFile
    <2>2. /\ worker.pc = "write" /\ worker'.pc = "write"
          /\ worker'.todo = worker.todo \ {w}
          /\ worker'.snap = worker.snap
          /\ hb' = hb
      BY <1>0, <1>5 DEF WorkerWrite, Ticked, Renderings
    <2>3. ASSUME Quiet, NEW q \in worker.snap,
                 NEW u \in Wanted(q) \ worker'.todo
          PROVE  disk'[u] = q.principals[u]
      <3>1. u \in Users /\ q.principals = p.principals
        BY <1>0, <2>1, WorkerTarget DEF Wanted
      <3>2. CASE u = w
        BY <1>0, <2>1, <3>1, <3>2
      <3>3. CASE u # w
        <4>1. disk[u] = q.principals[u]
          BY <1>0, <2>2, <2>3, <3>3 DEF RenderedSoFar
        <4> QED BY <1>0, <2>1, <3>1, <3>3, <4>1
      <3> QED BY <3>2, <3>3
    <2> QED BY <2>2, <2>3 DEF RenderedSoFar, Quiet, Wanted
  <1>6. CASE WorkerList
    <2>1. PICK p \in worker.snap : worker' = Listed(worker, p)
      BY <1>6 DEF WorkerList
    <2>2. /\ worker.pc = "write" /\ worker'.pc = "remove"
          /\ worker.todo = {} /\ worker'.todo = Present \ Wanted(p)
          /\ worker'.snap = worker.snap
          /\ hb' = hb /\ disk' = disk
      BY <1>0, <1>6, <2>1 DEF WorkerList, Listed, Renderings
    <2>3. ASSUME Quiet, NEW q \in worker.snap, NEW u \in Users
          PROVE  IF u \in worker'.todo THEN q.principals[u] = {}
                                       ELSE disk'[u] = q.principals[u]
      <3>1. q.principals = p.principals
        BY <1>0, <2>1, WorkerTarget
      <3>2. CASE u \in Wanted(p)
        <4>1. u \in Wanted(q) \ worker.todo
          BY <2>2, <3>1, <3>2 DEF Wanted
        <4> QED BY <1>0, <2>2, <2>3, <3>2, <4>1 DEF RenderedSoFar
      <3>3. CASE u \notin Wanted(p)
        BY <2>2, <3>1, <3>3 DEF Wanted, Present
      <3> QED BY <3>2, <3>3
    <2> QED BY <2>2, <2>3 DEF RenderedSoFar, Quiet
  <1>7. ASSUME NEW w \in Users, WorkerRemove(w)
        PROVE  RenderedSoFar'
    <2>1. /\ disk' = [disk EXCEPT ![w] = {}]
          /\ w \in worker.todo
          /\ worker.pc = "remove" /\ worker'.pc = "remove"
          /\ worker'.todo = worker.todo \ {w}
          /\ worker'.snap = worker.snap
          /\ hb' = hb
      BY <1>0, <1>7 DEF WorkerRemove, RemoveFile, Ticked, Renderings
    <2>2. ASSUME Quiet, NEW q \in worker.snap, NEW u \in Users
          PROVE  IF u \in worker'.todo THEN q.principals[u] = {}
                                       ELSE disk'[u] = q.principals[u]
      <3>1. IF u \in worker.todo THEN q.principals[u] = {}
                                 ELSE disk[u] = q.principals[u]
        BY <1>0, <2>1, <2>2 DEF RenderedSoFar
      <3> QED BY <1>0, <2>1, <3>1
    <2> QED BY <2>1, <2>2 DEF RenderedSoFar, Quiet
  <1> QED BY <1>0, <1>1, <1>2, <1>3, <1>4, <1>5, <1>6, <1>7, OtherStep
          DEF WorkerStep

\* When the worker reports success, every file is as its policy has it.
LEMMA ReportStaysTrue ==
    ASSUME DirInv, [Next]_vars
    PROVE  AppliedMeansOnDisk'
  <1>0. /\ OrderInv /\ TypeOK /\ NeverClosing /\ RenderedSoFar
        /\ AppliedMeansOnDisk
        /\ worker \in Renderings
        /\ disk \in [Users -> SUBSET Callers]
        /\ applied \in [version : Nat, hash : Hashes,
                        status : {"", "ok", "failed"}]
        /\ rendered \in Nat /\ version \in Nat
        /\ applied.version <= rendered /\ rendered <= version
    BY DEF DirInv, OrderInv, ChannelOrder, HistoryInv, TypeOK, StoreTypeOK,
           AgentTypeOK, DiskTypeOK, Files
  <1>a. /\ aclAt'[applied.version] = aclAt[applied.version]
        /\ aclAt'[rendered] = aclAt[rendered]
    <2>1. /\ applied.version \in Nat /\ rendered \in Nat /\ version \in Nat
          /\ applied.version <= rendered /\ rendered <= version
      BY <1>0
    <2>2. applied.version \in 0..version /\ rendered \in 0..version
      BY <2>1
    <2> QED BY <1>0, <2>2, LogGrows
  <1>1. CASE UNCHANGED <<worker, applied, disk>> /\ (Quiet' => Quiet)
    BY <1>0, <1>a, <1>1 DEF AppliedMeansOnDisk, Quiet, Projection
  <1>2. CASE worker' = NoRendering /\ applied' = NoApply
    BY <1>2 DEF NoApply, AppliedMeansOnDisk
  <1>3. CASE ~Quiet'
    BY <1>3 DEF Quiet, AppliedMeansOnDisk
  <1>4. CASE WorkerFail \/ WorkerInvalid
    <2>1. applied'.status = "failed"
      BY <1>0, <1>4 DEF WorkerFail, WorkerInvalid, ApplyFailed
    <2> QED BY <2>1 DEF AppliedMeansOnDisk
  <1>5. CASE \/ WorkerTake \/ WorkerValidate \/ WorkerList
             \/ \E w \in Users : WorkerWrite(w) \/ WorkerRemove(w)
    <2>1. worker'.pc # "idle"
      <3>1. CASE WorkerTake
        BY <3>1 DEF WorkerTake, BeginRender
      <3>2. CASE WorkerValidate \/ WorkerList
        BY <1>0, <3>2 DEF WorkerValidate, Validated, WorkerList, Listed,
                          Renderings
      <3>3. ASSUME NEW w \in Users, WorkerWrite(w) \/ WorkerRemove(w)
            PROVE  worker'.pc # "idle"
        BY <1>0, <3>3 DEF WorkerWrite, WorkerRemove, Ticked, Renderings
      <3> QED BY <1>5, <3>1, <3>2, <3>3
    <2> QED BY <2>1 DEF AppliedMeansOnDisk
  <1>6. CASE WorkerDone
    <2>1. PICK p \in worker.snap :
             applied' = [version |-> p.version, hash |-> p.hash,
                         status |-> "ok"]
      BY <1>6 DEF WorkerDone
    <2>2. /\ worker.pc = "remove" /\ worker.todo = {}
          /\ hb' = hb /\ disk' = disk
      BY <1>6 DEF WorkerDone
    <2>3. /\ applied'.version = rendered
          /\ p.principals = Projection(aclAt[rendered])
          /\ p.principals \in [Users -> SUBSET Callers]
      BY <1>0, <2>1, WorkerTarget
    <2>4. ASSUME Quiet
          PROVE  disk = p.principals
      <3>1. \A u \in Users : disk[u] = p.principals[u]
        BY <1>0, <2>1, <2>2, <2>4 DEF RenderedSoFar
      <3>2. disk = [u \in Users |-> disk[u]]
        BY <1>0
      <3>3. p.principals = [u \in Users |-> p.principals[u]]
        BY <2>3
      <3> QED BY <3>1, <3>2, <3>3
    <2> QED BY <1>a, <2>2, <2>3, <2>4
            DEF AppliedMeansOnDisk, Quiet, Projection
  <1> QED BY <1>0, <1>1, <1>2, <1>3, <1>4, <1>5, <1>6, OtherStep
          DEF WorkerStep

\* Without fail-closed, a successful report is the truth: with no apply under
\* way, the directory holds exactly the ACL of the version reported.
THEOREM ReportIsTruth == NoFailClosed => (Spec => []AppliedMeansOnDisk)
  <1> SUFFICES ASSUME NoFailClosed PROVE Spec => []AppliedMeansOnDisk
    OBVIOUS
  <1>1. Init => DirInv
    <2> SUFFICES ASSUME Init PROVE DirInv
      OBVIOUS
    <2>1. NeverClosing
      BY DEF Init, StoreInit, HandlerInit, AgentInit, Free, NoClient,
             NoHeartbeat, NeverClosing
    <2>2. RenderedSoFar /\ AppliedMeansOnDisk
      BY DEF Init, AgentInit, NoRendering, NoApply, RenderedSoFar,
             AppliedMeansOnDisk
    <2> QED BY <2>1, <2>2, OrderInit DEF DirInv
  <1>2. DirInv /\ [Next]_vars => DirInv'
    <2> SUFFICES ASSUME DirInv, [Next]_vars PROVE DirInv'
      OBVIOUS
    <2>1. OrderInv'
      BY OrderStep DEF DirInv
    <2>2. NeverClosing'
      BY NeverClosingStep DEF DirInv, OrderInv, HistoryInv
    <2> QED BY <2>1, <2>2, RenderingStep, ReportStaysTrue DEF DirInv
  <1>3. DirInv => AppliedMeansOnDisk
    BY DEF DirInv
  <1> QED BY <1>1, <1>2, <1>3, PTL DEF Spec

=============================================================================
