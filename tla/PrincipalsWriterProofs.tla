---------------------- MODULE PrincipalsWriterProofs ----------------------
(***************************************************************************)
(* Theorems about PrincipalsWriter: its types, and that a success the      *)
(* Agent reports on Windows is one of the policy it names.                 *)
(*                                                                         *)
(* The argument. Versions move in one direction, from the Control plane    *)
(* to the queue, the spool, the writer's job (InOrder, NothingOlder). Once *)
(* there is evidence that a version was rendered - the writer is about to  *)
(* say so, the status file says so or the Agent reports it - nothing older *)
(* can reach the directory any more (EvidenceHolds), and anything newer    *)
(* only after the spool has stopped asking for that version. An old status *)
(* can therefore be taken for the answer to a new submission of the same   *)
(* version without harm. A removed Agent breaks the order, which is why    *)
(* nothing is said about a host that was installed over remains of one     *)
(* (inherited); an installation that finds none starts clean               *)
(* (InstallSound).                                                         *)
(***************************************************************************)
EXTENDS PrincipalsWriter, TLAPS

-----------------------------------------------------------------------------
(* The inductive invariant.                                                *)

\* Nothing of an Agent that was removed is left. Unlike InService this does
\* not ask for the marker, which an installation takes away before the rest.
Clean == ~revoked /\ ~inherited

\* The writer is applying a desired state.
Active == writer.pc \notin {"idle", "down"}

\* What the version v puts into the directory.
FilesOf(v) == Projection(Granted(v))

\* An Agent that does not run waits for nothing; only a wipe is submitted by
\* the heartbeat goroutine when the Agent does not fail closed; and while an
\* installation replaces a removed Agent nothing of it is under way.
AgentRests ==
    /\ agent = "down" => queue = {} /\ waits["worker"] = {} /\ waits["heartbeat"] = {}
    /\ waits["heartbeat"] \subseteq {Deprovision}
    /\ (revoked /\ install # "none") =>
          /\ queue = {} /\ waits["worker"] = {}
          /\ agent # "down" => applied.status # "ok"

\* Nothing is sent before something is published.
NothingBefore ==
    published = 0 => applied.hash = NoHash /\ queue = {} /\ waits["worker"] = {}

\* A spool file holds one desired state.
OneDesired == \A d, e \in spool : d = e

\* Versions come in the order queue, spool.
InOrder ==
    /\ \A p \in queue : p.version \in 1..published
    /\ \A d \in spool : ~d.deprovision /\ d.policy.version \in 1..published
    /\ \A d \in spool, p \in queue : d.policy.version <= p.version

\* Nothing older than v is on its way to the directory.
NothingOlder(v) ==
    /\ v <= published
    /\ \A p \in queue : v <= p.version
    /\ \A d \in spool : v <= d.policy.version
    /\ Active => \A d \in job : v <= d.policy.version

\* How far the rendering of version w has come.
Rendered(w) ==
    /\ writer.pc = "write" =>
          \A u \in Users : (FilesOf(w)[u] # {} /\ u \notin writer.todo) => disk[u] = FilesOf(w)[u]
    /\ writer.pc = "remove" =>
          \A u \in Users : IF u \in writer.todo THEN FilesOf(w)[u] = {}
                           ELSE disk[u] = FilesOf(w)[u]
    /\ writer.pc \in {"reportOk", "settle"} => disk = FilesOf(w)

\* The writer is applying version w.
Working(w) ==
    /\ job = {Desired(w)}
    /\ writer.snap = {Payload(w)}
    /\ NothingOlder(w)
    /\ Rendered(w)

\* What the writer works on is a published version.
WriterWorks == Active => \E w \in 1..published : Working(w)

\* A success of version v is or can be reported.
Evidence(v) ==
    \/ \E st \in answer : st.version = v /\ st.status = "ok"
    \/ /\ applied.version = v /\ applied.status = "ok"
       /\ agent = "down" => spool # {}
    \/ writer.pc \in {"reportOk", "settle"} /\ Desired(v) \in job

\* The version v can still reach the spool, or is there.
Live(v) == published = v \/ Payload(v) \in queue \/ Desired(v) \in spool

EvidenceHolds ==
    \A v \in 1..Len(History) :
        Evidence(v) => NothingOlder(v) /\ (Live(v) => disk = FilesOf(v))

\* Without fail-closed all of it holds on a clean host; the first parts hold
\* on any host, since they are what an installation starts from.
WriterInv ==
    /\ TypeOK
    /\ OneDesired
    /\ ~failClosed => /\ AgentRests
                      /\ NothingBefore
                      /\ Clean => InOrder /\ WriterWorks /\ EvidenceHolds
-----------------------------------------------------------------------------
(* Payloads and desired states.                                            *)

LEMMA GrantedIs ==
    ASSUME NEW v \in Versions
    PROVE  Granted(v) \in SUBSET Grants
<1>1. CASE v = 0
    BY <1>1 DEF Granted
<1>2. CASE v # 0
    BY <1>2, HistoryAssumption DEF Granted, Versions
<1> QED BY <1>1, <1>2

LEMMA FilesOfIs ==
    ASSUME NEW v \in Versions
    PROVE  FilesOf(v) \in Files
BY DEF FilesOf, Projection, Files

LEMMA PayloadIs ==
    ASSUME NEW v \in Versions
    PROVE  /\ Payload(v) \in Policies
           /\ Payload(v).version = v
           /\ Payload(v).hash \in Hashes
           /\ Payload(v).principals = FilesOf(v)
<1>1. v \in Nat
    BY HistoryAssumption DEF Versions
<1>2. Hash(Granted(v)) \in Hashes
    BY GrantedIs DEF Hashes
<1> QED BY <1>1, <1>2, FilesOfIs DEF Payload, Policies, FilesOf

LEMMA DesiredIs ==
    ASSUME NEW v \in Versions
    PROVE  /\ Desired(v) \in DesiredStates
           /\ Desired(v).policy = Payload(v)
           /\ Desired(v).deprovision = FALSE
           /\ [policy |-> Payload(v), deprovision |-> FALSE] = Desired(v)
BY DEF Desired, DesiredStates

LEMMA DesiredOnce ==
    ASSUME NEW v \in Versions, NEW w \in Versions, Desired(v) = Desired(w)
    PROVE  v = w
<1>1. Payload(v).version = Payload(w).version
    BY DesiredIs
<1> QED BY <1>1, PayloadIs

LEMMA DeprovisionIs ==
    /\ Deprovision \in DesiredStates
    /\ Deprovision.policy = Payload(0)
    /\ Deprovision.deprovision = TRUE
BY DEF Deprovision, DesiredStates

LEMMA DesiredCases ==
    ASSUME NEW d \in DesiredStates
    PROVE  /\ \E v \in Versions : d.policy = Payload(v)
           /\ d.policy \in Policies
           /\ d.policy.version \in Versions
           /\ d.policy.hash \in Hashes
           /\ ~d.deprovision => d = Desired(d.policy.version)
<1>0. 0 \in Versions
    BY HistoryAssumption DEF Versions
<1>1. CASE d = Deprovision
    BY <1>0, <1>1, DeprovisionIs, PayloadIs
<1>2. ASSUME NEW v \in Versions, d = Desired(v) PROVE
           /\ \E w \in Versions : d.policy = Payload(w)
           /\ d.policy \in Policies
           /\ d.policy.version \in Versions
           /\ d.policy.hash \in Hashes
           /\ ~d.deprovision => d = Desired(d.policy.version)
    BY <1>2, DesiredIs, PayloadIs
<1> QED BY <1>1, <1>2 DEF DesiredStates

-----------------------------------------------------------------------------
(* Types.                                                                  *)

WriterStates ==
    [pc : RenderPC \cup {"down", "reportOk", "reportFailed", "settle"},
     snap : SUBSET Policies, todo : SUBSET Users]

\* The steps of applyDesiredStateBytes for the policy p.
RenderStep(p) ==
    \/ /\ writer.pc = "validate"
       /\ writer' = IF Invalid(p) THEN [writer EXCEPT !.pc = "reportFailed"]
                    ELSE Validated(writer, p)
       /\ UNCHANGED disk
    \/ \E u \in writer.todo :
          /\ writer.pc = "write"
          /\ WriteFile(u, p)
          /\ writer' = Ticked(writer, u)
    \/ /\ writer.pc = "write" /\ writer.todo = {}
       /\ writer' = Listed(writer, p)
       /\ UNCHANGED disk
    \/ \E u \in writer.todo :
          /\ writer.pc = "remove"
          /\ RemoveFile(u)
          /\ writer' = Ticked(writer, u)
    \/ /\ writer.pc = "remove" /\ writer.todo = {}
       /\ writer' = [writer EXCEPT !.pc = "reportOk"]
       /\ UNCHANGED disk

LEMMA TypeInit == Init => TypeOK
<1> SUFFICES ASSUME Init PROVE TypeOK
    OBVIOUS
<1>1. 0 \in Versions
    BY HistoryAssumption DEF Versions
<1>2. NoHash \in Hashes
    BY DEF Hashes, Hash
<1>3. disk \in Files
    BY DEF Init, DiskInit, NoFiles, Files
<1>4. applied \in [version : Versions, hash : Hashes, status : {"none", "ok", "failed"}]
    BY <1>1, <1>2 DEF Init, Unapplied
<1>5. waits \in [Submitters -> SUBSET DesiredStates]
    BY DEF Init
<1>6. writer \in WriterStates
    BY DEF WriterStates, Init, NoRendering, RenderPC
<1> QED BY <1>1, <1>3, <1>4, <1>5, <1>6 DEF Init, TypeOK, WriterStates

\* A submission leaves the waits and the spool typed.
LEMMA SubmitTypes ==
    ASSUME TypeOK, NEW s \in Submitters, NEW d \in DesiredStates,
           submitDesiredState(s, d)
    PROVE  waits' \in [Submitters -> SUBSET DesiredStates] /\ spool' \subseteq DesiredStates
BY DEF submitDesiredState, atomicWriteSpoolFile, TypeOK

LEMMA TypeStep == TypeOK /\ [Next]_vars => TypeOK'
<1> SUFFICES ASSUME TypeOK, [Next]_vars PROVE TypeOK'
    OBVIOUS
<1> USE DEF agentVars, writerVars, envVars, installVars
<1>f. Unapplied \in [version : Versions, hash : Hashes, status : {"none", "ok", "failed"}]
    BY HistoryAssumption DEF Versions, Unapplied, Hashes, Hash
<1>n. NoRendering \in WriterStates
    BY DEF WriterStates, NoRendering, RenderPC
<1>d. Down \in WriterStates
    BY <1>n DEF Down, WriterStates, NoRendering, RenderPC
<1>1. CASE ReceivePolicy
    BY <1>1, <1>f, <1>n, <1>d DEF ReceivePolicy, TypeOK, WriterStates, Fresh, Fails, Failed
<1>2. CASE doApplyPolicy
  <2>1. PICK p \in queue :
            /\ queue' = {}
            /\ IF Invalid(p) \/ ~access
               THEN Failed /\ UNCHANGED <<waits, spool>>
               ELSE /\ submitDesiredState("worker", [policy |-> p, deprovision |-> FALSE])
                    /\ UNCHANGED applied
    BY <1>2 DEF doApplyPolicy
  <2>2. CASE Failed /\ UNCHANGED <<waits, spool>>
    BY <1>2, <2>1, <2>2 DEF doApplyPolicy, TypeOK, Failed
  <2>3. CASE /\ submitDesiredState("worker", [policy |-> p, deprovision |-> FALSE])
             /\ UNCHANGED applied
    <3>1. [policy |-> p, deprovision |-> FALSE] \in DesiredStates
      <4>1. PICK v \in Versions : p = Payload(v)
        BY DEF TypeOK
      <4> QED BY <4>1, DesiredIs
    <3>2. waits' \in [Submitters -> SUBSET DesiredStates] /\ spool' \subseteq DesiredStates
      BY <2>3, <3>1, SubmitTypes DEF Submitters
    <3> QED BY <1>2, <2>1, <2>3, <3>2 DEF doApplyPolicy, TypeOK
  <2> QED BY <2>1, <2>2, <2>3
<1>3. CASE checkFailClosed
  <2>0. 0 \in Versions
    BY HistoryAssumption DEF Versions
  <2>1. Desired(0) \in DesiredStates
    BY <2>0, DesiredIs
  <2>2. waits' \in [Submitters -> SUBSET DesiredStates] /\ spool' \subseteq DesiredStates
    BY <1>3, <2>1, SubmitTypes DEF checkFailClosed, Submitters
  <2> QED BY <1>3, <2>2 DEF checkFailClosed, TypeOK
<1>4. CASE onRevoked
  <2>1. waits' \in [Submitters -> SUBSET DesiredStates] /\ spool' \subseteq DesiredStates
    BY <1>4, DeprovisionIs, SubmitTypes DEF onRevoked, Submitters, TypeOK
  <2> QED BY <1>4, <2>1 DEF onRevoked, TypeOK
<1>5. CASE AgentExit
    BY <1>5, <1>f, <1>n, <1>d DEF AgentExit, TypeOK, WriterStates, Fresh, Fails, Failed
<1>6. CASE AgentCrash
    BY <1>6, <1>f, <1>n, <1>d DEF AgentCrash, TypeOK, WriterStates, Fresh, Fails, Failed
<1>7. CASE AgentStart
    BY <1>7, <1>f, <1>n, <1>d DEF AgentStart, TypeOK, WriterStates, Fresh, Fails, Failed
<1>8. CASE tick
  <2>1. PICK d \in spool : writer' = BeginRender(d.policy)
    BY <1>8 DEF tick
  <2>2. d.policy \in Policies
    BY DesiredCases DEF TypeOK
  <2>3. writer' \in WriterStates
    BY <2>1, <2>2 DEF BeginRender, RenderPC, WriterStates
  <2> QED BY <1>8, <2>3 DEF tick, TypeOK, WriterStates
<1>9. CASE applyDesiredStateBytes
  <2>1. PICK p \in writer.snap : RenderStep(p)
    BY <1>9 DEF applyDesiredStateBytes, RenderStep
  <2>2. p \in Policies /\ p.principals \in Files /\ writer \in WriterStates /\ disk \in Files
    BY DEF TypeOK, WriterStates, Policies
  <2>3. writer' \in WriterStates
    BY <2>1, <2>2 DEF RenderStep, WriterStates, RenderPC, Validated, Listed, Ticked, Wanted, Present
  <2>4. disk' \in Files
    BY <2>1, <2>2 DEF RenderStep, WriteFile, RemoveFile, Files, WriterStates
  <2> QED BY <1>9, <2>3, <2>4 DEF applyDesiredStateBytes, TypeOK, WriterStates
<1>10. CASE writeApplied
  <2>1. ASSUME NEW d \in job
        PROVE  [version |-> d.policy.version, hash |-> d.policy.hash,
                status |-> IF writer.pc = "reportOk" THEN "ok" ELSE "failed"] \in Statuses
    BY DesiredCases DEF TypeOK, Statuses
  <2>2. answer' \subseteq Statuses
    BY <1>10, <2>1 DEF writeApplied, TypeOK
  <2>3. writer' \in WriterStates
    BY <1>10, <1>n DEF writeApplied, WriterStates, TypeOK
  <2> QED BY <1>10, <2>2, <2>3 DEF writeApplied, TypeOK, WriterStates
<1>11. CASE Settle
    BY <1>11, <1>f, <1>n, <1>d DEF Settle, TypeOK, WriterStates, Fresh, Fails, Failed
<1>12. CASE RenderFails
    BY <1>12, <1>f, <1>n, <1>d DEF RenderFails, TypeOK, WriterStates, Fresh, Fails, Failed
<1>13. CASE WriterCrash
    BY <1>13, <1>f, <1>n, <1>d DEF WriterCrash, TypeOK, WriterStates, Fresh, Fails, Failed
<1>14. CASE WriterStart
    BY <1>14, <1>f, <1>n, <1>d DEF WriterStart, TypeOK, WriterStates, Fresh, Fails, Failed
<1>15. CASE BeginInstall
    BY <1>15, <1>f, <1>n, <1>d DEF BeginInstall, TypeOK, WriterStates, Fresh, Fails, Failed
<1>16. CASE installPrincipalsWriterService
  <2>1. inherited' \in BOOLEAN /\ registered' \in BOOLEAN
    BY <1>16 DEF installPrincipalsWriterService, ClearSpoolDesiredState, TypeOK
  <2>2. writer' \in WriterStates /\ spool' \subseteq DesiredStates /\ lastDigest' \subseteq DesiredStates
    BY <1>16, <1>d DEF installPrincipalsWriterService, ClearSpoolDesiredState, TypeOK, WriterStates
  <2> QED BY <1>16, <2>1, <2>2 DEF installPrincipalsWriterService, TypeOK, WriterStates
<1>17. CASE createSpoolDirWithACL
    BY <1>17, <1>f, <1>n, <1>d DEF createSpoolDirWithACL, TypeOK, WriterStates, Fresh, Fails, Failed
<1>18. CASE startServiceWindows
    BY <1>18, <1>f, <1>n, <1>d DEF startServiceWindows, TypeOK, WriterStates, Fresh, Fails, Failed
<1>19. CASE startPrincipalsWriterService
    BY <1>19, <1>f, <1>n, <1>d DEF startPrincipalsWriterService, TypeOK, WriterStates, Fresh, Fails, Failed
<1>20. CASE Publish
  <2>1. published' \in Versions
    BY <1>20, HistoryAssumption DEF Publish, TypeOK, Versions
  <2> QED BY <1>20, <2>1 DEF Publish, TypeOK
<1>21. CASE Remove
    BY <1>21, <1>f, <1>n, <1>d DEF Remove, TypeOK, WriterStates, Fresh, Fails, Failed
<1>22. CASE Outage
    BY <1>22, <1>f, <1>n, <1>d DEF Outage, TypeOK, WriterStates, Fresh, Fails, Failed
<1>23. ASSUME NEW s \in Submitters, NEW d \in waits[s], NEW r \in {"ok", "failed"}, Waited(s, d, r)
      PROVE  TypeOK'
  <2>1. d \in DesiredStates
    BY DEF TypeOK
  <2>2. waits' \in [Submitters -> SUBSET DesiredStates]
    BY <1>23 DEF Waited, TypeOK
  <2>3. applied' \in [version : Versions, hash : Hashes, status : {"none", "ok", "failed"}]
    BY <1>23, <2>1, DesiredCases DEF Waited, Failed, TypeOK
  <2>4. agent' \in {"up", "cleanup", "ending", "down"}
    BY <1>23 DEF Waited, TypeOK
  <2> QED BY <1>23, <2>2, <2>3, <2>4 DEF Waited, TypeOK
<1>24. ASSUME NEW s \in Submitters, Poll(s) PROVE TypeOK'
    BY <1>23, <1>24 DEF Poll, readMatchingAppliedStatus, pollTimeout, Statuses, TypeOK
<1>25. CASE UNCHANGED vars
    BY <1>25 DEF vars, TypeOK
<1>26. CASE deprovisionCleanup
  <2>1. writer' \in WriterStates /\ lastDigest' \subseteq DesiredStates
    BY <1>26, <1>d DEF deprovisionCleanup, TypeOK, WriterStates
  <2>2. registered' \in BOOLEAN /\ cutShort' \in BOOLEAN
    BY <1>26 DEF deprovisionCleanup, TypeOK
  <2> QED BY <1>26, <2>1, <2>2 DEF deprovisionCleanup, TypeOK, WriterStates
<1>27. CASE writeMarker
    BY <1>27 DEF writeMarker, TypeOK
<1> QED BY <1>1, <1>2, <1>3, <1>4, <1>5, <1>6, <1>7, <1>8, <1>9, <1>10, <1>11, <1>12, <1>13, <1>14, <1>15, <1>16, <1>17, <1>18, <1>19, <1>20, <1>21, <1>22, <1>24, <1>25, <1>26, <1>27
        DEF Next, Agent, Writer, Installer

\* The types of the Windows path: queue, waits, spool and status hold only
\* payloads, desired states and statuses of versions of the ACL, whatever
\* fails and however often `agent install` runs over it.
THEOREM TypeCorrect == Spec => []TypeOK
BY TypeInit, TypeStep, PTL DEF Spec

-----------------------------------------------------------------------------
(* How the Agent rests, and what is sent.                                  *)

Rests == OneDesired /\ (~failClosed => AgentRests /\ NothingBefore)

LEMMA RestsInit == Init => Rests
BY DEF Init, Rests, OneDesired, AgentRests, NothingBefore, Unapplied, Submitters

LEMMA RestsStep == TypeOK /\ Rests /\ [Next]_vars => Rests'
<1> SUFFICES ASSUME TypeOK, Rests, [Next]_vars PROVE Rests'
    OBVIOUS
<1> USE DEF agentVars, writerVars, envVars, installVars, Rests
<1>1. CASE AgentExit
    BY <1>1 DEF AgentExit, OneDesired, AgentRests, NothingBefore, TypeOK, Fresh, Unapplied, Submitters
<1>2. CASE AgentCrash
    BY <1>2 DEF AgentCrash, OneDesired, AgentRests, NothingBefore, TypeOK, Fresh, Unapplied, Submitters
<1>3. CASE AgentStart
    BY <1>3 DEF AgentStart, OneDesired, AgentRests, NothingBefore, TypeOK, Fresh, Unapplied, Submitters
<1>4. CASE tick
    BY <1>4 DEF tick, OneDesired, AgentRests, NothingBefore, TypeOK, Fresh, Unapplied, Submitters
<1>5. CASE applyDesiredStateBytes
    BY <1>5 DEF applyDesiredStateBytes, OneDesired, AgentRests, NothingBefore, TypeOK, Fresh, Unapplied, Submitters
<1>6. CASE writeApplied
    BY <1>6 DEF writeApplied, OneDesired, AgentRests, NothingBefore, TypeOK, Fresh, Unapplied, Submitters
<1>7. CASE Settle
    BY <1>7 DEF Settle, OneDesired, AgentRests, NothingBefore, TypeOK, Fresh, Unapplied, Submitters
<1>8. CASE RenderFails
    BY <1>8 DEF RenderFails, OneDesired, AgentRests, NothingBefore, TypeOK, Fresh, Unapplied, Submitters
<1>9. CASE WriterCrash
    BY <1>9 DEF WriterCrash, OneDesired, AgentRests, NothingBefore, TypeOK, Fresh, Unapplied, Submitters
<1>10. CASE WriterStart
    BY <1>10 DEF WriterStart, OneDesired, AgentRests, NothingBefore, TypeOK, Fresh, Unapplied, Submitters
<1>11. CASE BeginInstall
    BY <1>11 DEF BeginInstall, OneDesired, AgentRests, NothingBefore, TypeOK, Fresh, Unapplied, Submitters
<1>12. CASE createSpoolDirWithACL
    BY <1>12 DEF createSpoolDirWithACL, OneDesired, AgentRests, NothingBefore, TypeOK, Fresh, Unapplied, Submitters
<1>13. CASE startServiceWindows
    BY <1>13 DEF startServiceWindows, OneDesired, AgentRests, NothingBefore, TypeOK, Fresh, Unapplied, Submitters
<1>14. CASE startPrincipalsWriterService
    BY <1>14 DEF startPrincipalsWriterService, OneDesired, AgentRests, NothingBefore, TypeOK, Fresh, Unapplied, Submitters
<1>15. CASE Remove
    BY <1>15 DEF Remove, OneDesired, AgentRests, NothingBefore, TypeOK, Fresh, Unapplied, Submitters
<1>16. CASE Outage
    BY <1>16 DEF Outage, OneDesired, AgentRests, NothingBefore, TypeOK, Fresh, Unapplied, Submitters
<1>17. CASE installPrincipalsWriterService
  <2>1. OneDesired'
    BY <1>17 DEF installPrincipalsWriterService, ClearSpoolDesiredState, OneDesired
  <2>2. ~revoked' /\ UNCHANGED <<agent, applied, queue, waits, published, failClosed>>
    BY <1>17 DEF installPrincipalsWriterService
  <2> QED BY <2>1, <2>2 DEF AgentRests, NothingBefore
<1>18. CASE checkFailClosed
  <2>1. failClosed' /\ OneDesired'
    BY <1>18 DEF checkFailClosed, submitDesiredState, atomicWriteSpoolFile, OneDesired
  <2> QED BY <2>1
<1>19. CASE ReceivePolicy
  <2>1. OneDesired'
    BY <1>19 DEF ReceivePolicy, OneDesired
  <2>2. ~failClosed => published # 0
    BY <1>19 DEF ReceivePolicy, NothingBefore, Granted, Hash
  <2> QED BY <1>19, <2>1, <2>2 DEF ReceivePolicy, AgentRests, NothingBefore
<1>20. CASE onRevoked
  <2>1. OneDesired'
    BY <1>20 DEF onRevoked, submitDesiredState, atomicWriteSpoolFile, OneDesired
  <2>2. waits' = waits \/ waits' = [waits EXCEPT !["heartbeat"] = {Deprovision}]
    BY <1>20 DEF onRevoked, submitDesiredState
  <2>3. waits'["worker"] = waits["worker"]
    BY <2>2 DEF TypeOK, Submitters
  <2>4. waits'["heartbeat"] \in {waits["heartbeat"], {Deprovision}}
    BY <2>2 DEF TypeOK, Submitters
  <2>5. /\ UNCHANGED <<applied, queue, envVars, install>>
        /\ agent # "down" /\ agent' # "down"
    BY <1>20 DEF onRevoked
  <2> QED BY <2>1, <2>3, <2>4, <2>5 DEF AgentRests, NothingBefore
<1>21. CASE doApplyPolicy
  <2>1. OneDesired'
    BY <1>21 DEF doApplyPolicy, submitDesiredState, atomicWriteSpoolFile, OneDesired
  <2>2. waits' = waits \/ (\E d : waits' = [waits EXCEPT !["worker"] = {d}])
    BY <1>21 DEF doApplyPolicy, submitDesiredState
  <2>3. waits'["heartbeat"] = waits["heartbeat"]
    BY <2>2 DEF TypeOK, Submitters
  <2>4. queue # {} /\ agent # "down" /\ UNCHANGED <<agent, envVars, install>>
    BY <1>21 DEF doApplyPolicy
  <2> QED BY <2>1, <2>3, <2>4 DEF AgentRests, NothingBefore
<1>22. CASE Publish
  <2>1. published' # 0
    BY <1>22 DEF Publish, TypeOK, Versions
  <2> QED BY <1>22, <2>1 DEF Publish, OneDesired, AgentRests, NothingBefore
<1>23. ASSUME NEW s \in Submitters, NEW d \in waits[s], NEW r, Waited(s, d, r)
      PROVE  Rests'
  <2>1. OneDesired'
    BY <1>23 DEF Waited, OneDesired
  <2>2. UNCHANGED <<queue, envVars, installVars>>
    BY <1>23 DEF Waited
  <2>3. waits' = [waits EXCEPT ![s] = {}]
    BY <1>23 DEF Waited
  <2>4. waits'["worker"] \in {waits["worker"], {}} /\ waits'["heartbeat"] \in {waits["heartbeat"], {}}
    BY <2>3 DEF TypeOK, Submitters
  <2>5. ~failClosed => (s = "worker" \/ d.deprovision)
    BY DeprovisionIs DEF AgentRests, Submitters
  <2>6. ~failClosed => applied' = applied \/ waits["worker"] # {}
    BY <1>23, <2>5 DEF Waited
  <2>7. agent' = agent \/ agent' = "cleanup"
    BY <1>23 DEF Waited
  <2>8. ~failClosed => agent # "down"
    BY DEF AgentRests, Submitters
  <2> QED BY <2>1, <2>2, <2>4, <2>6, <2>7, <2>8 DEF AgentRests, NothingBefore
<1>24. ASSUME NEW s \in Submitters, Poll(s) PROVE Rests'
    BY <1>23, <1>24 DEF Poll, readMatchingAppliedStatus, pollTimeout
<1>25. CASE UNCHANGED vars
    BY <1>25 DEF vars, OneDesired, AgentRests, NothingBefore
<1>26. CASE deprovisionCleanup \/ writeMarker
  <2>1. /\ UNCHANGED <<spool, applied, queue, waits, envVars, install>>
        /\ agent # "down" /\ agent' # "down"
    BY <1>26 DEF deprovisionCleanup, writeMarker
  <2> QED BY <2>1 DEF OneDesired, AgentRests, NothingBefore
<1> QED BY <1>1, <1>2, <1>3, <1>4, <1>5, <1>6, <1>7, <1>8, <1>9, <1>10, <1>11, <1>12, <1>13, <1>14, <1>15, <1>16, <1>17, <1>18, <1>19, <1>20, <1>21, <1>22, <1>24, <1>25, <1>26
        DEF Next, Agent, Writer, Installer

-----------------------------------------------------------------------------
(* Successes are of this policy.                                           *)

Sound == InOrder /\ WriterWorks /\ EvidenceHolds

LEMMA QueueIs ==
    ASSUME TypeOK, NEW p \in queue
    PROVE  p.version \in Versions /\ p = Payload(p.version)
<1>1. PICK v \in Versions : p = Payload(v)
    BY DEF TypeOK
<1> QED BY <1>1, PayloadIs

LEMMA VersionsAreNaturals ==
    ASSUME NEW v \in Versions
    PROVE  v \in Nat
BY HistoryAssumption DEF Versions

\* A step of anyone but the writer that adds no success and lets nothing
\* older in.
LEMMA OthersKeep ==
    ASSUME TypeOK, TypeOK', WriterWorks, EvidenceHolds,
           UNCHANGED <<writer, job, disk>>, published <= published',
           \A v \in Versions : NothingOlder(v) => NothingOlder(v)',
           \A v \in 1..Len(History) : Evidence(v)' => Evidence(v),
           \A v \in 1..Len(History) :
               (Evidence(v) /\ NothingOlder(v) /\ Live(v)') => Live(v)
    PROVE  WriterWorks' /\ EvidenceHolds'
<1>1. WriterWorks'
  <2>1. SUFFICES ASSUME Active' PROVE \E w \in 1..published' : Working(w)'
    BY DEF WriterWorks
  <2>2. PICK w \in 1..published : Working(w)
    BY <2>1 DEF Active, WriterWorks
  <2>3. w \in Versions /\ w \in 1..published'
    BY HistoryAssumption DEF TypeOK, Versions
  <2>4. NothingOlder(w)'
    BY <2>2, <2>3 DEF Working
  <2>5. Rendered(w)'
    BY <2>2 DEF Working, Rendered
  <2> QED BY <2>2, <2>3, <2>4, <2>5 DEF Working
<1>2. EvidenceHolds'
  <2>1. SUFFICES ASSUME NEW v \in 1..Len(History), Evidence(v)'
                 PROVE  NothingOlder(v)' /\ (Live(v)' => disk' = FilesOf(v))
    BY DEF EvidenceHolds
  <2>2. Evidence(v) /\ NothingOlder(v) /\ (Live(v) => disk = FilesOf(v))
    BY <2>1 DEF EvidenceHolds
  <2>3. v \in Versions
    BY HistoryAssumption DEF Versions
  <2> QED BY <2>2, <2>3
<1> QED BY <1>1, <1>2

LEMMA ReceiveSound ==
    ASSUME TypeOK, TypeOK', Rests, ~failClosed, Sound, ReceivePolicy
    PROVE  Sound'
<1> USE DEF agentVars, writerVars, envVars, installVars
<1>1. published \in 1..published /\ published \in Versions /\ published \in Nat
  <2>1. published # 0
    BY DEF ReceivePolicy, Rests, NothingBefore, Granted, Hash
  <2> QED BY <2>1, VersionsAreNaturals DEF TypeOK
<1>2. /\ queue' = {Payload(published)}
      /\ UNCHANGED <<published, spool, writer, job, disk, answer, applied, agent>>
    BY DEF ReceivePolicy
<1>3. Payload(published).version = published
    BY <1>1, PayloadIs
<1>4. InOrder'
    BY <1>1, <1>2, <1>3 DEF Sound, InOrder
<1>5. ASSUME NEW v \in Versions, NothingOlder(v) PROVE NothingOlder(v)'
    BY <1>2, <1>3, <1>5 DEF NothingOlder, Active
<1>6. ASSUME NEW v \in 1..Len(History), Evidence(v)' PROVE Evidence(v)
    BY <1>2, <1>6 DEF Evidence
<1>7. ASSUME NEW v \in 1..Len(History), Live(v)' PROVE Live(v)
  <2>1. v \in Versions
    BY HistoryAssumption DEF Versions
  <2>2. Payload(v) = Payload(published) => v = published
    BY <1>3, <2>1, PayloadIs
  <2> QED BY <1>2, <1>7, <2>2 DEF Live
<1>8. published <= published'
    BY <1>1, <1>2
<1>9. WriterWorks' /\ EvidenceHolds'
    BY <1>2, <1>5, <1>6, <1>7, <1>8, OthersKeep DEF Sound
<1> QED BY <1>4, <1>9 DEF Sound

LEMMA ApplySound ==
    ASSUME TypeOK, TypeOK', Rests, ~failClosed, Sound, doApplyPolicy
    PROVE  Sound'
<1> USE DEF agentVars, writerVars, envVars, installVars
<1>1. PICK p \in queue :
          /\ queue' = {}
          /\ IF Invalid(p) \/ ~access
             THEN Failed /\ UNCHANGED <<waits, spool>>
             ELSE /\ submitDesiredState("worker", [policy |-> p, deprovision |-> FALSE])
                  /\ UNCHANGED applied
    BY DEF doApplyPolicy
<1>2. UNCHANGED <<published, writer, job, disk, answer, agent>> /\ agent # "down"
    BY DEF doApplyPolicy
<1>3. p.version \in 1..published /\ p.version \in Versions /\ p = Payload(p.version)
    BY QueueIs DEF Sound, InOrder
<1>4. spool' = spool \/ spool' = {Desired(p.version)}
    BY <1>1, <1>3, DesiredIs DEF submitDesiredState, atomicWriteSpoolFile
<1>5. Desired(p.version).policy.version = p.version /\ ~Desired(p.version).deprovision
    BY <1>3, DesiredIs, PayloadIs
<1>6. InOrder'
    BY <1>1, <1>2, <1>3, <1>4, <1>5 DEF Sound, InOrder
<1>7. ASSUME NEW v \in Versions, NothingOlder(v) PROVE NothingOlder(v)'
    BY <1>1, <1>2, <1>4, <1>5, <1>7 DEF NothingOlder, Active
<1>8. ASSUME NEW v \in 1..Len(History), Evidence(v)' PROVE Evidence(v)
  <2>1. applied' = applied \/ applied'.status = "failed"
    BY <1>1 DEF Failed, TypeOK
  <2> QED BY <1>2, <1>8, <2>1 DEF Evidence
<1>9. ASSUME NEW v \in 1..Len(History), Live(v)' PROVE Live(v)
  <2>1. v \in Versions
    BY HistoryAssumption DEF Versions
  <2>2. Desired(v) = Desired(p.version) => v = p.version
    BY <1>5, <2>1, DesiredIs, PayloadIs
  <2> QED BY <1>1, <1>2, <1>3, <1>4, <1>9, <2>2 DEF Live
<1>10. published <= published'
    BY <1>2, VersionsAreNaturals DEF TypeOK
<1>11. WriterWorks' /\ EvidenceHolds'
    BY <1>2, <1>7, <1>8, <1>9, <1>10, OthersKeep DEF Sound
<1> QED BY <1>6, <1>11 DEF Sound

\* The Agent ends, restarts or is done waiting.
LEMMA AgentSound ==
    ASSUME TypeOK, TypeOK', Sound,
           UNCHANGED <<published, spool, writer, job, disk, answer>>,
           queue' \subseteq queue,
           \A v \in 1..Len(History) : Evidence(v)' => Evidence(v)
    PROVE  Sound'
<1>1. InOrder'
    BY DEF Sound, InOrder
<1>2. ASSUME NEW v \in Versions, NothingOlder(v) PROVE NothingOlder(v)'
    BY <1>2 DEF NothingOlder, Active
<1>3. ASSUME NEW v \in 1..Len(History), Live(v)' PROVE Live(v)
    BY <1>3 DEF Live
<1>4. published <= published'
    BY VersionsAreNaturals DEF TypeOK
<1>5. WriterWorks' /\ EvidenceHolds'
    BY <1>2, <1>3, <1>4, OthersKeep DEF Sound
<1> QED BY <1>1, <1>5 DEF Sound

LEMMA WaitedSound ==
    ASSUME TypeOK, TypeOK', Rests, ~failClosed, Sound, NEW s \in Submitters, Poll(s)
    PROVE  Sound'
<1> USE DEF agentVars, writerVars, envVars, installVars
<1>1. PICK d \in waits[s], r \in {"ok", "failed"} :
          /\ Waited(s, d, r)
          /\ r = "ok" => \E st \in answer : st.version = d.policy.version /\ st.status = "ok"
  <2>1. CASE readMatchingAppliedStatus(s)
    BY <2>1 DEF readMatchingAppliedStatus, matchesDesired, TypeOK, Statuses
  <2>2. CASE pollTimeout(s)
    BY <2>2 DEF pollTimeout
  <2> QED BY <2>1, <2>2 DEF Poll
<1>2. UNCHANGED <<published, queue, spool, writer, job, disk, answer>>
    BY <1>1 DEF Waited
<1>3. agent # "down"
    BY DEF Rests, AgentRests, Submitters
<1>4. \/ applied' = applied
      \/ applied'.status = "failed"
      \/ r = "ok" /\ applied'.version = d.policy.version
    BY <1>1 DEF Waited, Failed, TypeOK
<1>5. ASSUME NEW v \in 1..Len(History), Evidence(v)' PROVE Evidence(v)
    BY <1>1, <1>2, <1>3, <1>4, <1>5 DEF Evidence
<1> QED BY <1>2, <1>5, AgentSound

\* A step after which the writer does not work any longer.
LEMMA RestingWriterSound ==
    ASSUME TypeOK, TypeOK', Sound, ~Active',
           UNCHANGED <<published, queue, disk>>,
           spool' \subseteq spool,
           \A v \in 1..Len(History) : Evidence(v)' => Evidence(v)
    PROVE  Sound'
<1>1. InOrder'
    BY DEF Sound, InOrder
<1>2. WriterWorks'
    BY DEF WriterWorks
<1>3. EvidenceHolds'
  <2>1. SUFFICES ASSUME NEW v \in 1..Len(History), Evidence(v)'
                 PROVE  NothingOlder(v)' /\ (Live(v)' => disk' = FilesOf(v))
    BY DEF EvidenceHolds
  <2>2. Evidence(v) /\ NothingOlder(v) /\ (Live(v) => disk = FilesOf(v))
    BY <2>1 DEF Sound, EvidenceHolds
  <2>3. NothingOlder(v)'
    BY <2>2 DEF NothingOlder
  <2>4. Live(v)' => Live(v)
    BY DEF Live
  <2> QED BY <2>2, <2>3, <2>4
<1> QED BY <1>1, <1>2, <1>3 DEF Sound

LEMMA TickSound ==
    ASSUME TypeOK, TypeOK', Rests, Sound, tick
    PROVE  Sound'
<1> USE DEF agentVars, writerVars, envVars, installVars
<1>1. PICK d \in spool : writer' = BeginRender(d.policy)
    BY DEF tick
<1>2. /\ job' = spool
      /\ UNCHANGED <<published, queue, spool, applied, agent, answer, disk>>
    BY DEF tick
<1>3. spool = {d}
    BY DEF Rests, OneDesired
<1>4. PICK w \in Versions : w \in 1..published /\ d = Desired(w) /\ d.policy.version = w
  <2>1. d \in DesiredStates /\ ~d.deprovision /\ d.policy.version \in 1..published
    BY DEF TypeOK, Sound, InOrder
  <2> QED BY <2>1, DesiredCases
<1>5. writer'.pc = "validate" /\ writer'.snap = {Payload(w)}
    BY <1>1, <1>4, DesiredIs DEF BeginRender
<1>6. InOrder'
    BY <1>2 DEF Sound, InOrder
<1>7. ASSUME NEW v \in Versions, v <= published, \A p \in queue : v <= p.version, v <= w
      PROVE  NothingOlder(v)'
    BY <1>2, <1>3, <1>4, <1>7 DEF NothingOlder
<1>8. WriterWorks'
  <2>1. NothingOlder(w)'
    BY <1>3, <1>4, <1>7, VersionsAreNaturals DEF Sound, InOrder
  <2>2. Rendered(w)'
    BY <1>5 DEF Rendered
  <2> QED BY <1>2, <1>3, <1>4, <1>5, <2>1, <2>2 DEF WriterWorks, Working
<1>9. EvidenceHolds'
  <2>1. SUFFICES ASSUME NEW v \in 1..Len(History), Evidence(v)'
                 PROVE  NothingOlder(v)' /\ (Live(v)' => disk' = FilesOf(v))
    BY DEF EvidenceHolds
  <2>2. Evidence(v)
    BY <1>2, <1>5, <2>1 DEF Evidence
  <2>3. NothingOlder(v) /\ (Live(v) => disk = FilesOf(v))
    BY <2>2 DEF Sound, EvidenceHolds
  <2>4. v \in Versions
    BY HistoryAssumption DEF Versions
  <2>5. NothingOlder(v)'
    BY <1>3, <1>4, <1>7, <2>3, <2>4 DEF NothingOlder
  <2>6. Live(v)' => Live(v)
    BY <1>2 DEF Live
  <2> QED BY <1>2, <2>3, <2>5, <2>6
<1> QED BY <1>6, <1>8, <1>9 DEF Sound

\* A rendering step brings the directory closer to the version rendered, and
\* leaves it alone where it already holds it.
LEMMA RenderedStep ==
    ASSUME TypeOK, NEW w \in Versions, Rendered(w), RenderStep(Payload(w))
    PROVE  /\ Rendered(w)'
           /\ disk = FilesOf(w) => disk' = FilesOf(w)
           /\ writer'.pc \in {"reportFailed", "write", "remove", "reportOk"}
           /\ writer'.snap = writer.snap
           /\ Active
<1> DEFINE P == FilesOf(w)
<1>0. P \in Files /\ Payload(w).principals = P /\ disk \in Files
    BY FilesOfIs, PayloadIs DEF TypeOK
<1>w. writer \in WriterStates /\ writer.todo \subseteq Users
    BY DEF TypeOK, WriterStates
<1> HIDE DEF P
<1>1. CASE /\ writer.pc = "validate"
           /\ writer' = IF Invalid(Payload(w)) THEN [writer EXCEPT !.pc = "reportFailed"]
                        ELSE Validated(writer, Payload(w))
           /\ UNCHANGED disk
  <2>1. CASE writer' = [writer EXCEPT !.pc = "reportFailed"]
    BY <1>1, <1>w, <2>1 DEF Rendered, WriterStates, Active
  <2>2. CASE writer' = Validated(writer, Payload(w))
    <3>1. writer'.pc = "write" /\ writer'.snap = writer.snap
          /\ writer'.todo = {u \in Users : P[u] # {}}
      BY <1>0, <1>w, <2>2 DEF Validated, Wanted, WriterStates
    <3> QED BY <1>1, <3>1 DEF Rendered, Active, P
  <2> QED BY <1>1, <2>1, <2>2
<1>2. ASSUME NEW u \in writer.todo, writer.pc = "write", WriteFile(u, Payload(w)),
             writer' = Ticked(writer, u)
      PROVE  /\ Rendered(w)'
             /\ disk = FilesOf(w) => disk' = FilesOf(w)
             /\ writer'.pc = "write"
             /\ writer'.snap = writer.snap
  <2>1. disk' = [disk EXCEPT ![u] = P[u]]
    BY <1>0, <1>2 DEF WriteFile
  <2>2. writer'.pc = "write" /\ writer'.snap = writer.snap /\ writer'.todo = writer.todo \ {u}
    BY <1>2, <1>w DEF Ticked, WriterStates
  <2>3. ASSUME NEW x \in Users PROVE disk'[x] = IF x = u THEN P[x] ELSE disk[x]
    BY <1>0, <2>1 DEF Files
  <2>4. Rendered(w)'
    BY <1>2, <2>2, <2>3 DEF Rendered, P
  <2>5. disk = P => disk' = P
    BY <1>0, <2>1 DEF Files
  <2> QED BY <2>2, <2>4, <2>5 DEF P
<1>3. CASE /\ writer.pc = "write" /\ writer.todo = {}
           /\ writer' = Listed(writer, Payload(w))
           /\ UNCHANGED disk
  <2>1. writer'.pc = "remove" /\ writer'.snap = writer.snap
        /\ writer'.todo = {u \in Users : disk[u] # {}} \ {u \in Users : P[u] # {}}
    BY <1>0, <1>w, <1>3 DEF Listed, Wanted, Present, WriterStates
  <2> QED BY <1>3, <2>1 DEF Rendered, Active, P
<1>4. ASSUME NEW u \in writer.todo, writer.pc = "remove", RemoveFile(u),
             writer' = Ticked(writer, u)
      PROVE  /\ Rendered(w)'
             /\ disk = FilesOf(w) => disk' = FilesOf(w)
             /\ writer'.pc = "remove"
             /\ writer'.snap = writer.snap
  <2>1. disk' = [disk EXCEPT ![u] = {}]
    BY <1>4 DEF RemoveFile
  <2>2. writer'.pc = "remove" /\ writer'.snap = writer.snap /\ writer'.todo = writer.todo \ {u}
    BY <1>4, <1>w DEF Ticked, WriterStates
  <2>3. ASSUME NEW x \in Users PROVE disk'[x] = IF x = u THEN {} ELSE disk[x]
    BY <1>0, <2>1 DEF Files
  <2>4. P[u] = {} /\ u \in Users
    BY <1>4, <1>w DEF Rendered, P
  <2>5. Rendered(w)'
    BY <1>4, <2>2, <2>3, <2>4 DEF Rendered, P
  <2>6. disk = P => disk' = P
    BY <1>0, <2>1, <2>4 DEF Files
  <2> QED BY <2>2, <2>5, <2>6 DEF P
<1>5. CASE /\ writer.pc = "remove" /\ writer.todo = {}
           /\ writer' = [writer EXCEPT !.pc = "reportOk"]
           /\ UNCHANGED disk
  <2>1. writer'.pc = "reportOk" /\ writer'.snap = writer.snap
    BY <1>5, <1>w DEF WriterStates
  <2>2. \A u \in Users : disk[u] = P[u]
    BY <1>5 DEF Rendered, P
  <2>3. disk = P
    BY <1>0, <2>2 DEF Files
  <2> QED BY <1>5, <2>1, <2>3 DEF Rendered, Active, P
<1> QED BY <1>1, <1>2, <1>3, <1>4, <1>5 DEF RenderStep, Active

LEMMA RenderSound ==
    ASSUME TypeOK, TypeOK', Sound, applyDesiredStateBytes
    PROVE  Sound'
<1> USE DEF agentVars, writerVars, envVars, installVars
<1>1. PICK p \in writer.snap : RenderStep(p)
    BY DEF applyDesiredStateBytes, RenderStep
<1>2. UNCHANGED <<published, queue, spool, applied, agent, answer, job>>
    BY DEF applyDesiredStateBytes
<1>3. Active
    BY <1>1 DEF RenderStep, Active
<1>4. PICK w \in 1..published : Working(w)
    BY <1>3 DEF Sound, WriterWorks
<1>5. w \in Versions /\ p = Payload(w) /\ w \in Nat
    BY <1>4, HistoryAssumption DEF Working, TypeOK, Versions
<1>6. /\ Rendered(w)'
      /\ disk = FilesOf(w) => disk' = FilesOf(w)
      /\ writer'.pc \in {"reportFailed", "write", "remove", "reportOk"}
      /\ writer'.snap = writer.snap
    BY <1>1, <1>4, <1>5, RenderedStep DEF Working
<1>7. \A v \in Versions : NothingOlder(v) <=> NothingOlder(v)'
    BY <1>2, <1>3, <1>6 DEF NothingOlder, Active
<1>8. InOrder'
    BY <1>2 DEF Sound, InOrder
<1>9. WriterWorks'
    BY <1>2, <1>4, <1>5, <1>6, <1>7 DEF WriterWorks, Working
<1>10. EvidenceHolds'
  <2>1. SUFFICES ASSUME NEW v \in 1..Len(History), Evidence(v)'
                 PROVE  NothingOlder(v)' /\ (Live(v)' => disk' = FilesOf(v))
    BY DEF EvidenceHolds
  <2>2. v \in Versions /\ v \in Nat
    BY HistoryAssumption DEF Versions
  <2>3. Desired(v) \in job => v = w
    BY <1>4, <1>5, <2>2, DesiredOnce DEF Working
  <2>4. CASE Evidence(v)
    <3>1. NothingOlder(v) /\ (Live(v) => disk = FilesOf(v))
      BY <2>4 DEF Sound, EvidenceHolds
    <3>2. v <= w
      BY <1>3, <1>4, <1>5, <3>1, DesiredIs, PayloadIs DEF NothingOlder, Working
    <3>3. Live(v)' => Live(v)
      BY <1>2 DEF Live
    <3>4. ASSUME Live(v) PROVE w <= v
      BY <1>4, <2>2, <3>4, DesiredIs, PayloadIs DEF Live, Working, NothingOlder
    <3>5. ASSUME Live(v) PROVE v = w
      BY <1>5, <2>2, <3>2, <3>4, <3>5
    <3> QED BY <1>6, <1>7, <2>2, <3>1, <3>3, <3>5
  <2>5. CASE ~Evidence(v)
    <3>1. writer'.pc \in {"reportOk", "settle"} /\ v = w
      BY <1>2, <2>1, <2>3, <2>5 DEF Evidence
    <3> QED BY <1>4, <1>6, <1>7, <2>2, <3>1 DEF Rendered, Working
  <2> QED BY <2>4, <2>5
<1> QED BY <1>8, <1>9, <1>10 DEF Sound

\* The status is written or lost, the rendering given up, or settled: what is
\* left of the writer's work adds no success.
LEMMA ReportSound ==
    ASSUME TypeOK, TypeOK', Sound, Active,
           UNCHANGED <<published, queue, spool, applied, agent, job, disk>>,
           writer'.snap = writer.snap,
           \/ writer'.pc = "reportFailed"
           \/ writer.pc = "reportOk" /\ writer'.pc = "settle",
           \A v \in 1..Len(History) : Evidence(v)' => Evidence(v)
    PROVE  Sound'
<1>1. PICK w \in 1..published : Working(w)
    BY DEF Sound, WriterWorks
<1>2. w \in Versions
    BY HistoryAssumption DEF TypeOK, Versions
<1>3. \A v \in Versions : NothingOlder(v) <=> NothingOlder(v)'
    BY DEF NothingOlder, Active
<1>4. Rendered(w)'
    BY <1>1 DEF Working, Rendered
<1>5. WriterWorks'
    BY <1>1, <1>2, <1>3, <1>4 DEF WriterWorks, Working
<1>6. InOrder'
    BY DEF Sound, InOrder
<1>7. EvidenceHolds'
  <2>1. SUFFICES ASSUME NEW v \in 1..Len(History), Evidence(v)'
                 PROVE  NothingOlder(v)' /\ (Live(v)' => disk' = FilesOf(v))
    BY DEF EvidenceHolds
  <2>2. Evidence(v) /\ NothingOlder(v) /\ (Live(v) => disk = FilesOf(v))
    BY <2>1 DEF Sound, EvidenceHolds
  <2>3. v \in Versions
    BY HistoryAssumption DEF Versions
  <2>4. Live(v)' => Live(v)
    BY DEF Live
  <2> QED BY <1>3, <2>2, <2>3, <2>4
<1> QED BY <1>5, <1>6, <1>7 DEF Sound

LEMMA WriteAppliedSound ==
    ASSUME TypeOK, TypeOK', Sound, writeApplied
    PROVE  Sound'
<1> USE DEF agentVars, writerVars, envVars, installVars
<1>1. UNCHANGED <<published, queue, spool, applied, agent, job, disk>>
    BY DEF writeApplied
<1>2. Active /\ writer.pc \in {"reportOk", "reportFailed"}
    BY DEF writeApplied, Active
<1>3. PICK w \in 1..published : Working(w)
    BY <1>2 DEF Sound, WriterWorks
<1>4. w \in Versions /\ Desired(w).policy.version = w /\ job = {Desired(w)}
  <2>1. w \in Versions
    BY HistoryAssumption DEF TypeOK, Versions
  <2> QED BY <1>3, <2>1, DesiredIs, PayloadIs DEF Working
<1>5. answer' = answer \/
      \A st \in answer' : st.version = w /\ (st.status = "ok" => writer.pc = "reportOk")
  <2>1. ASSUME NEW st \in {[version |-> d.policy.version, hash |-> d.policy.hash,
                           status |-> IF writer.pc = "reportOk" THEN "ok" ELSE "failed"]
                            : d \in job}
        PROVE  st.version = w /\ (st.status = "ok" => writer.pc = "reportOk")
    BY <1>4, <2>1
  <2> QED BY <2>1 DEF writeApplied
<1>6. CASE writer.pc = "reportOk"
  <2>1. writer'.pc = "settle" /\ writer'.snap = writer.snap
    BY <1>6 DEF writeApplied, TypeOK
  <2>2. ASSUME NEW v \in 1..Len(History), Evidence(v)' PROVE Evidence(v)
    BY <1>1, <1>4, <1>5, <1>6, <2>2 DEF Evidence
  <2> QED BY <1>1, <1>2, <1>6, <2>1, <2>2, ReportSound
<1>7. CASE writer.pc = "reportFailed"
  <2>1. writer' = NoRendering
    BY <1>7 DEF writeApplied
  <2>2. writer'.pc = "idle"
    BY <2>1 DEF NoRendering
  <2>3. ASSUME NEW v \in 1..Len(History), Evidence(v)' PROVE Evidence(v)
    BY <1>1, <1>5, <1>7, <2>2, <2>3 DEF Evidence
  <2> QED BY <1>1, <2>2, <2>3, RestingWriterSound DEF Active
<1> QED BY <1>2, <1>6, <1>7

\* An installation over an Agent that was not removed keeps what holds; over
\* one that was, it starts clean only if no success is left.
LEMMA InstallSound ==
    ASSUME TypeOK, TypeOK', Rests, ~failClosed, Clean => Sound, Clean',
           installPrincipalsWriterService
    PROVE  Sound'
<1> USE DEF agentVars, writerVars, envVars, installVars
<1>1. UNCHANGED <<published, queue, applied, agent, waits, job, answer, disk>>
    BY DEF installPrincipalsWriterService
<1>2. CASE writer' = Down /\ ClearSpoolDesiredState
  <2>1. spool' \subseteq spool /\ writer'.pc = "down"
    BY <1>2 DEF ClearSpoolDesiredState, Down, NoRendering
  <2>2. ~inherited
    BY <1>2 DEF ClearSpoolDesiredState, Clean
  <2>3. CASE ~revoked
    <3>1. ASSUME NEW v \in 1..Len(History), Evidence(v)' PROVE Evidence(v)
      BY <1>1, <2>1, <3>1 DEF Evidence
    <3> QED BY <1>1, <2>1, <2>2, <2>3, <3>1, RestingWriterSound DEF Active, Clean
  <2>4. CASE revoked
    <3>1. spool' = {} /\ \A st \in answer : st.version = 0
      BY <1>2, <2>4 DEF ClearSpoolDesiredState, Clean
    <3>2. queue = {} /\ (agent # "down" => applied.status # "ok")
      BY <2>4 DEF installPrincipalsWriterService, Rests, AgentRests
    <3>3. ASSUME NEW v \in 1..Len(History) PROVE ~Evidence(v)'
      BY <1>1, <2>1, <3>1, <3>2 DEF Evidence
    <3>4. InOrder'
      BY <1>1, <3>1, <3>2 DEF InOrder
    <3> QED BY <2>1, <3>3, <3>4 DEF Sound, WriterWorks, Active, EvidenceHolds
  <2> QED BY <2>3, <2>4
<1>3. CASE inherited' = (inherited \/ revoked) /\ UNCHANGED <<writer, spool>>
  <2>1. Clean
    BY <1>3 DEF Clean
  <2>2. ASSUME NEW v \in 1..Len(History), Evidence(v)' PROVE Evidence(v)
    BY <1>1, <1>3, <2>2 DEF Evidence
  <2> QED BY <1>1, <1>3, <2>1, <2>2, AgentSound
<1> QED BY <1>2, <1>3 DEF installPrincipalsWriterService

LEMMA PublishSound ==
    ASSUME TypeOK, TypeOK', Sound, Publish
    PROVE  Sound'
<1> USE DEF agentVars, writerVars, envVars, installVars
<1>1. published \in Nat /\ published' = published + 1
    BY VersionsAreNaturals DEF Publish, TypeOK
<1>2. UNCHANGED <<queue, spool, writer, job, disk, answer, applied, agent>>
    BY DEF Publish
<1>3. InOrder'
    BY <1>1, <1>2 DEF Sound, InOrder
<1>4. ASSUME NEW v \in Versions, NothingOlder(v) PROVE NothingOlder(v)'
  <2>1. v \in Nat
    BY VersionsAreNaturals
  <2> QED BY <1>1, <1>2, <1>4, <2>1 DEF NothingOlder, Active
<1>5. ASSUME NEW v \in 1..Len(History), Evidence(v)' PROVE Evidence(v)
    BY <1>2, <1>5 DEF Evidence
<1>6. ASSUME NEW v \in 1..Len(History), NothingOlder(v), Live(v)' PROVE Live(v)
    BY <1>1, <1>2, <1>6 DEF NothingOlder, Live
<1>7. published <= published'
    BY <1>1
<1>8. WriterWorks' /\ EvidenceHolds'
    BY <1>2, <1>4, <1>5, <1>6, <1>7, OthersKeep DEF Sound
<1> QED BY <1>3, <1>8 DEF Sound

LEMMA SoundStep ==
    ASSUME TypeOK, TypeOK', Rests, ~failClosed, Clean => Sound, Clean', [Next]_vars
    PROVE  Sound'
<1> USE DEF agentVars, writerVars, envVars, installVars
<1>i. CASE installPrincipalsWriterService
    BY <1>i, InstallSound
<1> SUFFICES ASSUME ~installPrincipalsWriterService PROVE Sound'
    BY <1>i
<1>c. Clean
  <2>1. CASE UNCHANGED <<revoked, inherited>>
    BY <2>1 DEF Clean
  <2>2. CASE Remove
    BY <2>2 DEF Remove, Clean
  <2>4. CASE startPrincipalsWriterService
    <3>1. revoked' = revoked /\ inherited' = (inherited \/ ~registered)
      BY <2>4 DEF startPrincipalsWriterService
    <3> QED BY <3>1 DEF Clean
  <2>3. ASSUME NEW s \in Submitters, Poll(s) PROVE UNCHANGED <<revoked, inherited>>
    BY <2>3 DEF Poll, readMatchingAppliedStatus, pollTimeout, Waited
  <2> QED BY <2>1, <2>2, <2>3, <2>4 DEF Next, vars, Agent, Writer, Installer, ReceivePolicy,
        doApplyPolicy, checkFailClosed, onRevoked, deprovisionCleanup, writeMarker,
        AgentExit, AgentCrash, AgentStart, tick, applyDesiredStateBytes, writeApplied,
        Settle, RenderFails, WriterCrash, WriterStart, BeginInstall,
        createSpoolDirWithACL, startServiceWindows, Publish, Outage
<1>s. Sound
    BY <1>c
<1>1. CASE ReceivePolicy
    BY <1>1, <1>s, ReceiveSound
<1>2. CASE doApplyPolicy
    BY <1>2, <1>s, ApplySound
<1>3. ~checkFailClosed /\ ~onRevoked /\ ~Remove
    BY <1>c DEF checkFailClosed, onRevoked, Remove, Clean
<1>4. CASE AgentExit
  <2>1. /\ UNCHANGED <<published, queue, spool, writer, job, disk, answer, applied>>
        /\ agent # "down"
    BY <1>4 DEF AgentExit
  <2>2. ASSUME NEW v \in 1..Len(History), Evidence(v)' PROVE Evidence(v)
    BY <2>1, <2>2 DEF Evidence
  <2> QED BY <1>s, <2>1, <2>2, AgentSound
<1>5. CASE AgentCrash \/ AgentStart \/ startServiceWindows
  <2>1. UNCHANGED <<published, spool, writer, job, disk, answer>> /\ Fresh
    BY <1>5 DEF AgentCrash, AgentStart, startServiceWindows
  <2>2. queue' \subseteq queue /\ applied'.status # "ok"
    BY <2>1 DEF Fresh, Unapplied
  <2>3. ASSUME NEW v \in 1..Len(History), Evidence(v)' PROVE Evidence(v)
    BY <2>1, <2>2, <2>3 DEF Evidence
  <2> QED BY <1>s, <2>1, <2>2, <2>3, AgentSound
<1>6. ASSUME NEW s \in Submitters, Poll(s) PROVE Sound'
    BY <1>6, <1>s, WaitedSound
<1>7. CASE tick
    BY <1>7, <1>s, TickSound
<1>8. CASE applyDesiredStateBytes
    BY <1>8, <1>s, RenderSound
<1>9. CASE writeApplied
    BY <1>9, <1>s, WriteAppliedSound
<1>10. CASE RenderFails
  <2>1. /\ UNCHANGED <<published, queue, spool, applied, agent, job, disk, answer>>
        /\ writer.pc \in {"write", "remove"}
        /\ writer' = [writer EXCEPT !.pc = "reportFailed"]
    BY <1>10 DEF RenderFails
  <2>2. writer'.pc = "reportFailed" /\ writer'.snap = writer.snap
    BY <2>1 DEF TypeOK
  <2>3. ASSUME NEW v \in 1..Len(History), Evidence(v)' PROVE Evidence(v)
    BY <2>1, <2>2, <2>3 DEF Evidence
  <2> QED BY <1>s, <2>1, <2>2, <2>3, ReportSound DEF Active
<1>11. CASE Settle \/ WriterCrash \/ WriterStart
  <2>1. /\ UNCHANGED <<published, queue, spool, applied, agent, disk, answer>>
        /\ writer' = Down \/ writer' = NoRendering
    BY <1>11 DEF Settle, WriterCrash, WriterStart
  <2>2. writer'.pc \in {"idle", "down"}
    BY <2>1 DEF Down, NoRendering
  <2>3. ASSUME NEW v \in 1..Len(History), Evidence(v)' PROVE Evidence(v)
    BY <2>1, <2>2, <2>3 DEF Evidence
  <2> QED BY <1>s, <2>1, <2>2, <2>3, RestingWriterSound DEF Active
<1>12. CASE startPrincipalsWriterService
  <2>1. /\ UNCHANGED <<published, queue, spool, applied, agent, disk, answer>>
        /\ writer' = Down \/ writer' = NoRendering
    BY <1>12 DEF startPrincipalsWriterService
  <2>2. writer'.pc \in {"idle", "down"}
    BY <2>1 DEF Down, NoRendering
  <2>3. ASSUME NEW v \in 1..Len(History), Evidence(v)' PROVE Evidence(v)
    BY <2>1, <2>2, <2>3 DEF Evidence
  <2> QED BY <1>s, <2>1, <2>2, <2>3, RestingWriterSound DEF Active
<1>13. CASE BeginInstall \/ createSpoolDirWithACL \/ Outage \/ UNCHANGED vars
  <2>1. UNCHANGED <<published, queue, spool, applied, agent, writer, job, disk, answer>>
    BY <1>13 DEF BeginInstall, createSpoolDirWithACL, Outage, vars
  <2>2. ASSUME NEW v \in 1..Len(History), Evidence(v)' PROVE Evidence(v)
    BY <2>1, <2>2 DEF Evidence
  <2> QED BY <1>s, <2>1, <2>2, AgentSound
<1>14. CASE Publish
    BY <1>14, <1>s, PublishSound
<1>15. CASE deprovisionCleanup \/ writeMarker
  <2>1. /\ UNCHANGED <<published, queue, spool, applied, job, disk, answer>>
        /\ agent # "down"
        /\ writer' = writer \/ writer' = Down
    BY <1>15 DEF deprovisionCleanup, writeMarker
  <2>2. writer' = Down => writer'.pc = "down"
    BY DEF Down, NoRendering
  <2>3. ASSUME NEW v \in 1..Len(History), Evidence(v)' PROVE Evidence(v)
    BY <2>1, <2>2, <2>3 DEF Evidence
  <2>4. CASE writer' = writer
    BY <1>s, <2>1, <2>3, <2>4, AgentSound
  <2>5. CASE writer' = Down
    BY <1>s, <2>1, <2>2, <2>3, <2>5, RestingWriterSound DEF Active
  <2> QED BY <2>1, <2>4, <2>5
<1> QED BY <1>1, <1>2, <1>3, <1>4, <1>5, <1>6, <1>7, <1>8, <1>9, <1>10, <1>11, <1>12,
           <1>13, <1>14, <1>15 DEF Next, Agent, Writer, Installer

-----------------------------------------------------------------------------
(* The theorem.                                                            *)

LEMMA WriterInit == Init => WriterInv
<1> SUFFICES ASSUME Init PROVE WriterInv
    OBVIOUS
<1>1. InOrder
    BY DEF Init, InOrder
<1>2. ~Active
    BY DEF Init, NoRendering, Active
<1>3. ASSUME NEW v PROVE ~Evidence(v)
    BY DEF Init, Evidence, Unapplied
<1>4. Sound
    BY <1>1, <1>2, <1>3 DEF Sound, WriterWorks, EvidenceHolds
<1> QED BY <1>4, TypeInit, RestsInit DEF WriterInv, Rests, Sound

LEMMA WriterStep == WriterInv /\ [Next]_vars => WriterInv'
<1> SUFFICES ASSUME WriterInv, [Next]_vars PROVE WriterInv'
    OBVIOUS
<1>1. TypeOK /\ Rests /\ ((~failClosed /\ Clean) => Sound)
    BY DEF WriterInv, Rests, Sound
<1>2. TypeOK' /\ Rests'
    BY <1>1, TypeStep, RestsStep
<1>3. failClosed' = failClosed
  <2>1. ASSUME NEW s \in Submitters, Poll(s) PROVE failClosed' = failClosed
    BY <2>1 DEF Poll, readMatchingAppliedStatus, pollTimeout, Waited, envVars
  <2> QED BY <2>1 DEF Next, vars, envVars, Agent, Writer, Installer, ReceivePolicy,
        doApplyPolicy, checkFailClosed, onRevoked, deprovisionCleanup, writeMarker,
        AgentExit, AgentCrash, AgentStart, tick, applyDesiredStateBytes, writeApplied, Settle, RenderFails, WriterCrash,
        WriterStart, BeginInstall, installPrincipalsWriterService,
        createSpoolDirWithACL, startServiceWindows, startPrincipalsWriterService,
        Publish, Remove, Outage
<1>4. (~failClosed /\ Clean') => Sound'
    BY <1>1, <1>2, SoundStep
<1> QED BY <1>2, <1>3, <1>4 DEF WriterInv, Rests, Sound

LEMMA WriterInvImplies == WriterInv => OkMeansOnDisk
<1> SUFFICES ASSUME WriterInv, ~failClosed, InService, applied.status = "ok",
                    spool = {Desired(applied.version)}
             PROVE  disk = Projection(Granted(applied.version))
    BY DEF OkMeansOnDisk
<1>1. InOrder /\ EvidenceHolds
    BY DEF WriterInv, InService, Clean
<1>2. applied.version \in Versions
    BY DEF WriterInv, TypeOK
<1>3. Desired(applied.version).policy.version = applied.version
    BY <1>2, DesiredIs, PayloadIs
<1>4. applied.version \in 1..published
    BY <1>1, <1>3 DEF InOrder
<1>5. applied.version \in 1..Len(History)
    BY <1>4, HistoryAssumption DEF WriterInv, TypeOK, Versions
<1>6. Evidence(applied.version) /\ Live(applied.version)
    BY DEF Evidence, Live
<1> QED BY <1>1, <1>5, <1>6 DEF EvidenceHolds, FilesOf

\* On Windows a success that an Agent in service reports is one of the policy
\* it names: however old the status file, however the two goroutines, the
\* writer, the crashes of both services and installations on top interleave,
\* while the spool still asks for that version the principals directory holds
\* exactly its grants. For every ACL history and any number of failures.
THEOREM SuccessIsOnDisk == Spec => []OkMeansOnDisk
<1>1. Init => WriterInv
    BY WriterInit
<1>2. WriterInv /\ [Next]_vars => WriterInv'
    BY WriterStep
<1>3. WriterInv => OkMeansOnDisk
    BY WriterInvImplies
<1> QED BY <1>1, <1>2, <1>3, PTL DEF Spec

=============================================================================
