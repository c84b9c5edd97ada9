---------------------- MODULE ScrapeOrchestratorProofs ----------------------
(***************************************************************************)
(* Proofs about ScrapeOrchestrator, for every number of sources, callers,  *)
(* task slots, jobs, faults and restarts: the types, the permit ledger,    *)
(* the exclusive run of a job, the finality of its outcome, the task that  *)
(* every job under way has, and the job board that the orchestrator        *)
(* implements.                                                             *)
(***************************************************************************)
EXTENDS ScrapeOrchestrator, FiniteSetTheorems, TLAPS

-----------------------------------------------------------------------------
(* What the helpers of the model leave in the variables they change.       *)

\* A new status leaves the table well typed.
LEMMA SetStatusType ==
  ASSUME job \in [JobIds -> Row], NEW j \in JobIds, NEW st \in JobStatus, SetStatus(j, st)
  PROVE  job' \in [JobIds -> Row]
BY DEF SetStatus, Row

\* So does a new row.
LEMMA InsertType ==
  ASSUME job \in [JobIds -> Row], NEW cmd \in {"discover", "download"}, NEW s \in Sources,
         Insert(cmd, s)
  PROVE  job' \in [JobIds -> Row]
BY DEF Insert, Row, JobStatus

\* So does the cancellation of the rows of a source.
LEMMA CancelRowsType ==
  ASSUME job \in [JobIds -> Row], NEW s \in Sources, CancelRows(s)
  PROVE  job' \in [JobIds -> Row]
BY DEF CancelRows, Row, JobStatus

\* So does the requeue of the stale rows.
LEMMA RequeueRowsType ==
  ASSUME job \in [JobIds -> Row], RequeueRows
  PROVE  job' \in [JobIds -> Row]
BY DEF RequeueRows, Row, JobStatus

\* A step of a task leaves the tasks well typed; it changes neither the job of a
\* task nor another task.
LEMMA GotoType ==
  ASSUME task \in [Tasks -> TaskState], NEW t \in Tasks, NEW pc \in TaskPC, Goto(t, pc)
  PROVE  /\ task' \in [Tasks -> TaskState]
         /\ \A u \in Tasks : JobOf(u)' = JobOf(u)
         /\ \A u \in Tasks : u # t => task'[u] = task[u]
         /\ task'[t].pc = pc
BY DEF Goto, TaskState, JobOf

\* A step of a call leaves the calls well typed.
LEMMA ContinueType ==
  ASSUME call \in [Callers -> CallState], NEW c \in Callers, NEW pc \in CallPC, Continue(c, pc)
  PROVE  call' \in [Callers -> CallState]
BY DEF Continue, CallState

\* The job of a live task is a row of the table.
JobsOfTasks == \A t \in Tasks : Live(t) => JobOf(t) \in JobIds

TypeInv == TypeOK /\ JobsOfTasks

\* A task that moves on keeps a job of the table.
LEMMA GotoKeepsJobs ==
  ASSUME TypeInv, NEW t \in Tasks, NEW pc \in TaskPC, Live(t), Goto(t, pc)
  PROVE  JobsOfTasks'
<1>1. task \in [Tasks -> TaskState]  BY DEF TypeInv, TypeOK
<1>2. \A u \in Tasks : JobOf(u)' = JobOf(u) /\ (Live(u)' => Live(u))
  BY <1>1, GotoType DEF Live
<1>3. JobIds' = JobIds  BY DEF JobIds
<1> QED  BY <1>2, <1>3 DEF TypeInv, JobsOfTasks

-----------------------------------------------------------------------------
(* Type correctness.                                                       *)

LEMMA TypeInit == Init => TypeInv
<1> SUFFICES ASSUME Init PROVE TypeInv  OBVIOUS
<1> USE ConstantsAssumption
<1>1. (CHOOSE s \in Sources : TRUE) \in Sources  OBVIOUS
<1>2. job \in [JobIds -> Row]  BY <1>1 DEF Init, Row, JobStatus
<1>3. task \in [Tasks -> TaskState]  BY DEF Init, TaskState, TaskPC, NoTask
<1>4. call \in [Callers -> CallState]
  BY <1>1 DEF Init, CallState, CallPC, NoCall, RequestStatus
<1>5. /\ source \in [Sources -> SourceStatus]
      /\ listed \in SUBSET Sources
      /\ request \in [Sources -> RequestStatus]
  BY DEF Init, SourceStatus, RequestStatus
<1>6. /\ permits \in Nat
      /\ loop \in LoopPC
      /\ surplus \in Nat
      /\ faults \in 0 .. MaxFaults
      /\ restarts \in 0 .. MaxRestarts
  BY DEF Init, LoopPC
<1>7. stop \in BOOLEAN  BY DEF Init
<1>8. TypeOK  BY <1>2, <1>3, <1>4, <1>5, <1>6, <1>7 DEF TypeOK
<1>9. JobsOfTasks  BY DEF Init, JobsOfTasks, Live, NoTask
<1> QED  BY <1>8, <1>9 DEF TypeInv

\* The steps of run_loop.
LEMMA TypeLoop ==
  ASSUME TypeInv, LoopStep \/ RecoverRaises \/ ClaimRaises
  PROVE  TypeInv'
<1> USE ConstantsAssumption DEF TypeInv, TypeOK, TablesUnchanged, NextTurn, LoopPC
<1>1. CASE Recover
  <2>1. job' \in [JobIds -> Row]  BY <1>1, RequeueRowsType DEF Recover
  <2> QED  BY <1>1, <2>1 DEF Recover, JobsOfTasks, Live, JobOf, JobIds
<1>2. CASE RecoverRaises  BY <1>2 DEF RecoverRaises, Fault, JobsOfTasks, Live, JobOf, JobIds
<1>3. CASE Acquire  BY <1>3 DEF Acquire, JobsOfTasks, Live, JobOf, JobIds
<1>4. CASE Claim
  <2>1. PICK j \in JobIds, t \in Tasks :
          /\ SetStatus(j, "claimed")
          /\ task' = [task EXCEPT ![t] = [pc |-> "start", job |-> j, discovered |-> FALSE]]
    BY <1>4 DEF Claim
  <2>2. job' \in [JobIds -> Row]  BY <2>1, SetStatusType DEF JobStatus
  <2>3. task' \in [Tasks -> TaskState]  BY <2>1 DEF TaskState, TaskPC
  <2>4. JobsOfTasks'  BY <2>1 DEF JobsOfTasks, Live, JobOf, JobIds
  <2> QED  BY <1>4, <2>2, <2>3, <2>4 DEF Claim
<1>5. CASE ClaimNothing  BY <1>5 DEF ClaimNothing, JobsOfTasks, Live, JobOf, JobIds
<1>6. CASE ClaimRaises  BY <1>6 DEF ClaimRaises, Fault, JobsOfTasks, Live, JobOf, JobIds
<1>7. CASE Wait  BY <1>7 DEF Wait, JobsOfTasks, Live, JobOf, JobIds
<1>8. CASE Drain  BY <1>8 DEF Drain, JobsOfTasks, Live, JobOf, JobIds
<1> QED  BY <1>1, <1>2, <1>3, <1>4, <1>5, <1>6, <1>7, <1>8 DEF LoopStep

\* The steps of a task.
LEMMA TypeTask ==
  ASSUME TypeInv, NEW t \in Tasks, TaskStep(t) \/ TaskRaises(t)
  PROVE  TypeInv'
<1> USE DEF TypeInv, TypeOK, TablesUnchanged, OutsideTasks
<1>1. Live(t) /\ JobOf(t) \in JobIds
  <2>1. Live(t)
    BY DEF TaskStep, TaskRaises, Start, Prepare, EmitDiscovered, ContainerExits, DiscoveredItems,
       DiscoveredSource, DiscoveredRequest, DiscoveredManual, AutoEnqueue, AutoSelected, AutoAcquire,
       MarkDone, MarkFailed, PropagateSource, PropagateRead, PropagateWrite, Release, At, Live,
       HandlerPC, PropagatePC
  <2> QED  BY <2>1 DEF JobsOfTasks
<1>2. SourceOf(t) \in Sources  BY <1>1 DEF SourceOf, Row
<1>3. ASSUME NEW pc \in TaskPC, Goto(t, pc)
      PROVE  task' \in [Tasks -> TaskState] /\ JobsOfTasks'
  BY <1>1, <1>3, GotoType, GotoKeepsJobs
<1>4. ASSUME NEW st \in JobStatus, SetStatus(JobOf(t), st)
      PROVE  job' \in [JobIds -> Row]
  BY <1>1, <1>4, SetStatusType
<1>5. CASE Start(t)  BY <1>3, <1>4, <1>5 DEF Start, TaskPC, JobStatus
<1>6. CASE Prepare(t)  BY <1>3, <1>6 DEF Prepare, TaskPC
<1>7. CASE EmitDiscovered(t)
  <2>1. task' \in [Tasks -> TaskState]  BY <1>7 DEF EmitDiscovered, TaskState, TaskPC
  <2>2. JobsOfTasks'  BY <1>7 DEF EmitDiscovered, JobsOfTasks, TaskState, JobOf, JobIds, Live, At
  <2> QED  BY <1>7, <2>1, <2>2 DEF EmitDiscovered
<1>8. CASE ContainerExits(t)  BY <1>3, <1>8 DEF ContainerExits, TaskPC
<1>9. CASE DiscoveredItems(t)  BY <1>2, <1>3, <1>9 DEF DiscoveredItems, TaskPC
<1>10. CASE DiscoveredSource(t)  BY <1>3, <1>10 DEF DiscoveredSource, TaskPC, SourceStatus
<1>11. CASE DiscoveredRequest(t)
  <2>1. PICK pc \in {"run", "d_select", "d_manual"} : Goto(t, pc)
    BY <1>11 DEF DiscoveredRequest
  <2> QED  BY <1>3, <1>11, <2>1 DEF DiscoveredRequest, TaskPC
<1>12. CASE DiscoveredManual(t)  BY <1>3, <1>12 DEF DiscoveredManual, TaskPC, RequestStatus
<1>13. CASE AutoEnqueue(t)
  <2>1. job' \in [JobIds -> Row]  BY <1>2, <1>13, InsertType DEF AutoEnqueue
  <2> QED  BY <1>13, <2>1 DEF AutoEnqueue, JobsOfTasks, Live, JobOf, JobIds
<1>14. CASE AutoSelected(t)  BY <1>3, <1>14 DEF AutoSelected, TaskPC
<1>15. CASE AutoAcquire(t)  BY <1>3, <1>15 DEF AutoAcquire, TaskPC, RequestStatus
<1>16. CASE MarkDone(t)  BY <1>3, <1>4, <1>16 DEF MarkDone, TaskPC, JobStatus
<1>17. CASE MarkFailed(t)
  <2>1. PICK pc \in {"p_source", "release"} : Goto(t, pc)  BY <1>17 DEF MarkFailed
  <2> QED  BY <1>3, <1>4, <1>17, <2>1 DEF MarkFailed, TaskPC, JobStatus
<1>18. CASE PropagateSource(t)  BY <1>3, <1>18 DEF PropagateSource, TaskPC, SourceStatus
<1>19. CASE PropagateRead(t)
  <2>1. PICK pc \in {"p_write", "release"} : Goto(t, pc)  BY <1>19 DEF PropagateRead
  <2> QED  BY <1>3, <1>19, <2>1 DEF PropagateRead, TaskPC
<1>20. CASE PropagateWrite(t)  BY <1>3, <1>20 DEF PropagateWrite, TaskPC, RequestStatus
<1>21. CASE Release(t)
  <2>1. task' \in [Tasks -> TaskState]  BY <1>21 DEF Release, TaskState, TaskPC, NoTask
  <2>2. JobsOfTasks'  BY <1>21 DEF Release, JobsOfTasks, NoTask, JobOf, JobIds, Live
  <2> QED  BY <1>21, <2>1, <2>2 DEF Release
<1>22. CASE TaskRaises(t)
  <2>1. PICK pc \in {"fail", "release"} : Goto(t, pc)  BY <1>22 DEF TaskRaises
  <2>2. faults' \in 0 .. MaxFaults
    BY <1>22, ConstantsAssumption DEF TaskRaises, Fault
  <2> QED  BY <1>3, <1>22, <2>1, <2>2 DEF TaskRaises, TaskPC
<1> QED
  BY <1>5, <1>6, <1>7, <1>8, <1>9, <1>10, <1>11, <1>12, <1>13, <1>14, <1>15, <1>16, <1>17, <1>18,
     <1>19, <1>20, <1>21, <1>22 DEF TaskStep

\* The steps of a call of the request layer.
CallAction(c) ==
  CallStep(c) \/ CallRaises(c)
    \/ \E s \in Sources : SubmitSource(c, s) \/ SelectRead(c, s) \/ CancelRead(c, s)

LEMMA TypeCall ==
  ASSUME TypeInv, NEW c \in Callers, CallAction(c)
  PROVE  TypeInv'
<1> USE DEF TypeInv, TypeOK, TablesUnchanged, OutsideCalls
<1>1. Target(c) \in Sources  BY DEF Target, CallState
<1>2. ASSUME NEW pc \in CallPC, Continue(c, pc)
      PROVE  call' \in [Callers -> CallState]
  BY <1>2, ContinueType
<1>3. ASSUME task' = task  PROVE JobsOfTasks'
  BY <1>3 DEF JobsOfTasks, Live, JobOf, JobIds
<1>4. CASE SubmitRequest(c)  BY <1>2, <1>3, <1>4 DEF SubmitRequest, CallPC, RequestStatus
<1>5. CASE SubmitJob(c)
  <2>1. job' \in [JobIds -> Row]  BY <1>1, <1>5, InsertType DEF SubmitJob
  <2> QED  BY <1>2, <1>3, <1>5, <2>1 DEF SubmitJob, CallPC
<1>6. CASE SelectEnqueue(c)
  <2>1. job' \in [JobIds -> Row]  BY <1>1, <1>6, InsertType DEF SelectEnqueue
  <2> QED  BY <1>3, <1>6, <2>1 DEF SelectEnqueue
<1>7. CASE SelectFinish(c)  BY <1>2, <1>3, <1>7 DEF SelectFinish, CallPC, RequestStatus
<1>8. CASE CancelJobs(c)
  <2>1. job' \in [JobIds -> Row]  BY <1>1, <1>8, CancelRowsType DEF CancelJobs
  <2> QED  BY <1>2, <1>3, <1>8, <2>1 DEF CancelJobs, CallPC
<1>9. CASE CancelStatus(c)  BY <1>2, <1>3, <1>9 DEF CancelStatus, CallPC, RequestStatus
<1>10. CASE CallRaises(c)
  <2>1. faults' \in 0 .. MaxFaults  BY <1>10, ConstantsAssumption DEF CallRaises, Fault
  <2> QED  BY <1>2, <1>3, <1>10, <2>1 DEF CallRaises, CallPC
<1>11. ASSUME NEW s \in Sources, SubmitSource(c, s) \/ SelectRead(c, s) \/ CancelRead(c, s)
       PROVE  TypeInv'
  <2>1. call' \in [Callers -> CallState]
    BY <1>11 DEF SubmitSource, SelectRead, CancelRead, CallState, CallPC
  <2> QED  BY <1>3, <1>11, <2>1 DEF SubmitSource, SelectRead, CancelRead, SourceStatus
<1> QED
  BY <1>4, <1>5, <1>6, <1>7, <1>8, <1>9, <1>10, <1>11 DEF CallAction, CallStep

\* The stop and the restart of the process.
LEMMA TypeProcess ==
  ASSUME TypeInv, Stop \/ Restart
  PROVE  TypeInv'
<1> USE DEF TypeInv, TypeOK, TablesUnchanged
<1>1. CASE Stop  BY <1>1 DEF Stop, JobsOfTasks, Live, JobOf, JobIds
<1>2. CASE Restart
  <2>1. task' \in [Tasks -> TaskState]  BY <1>2 DEF Restart, TaskState, TaskPC, NoTask
  <2>2. JobsOfTasks'  BY <1>2 DEF Restart, JobsOfTasks, NoTask, Live
  <2>3. call' \in [Callers -> CallState]
    BY <1>2, ConstantsAssumption DEF Restart, NoCall, CallState, CallPC, RequestStatus
  <2>4. permits' \in Nat /\ surplus' \in Nat /\ restarts' \in 0 .. MaxRestarts
    BY <1>2, ConstantsAssumption DEF Restart
  <2>5. loop' \in LoopPC /\ stop' \in BOOLEAN  BY <1>2 DEF Restart, LoopPC
  <2> QED  BY <1>2, <2>1, <2>2, <2>3, <2>4, <2>5 DEF Restart
<1> QED  BY <1>1, <1>2

LEMMA TypeStep == TypeInv /\ [Next]_vars => TypeInv'
<1> SUFFICES ASSUME TypeInv, [Next]_vars PROVE TypeInv'  OBVIOUS
<1>1. CASE LoopStep \/ RecoverRaises \/ ClaimRaises  BY <1>1, TypeLoop
<1>2. CASE \E t \in Tasks : TaskStep(t) \/ TaskRaises(t)  BY <1>2, TypeTask
<1>3. CASE \E c \in Callers : CallAction(c)  BY <1>3, TypeCall
<1>4. CASE Stop \/ Restart  BY <1>4, TypeProcess
<1>5. CASE UNCHANGED vars
  BY <1>5 DEF vars, TypeInv, TypeOK, JobsOfTasks, Live, JobOf, JobIds
<1> QED  BY <1>1, <1>2, <1>3, <1>4, <1>5 DEF Next, CallAction

LEMMA TypeInvariant == Spec => []TypeInv
<1> QED  BY TypeInit, TypeStep, PTL DEF Spec

\* Every variable keeps its type: no step of a task reads a row that is not in
\* the table, and no count leaves its range.
THEOREM TypeCorrect == Spec => []TypeOK
<1>1. TypeInv => TypeOK  BY DEF TypeInv
<1> QED  BY <1>1, TypeInvariant, PTL

-----------------------------------------------------------------------------
(* The permit ledger.                                                      *)

\* Only Claim and Release change the set of live tasks within a process.
LEMMA TaskStepLive ==
  ASSUME TypeInv, NEW t \in Tasks, TaskStep(t) \/ TaskRaises(t), ~Release(t)
  PROVE  Live(t) /\ LiveTasks' = LiveTasks
<1>1. task \in [Tasks -> TaskState]  BY DEF TypeInv, TypeOK
<1>2. ASSUME NEW pc \in TaskPC \ {"none"}, Goto(t, pc), Live(t)
      PROVE  LiveTasks' = LiveTasks
  BY <1>1, <1>2, GotoType DEF LiveTasks, Live
<1>3. Live(t)
  BY DEF TaskStep, TaskRaises, Start, Prepare, EmitDiscovered, ContainerExits, DiscoveredItems,
     DiscoveredSource, DiscoveredRequest, DiscoveredManual, AutoEnqueue, AutoSelected, AutoAcquire,
     MarkDone, MarkFailed, PropagateSource, PropagateRead, PropagateWrite, At, Live,
     HandlerPC, PropagatePC
<1>4. CASE EmitDiscovered(t)
  BY <1>1, <1>3, <1>4 DEF EmitDiscovered, LiveTasks, Live, TaskState
<1>5. CASE AutoEnqueue(t)  BY <1>3, <1>5 DEF AutoEnqueue, LiveTasks, Live
<1>6. CASE ~EmitDiscovered(t) /\ ~AutoEnqueue(t)
  <2>1. PICK pc \in TaskPC \ {"none"} : Goto(t, pc)
    BY <1>6 DEF TaskStep, TaskRaises, Start, Prepare, ContainerExits, DiscoveredItems,
       DiscoveredSource, DiscoveredRequest, DiscoveredManual, AutoSelected, AutoAcquire,
       MarkDone, MarkFailed, PropagateSource, PropagateRead, PropagateWrite, TaskPC
  <2> QED  BY <1>2, <1>3, <2>1
<1> QED  BY <1>3, <1>4, <1>5, <1>6

LEMMA LedgerStep == TypeInv /\ PermitLedger /\ [Next]_vars => PermitLedger'
<1> SUFFICES ASSUME TypeInv, PermitLedger, [Next]_vars PROVE PermitLedger'  OBVIOUS
<1> USE DEF PermitLedger
<1>1. permits \in Nat /\ surplus \in Nat /\ MaxConcurrent \in Nat
  BY ConstantsAssumption DEF TypeInv, TypeOK
<1>2. IsFiniteSet(LiveTasks) /\ Cardinality(LiveTasks) \in Nat
  BY ConstantsAssumption, FS_Subset, FS_CardinalityType DEF LiveTasks
<1>3. task \in [Tasks -> TaskState]  BY DEF TypeInv, TypeOK
<1>4. ASSUME task' = task  PROVE LiveTasks' = LiveTasks
  BY <1>4 DEF LiveTasks, Live
<1>5. CASE Claim
  <2>1. PICK t \in Tasks :
          /\ ~Live(t)
          /\ \E j \in JobIds :
               task' = [task EXCEPT ![t] = [pc |-> "start", job |-> j, discovered |-> FALSE]]
    BY <1>5 DEF Claim, Live
  <2>2. LiveTasks' = LiveTasks \cup {t} /\ t \notin LiveTasks
    BY <1>3, <2>1 DEF LiveTasks, Live
  <2>3. Cardinality(LiveTasks') = Cardinality(LiveTasks) + 1  BY <1>2, <2>2, FS_AddElement
  <2>4. Holding = 1 /\ Holding' = 0  BY <1>5 DEF Claim, Holding, NextTurn
  <2> QED  BY <1>1, <1>2, <1>5, <2>3, <2>4 DEF Claim
<1>6. CASE (LoopStep /\ ~Claim) \/ RecoverRaises \/ ClaimRaises
  <2>1. LiveTasks' = LiveTasks
    BY <1>4, <1>6 DEF LoopStep, Recover, Acquire, ClaimNothing, Wait, Drain, RecoverRaises, ClaimRaises
  <2> QED
    BY <1>1, <1>2, <1>6, <2>1 DEF LoopStep, Recover, Acquire, ClaimNothing, Wait, Drain,
       RecoverRaises, ClaimRaises, Holding, NextTurn
<1>7. ASSUME NEW t \in Tasks, Release(t)
      PROVE  PermitLedger'
  <2>1. t \in LiveTasks /\ LiveTasks' = LiveTasks \ {t}
    BY <1>3, <1>7 DEF Release, At, LiveTasks, Live, NoTask
  <2>2. Cardinality(LiveTasks') = Cardinality(LiveTasks) - 1  BY <1>2, <2>1, FS_RemoveElement
  <2> QED  BY <1>1, <1>2, <1>7, <2>2 DEF Release, Holding
<1>8. ASSUME NEW t \in Tasks, TaskStep(t) \/ TaskRaises(t), ~Release(t)
      PROVE  PermitLedger'
  <2>1. LiveTasks' = LiveTasks  BY <1>8, TaskStepLive
  <2>2. UNCHANGED <<permits, loop, surplus>>
    BY <1>8 DEF TaskStep, TaskRaises, Start, Prepare, EmitDiscovered, ContainerExits, DiscoveredItems,
       DiscoveredSource, DiscoveredRequest, DiscoveredManual, AutoEnqueue, AutoSelected, AutoAcquire,
       MarkDone, MarkFailed, PropagateSource, PropagateRead, PropagateWrite, OutsideTasks
  <2> QED  BY <2>1, <2>2 DEF Holding
<1>9. ASSUME NEW c \in Callers, CallAction(c)
      PROVE  PermitLedger'
  <2>1. UNCHANGED <<permits, loop, surplus, task>>
    BY <1>9 DEF CallAction, CallStep, CallRaises, SubmitSource, SubmitRequest, SubmitJob, SelectRead,
       SelectEnqueue, SelectFinish, CancelRead, CancelJobs, CancelStatus, OutsideCalls
  <2> QED  BY <1>4, <2>1 DEF Holding
<1>10. CASE Stop  BY <1>4, <1>10 DEF Stop, Holding
<1>11. CASE Restart
  <2>1. LiveTasks' = {}  BY <1>11 DEF Restart, LiveTasks, Live, NoTask
  <2> QED  BY <1>1, <1>11, <2>1, FS_EmptySet DEF Restart, Holding
<1>12. CASE UNCHANGED vars  BY <1>4, <1>12 DEF vars, Holding
<1> QED
  BY <1>5, <1>6, <1>7, <1>8, <1>9, <1>10, <1>11, <1>12 DEF Next, CallAction, LoopStep

\* The permits of the semaphore are never lost and only a failed claim forges
\* one, for any cap and any number of tasks, jobs, faults and restarts.
THEOREM LedgerHolds == Spec => []PermitLedger
<1>1. Init => PermitLedger
  <2> SUFFICES ASSUME Init PROVE PermitLedger  OBVIOUS
  <2>1. LiveTasks = {}  BY DEF Init, LiveTasks, Live, NoTask
  <2> QED  BY <2>1, FS_EmptySet, ConstantsAssumption DEF Init, PermitLedger, Holding
<1> QED  BY <1>1, LedgerStep, TypeInvariant, PTL DEF Spec

\* A corollary in the terms of the documentation: as long as no claim has raised
\* since the process started, the cap on running scrapers is respected.
THEOREM CapWithoutFailedClaim == Spec => [](surplus = 0 => CapRespected)
<1>1. TypeOK /\ PermitLedger => (surplus = 0 => CapRespected)
  <2> SUFFICES ASSUME TypeOK, PermitLedger, surplus = 0 PROVE CapRespected  OBVIOUS
  <2>1. Cardinality(LiveTasks) \in Nat
    BY ConstantsAssumption, FS_Subset, FS_CardinalityType DEF LiveTasks
  <2> QED  BY <2>1, ConstantsAssumption DEF TypeOK, PermitLedger, Holding, CapRespected
<1> QED  BY <1>1, LedgerHolds, TypeCorrect, PTL

-----------------------------------------------------------------------------
(* Exclusive runs and final outcomes.                                      *)

\* The status that the row of a task can have at each of its steps: only a
\* cancellation interferes, and only before mark_job_processing.
RowAt(pc) ==
  IF pc = "start" THEN {"claimed", "cancelled"}
  ELSE IF pc \in PropagatePC THEN {"failed"}
  ELSE IF pc = "release" THEN JobStatus \ {"absent", "pending"}
  ELSE {"processing"}

TaskRows == \A t \in Tasks : Live(t) => job[JobOf(t)].status \in RowAt(task[t].pc)

\* requeue_stale_jobs runs before the first task exists, so it never puts back
\* a row that a task works on.
NoTaskBeforeRecovery == loop = "recover" => LiveTasks = {}

RunInv == TypeInv /\ TaskRows /\ ExclusiveRun /\ NoTaskBeforeRecovery

\* What a step must do to the tasks and their rows to preserve RunInv: no task
\* appears, each keeps its job, and the row stays one its step allows.
LEMMA RunFrame ==
  ASSUME RunInv, TypeInv', loop' # "recover" \/ loop' = loop,
         \A t \in Tasks : Live(t)' => Live(t) /\ JobOf(t)' = JobOf(t)
                                     /\ job'[JobOf(t)].status \in RowAt(task'[t].pc)
  PROVE  RunInv'
<1>1. TaskRows'  BY DEF TaskRows
<1>2. ExclusiveRun'  BY DEF RunInv, ExclusiveRun
<1>3. NoTaskBeforeRecovery'  BY DEF RunInv, NoTaskBeforeRecovery, LiveTasks
<1> QED  BY <1>1, <1>2, <1>3 DEF RunInv

\* The rows after an insertion or a cancellation.
LEMMA InsertRows ==
  ASSUME RunInv, NEW cmd \in {"discover", "download"}, NEW s \in Sources, Insert(cmd, s)
  PROVE  /\ \A j \in JobIds : job[j].status # "absent" => job'[j] = job[j]
         /\ \A t \in Tasks : Live(t) => job'[JobOf(t)] = job[JobOf(t)]
<1>1. \A t \in Tasks : Live(t) => JobOf(t) \in JobIds /\ job[JobOf(t)].status # "absent"
  BY DEF RunInv, TypeInv, JobsOfTasks, TaskRows, RowAt, JobStatus
<1>2. \A j \in JobIds : job[j].status # "absent" => job'[j] = job[j]
  BY DEF Insert, RunInv, TypeInv, TypeOK
<1> QED  BY <1>1, <1>2

LEMMA RunLoop ==
  ASSUME RunInv, TypeInv', LoopStep \/ RecoverRaises \/ ClaimRaises
  PROVE  RunInv' /\ (\A j \in JobIds : job[j].status \in {"done", "failed"} => job'[j] = job[j])
<1>1. job \in [JobIds -> Row] /\ task \in [Tasks -> TaskState]
  BY DEF RunInv, TypeInv, TypeOK
<1>2. CASE Recover
  <2>1. LiveTasks = {} /\ task' = task
    BY <1>2 DEF Recover, RunInv, NoTaskBeforeRecovery
  <2>2. RunInv'
    BY <1>2, <2>1, RunFrame DEF Recover, NextTurn, LiveTasks, Live
  <2> QED  BY <1>2, <2>2 DEF Recover, RequeueRows, Active
<1>3. CASE Claim
  <2>1. PICK j \in JobIds, t \in Tasks :
          /\ IsNext(j)
          /\ ~Live(t)
          /\ SetStatus(j, "claimed")
          /\ task' = [task EXCEPT ![t] = [pc |-> "start", job |-> j, discovered |-> FALSE]]
    BY <1>3 DEF Claim, Live
  <2>2. \A u \in Tasks : Live(u) => JobOf(u) \in JobIds /\ JobOf(u) # j
    BY <2>1 DEF IsNext, RunInv, TypeInv, JobsOfTasks, TaskRows, RowAt, JobStatus
  <2>3. /\ JobOf(t)' = j /\ task'[t].pc = "start"
        /\ \A u \in Tasks : u # t => task'[u] = task[u] /\ JobOf(u)' = JobOf(u)
    BY <1>1, <2>1 DEF JobOf
  <2>4. job'[j].status = "claimed" /\ \A i \in JobIds : i # j => job'[i] = job[i]
    BY <1>1, <2>1 DEF SetStatus, Row
  <2>5. TaskRows'
    <3> SUFFICES ASSUME NEW u \in Tasks, Live(u)'
                 PROVE  job'[JobOf(u)'].status \in RowAt(task'[u].pc)
      BY DEF TaskRows
    <3>1. CASE u = t  BY <2>3, <2>4, <3>1 DEF RowAt
    <3>2. CASE u # t  BY <2>2, <2>3, <2>4, <3>2 DEF RunInv, TaskRows, Live
    <3> QED  BY <3>1, <3>2
  <2>6. ExclusiveRun'
    BY <2>2, <2>3 DEF RunInv, ExclusiveRun, Live
  <2>7. NoTaskBeforeRecovery'  BY <1>3 DEF Claim, NextTurn, NoTaskBeforeRecovery
  <2>8. \A i \in JobIds : job[i].status \in {"done", "failed"} => job'[i] = job[i]
    BY <2>1, <2>4 DEF IsNext
  <2> QED  BY <2>5, <2>6, <2>7, <2>8 DEF RunInv
<1>4. CASE (LoopStep /\ ~Recover /\ ~Claim) \/ RecoverRaises \/ ClaimRaises
  <2>1. job' = job /\ task' = task /\ loop' # "recover"
    BY <1>4 DEF LoopStep, Acquire, ClaimNothing, Wait, Drain, RecoverRaises, ClaimRaises, NextTurn,
       TablesUnchanged
  <2> QED  BY <2>1, RunFrame DEF RunInv, TaskRows, Live, JobOf
<1> QED  BY <1>2, <1>3, <1>4 DEF LoopStep

\* The outcomes of the table are left alone.
KeepsOutcomes == \A j \in JobIds : job[j].status \in {"done", "failed"} => job'[j] = job[j]

\* A task that moves on and writes at most its own row preserves RunInv when
\* its new step allows the status of that row.
LEMMA RunGoto ==
  ASSUME RunInv, TypeInv', loop' = loop, NEW t \in Tasks, Live(t), NEW pc \in TaskPC, Goto(t, pc),
         \A j \in JobIds : j # JobOf(t) => job'[j] = job[j],
         job'[JobOf(t)].status \in RowAt(pc)
  PROVE  RunInv'
<1>1. task \in [Tasks -> TaskState]  BY DEF RunInv, TypeInv, TypeOK
<1>2. \A u \in Tasks : u # t /\ Live(u) => JobOf(u) \in JobIds /\ JobOf(u) # JobOf(t)
  BY DEF RunInv, ExclusiveRun, TypeInv, JobsOfTasks
<1>3. /\ \A u \in Tasks : JobOf(u)' = JobOf(u)
      /\ \A u \in Tasks : u # t => task'[u] = task[u]
      /\ task'[t].pc = pc
  BY <1>1, GotoType
<1>4. ASSUME NEW u \in Tasks, Live(u)'
      PROVE  Live(u) /\ JobOf(u)' = JobOf(u) /\ job'[JobOf(u)].status \in RowAt(task'[u].pc)
  <2>1. CASE u = t  BY <1>3, <2>1
  <2>2. CASE u # t
    <3>1. Live(u)  BY <1>3, <1>4, <2>2 DEF Live
    <3>2. job'[JobOf(u)] = job[JobOf(u)]  BY <1>2, <2>2, <3>1
    <3> QED  BY <1>3, <2>2, <3>1, <3>2 DEF RunInv, TaskRows
  <2> QED  BY <2>1, <2>2
<1> QED  BY <1>4, RunFrame

LEMMA RunTask ==
  ASSUME RunInv, TypeInv', NEW t \in Tasks, TaskStep(t) \/ TaskRaises(t)
  PROVE  RunInv' /\ KeepsOutcomes
<1>1. job \in [JobIds -> Row] /\ task \in [Tasks -> TaskState] /\ (Live(t) => JobOf(t) \in JobIds)
  BY DEF RunInv, TypeInv, TypeOK, JobsOfTasks
<1>2. Live(t) => job[JobOf(t)].status \in RowAt(task[t].pc)  BY DEF RunInv, TaskRows
\* A step that leaves the table alone.
<1>3. ASSUME NEW pc \in TaskPC, Goto(t, pc), Live(t), job' = job, loop' = loop,
             job[JobOf(t)].status \in RowAt(pc)
      PROVE  RunInv' /\ KeepsOutcomes
  BY <1>3, RunGoto DEF KeepsOutcomes
\* A step that writes the row of the task.
<1>4. ASSUME NEW pc \in TaskPC, Goto(t, pc), Live(t), NEW st \in JobStatus, SetStatus(JobOf(t), st),
             loop' = loop, job[JobOf(t)].status \notin {"done", "failed"}, st \in RowAt(pc)
      PROVE  RunInv' /\ KeepsOutcomes
  <2>1. /\ job'[JobOf(t)].status = st
        /\ \A j \in JobIds : j # JobOf(t) => job'[j] = job[j]
    BY <1>1, <1>4 DEF SetStatus, Row
  <2>2. RunInv'  BY <1>4, <2>1, RunGoto
  <2>3. KeepsOutcomes  BY <1>4, <2>1 DEF KeepsOutcomes
  <2> QED  BY <2>2, <2>3
\* The steps inside the processing of a container keep the row "processing".
<1>5. CASE Prepare(t) \/ ContainerExits(t) \/ DiscoveredItems(t) \/ DiscoveredSource(t)
           \/ DiscoveredRequest(t) \/ DiscoveredManual(t) \/ AutoSelected(t) \/ AutoAcquire(t)
  <2>1. PICK pc \in {"run", "done", "fail"} \cup HandlerPC : Goto(t, pc)
    BY <1>5 DEF Prepare, ContainerExits, DiscoveredItems, DiscoveredSource, DiscoveredRequest,
       DiscoveredManual, AutoSelected, AutoAcquire, HandlerPC
  <2>2. Live(t) /\ job' = job /\ loop' = loop /\ RowAt(task[t].pc) = {"processing"}
    BY <1>5 DEF Prepare, ContainerExits, DiscoveredItems, DiscoveredSource, DiscoveredRequest,
       DiscoveredManual, AutoSelected, AutoAcquire, At, Live, RowAt, PropagatePC,
       OutsideTasks, TablesUnchanged
  <2>3. pc \in TaskPC /\ RowAt(pc) = {"processing"}  BY DEF RowAt, HandlerPC, PropagatePC, TaskPC
  <2> QED  BY <1>2, <1>3, <2>1, <2>2, <2>3
<1>6. CASE EmitDiscovered(t)
  <2>1. /\ Live(t) /\ job' = job /\ loop' = loop
        /\ RowAt(task[t].pc) = {"processing"} /\ RowAt("d_items") = {"processing"}
    BY <1>6 DEF EmitDiscovered, At, Live, RowAt, PropagatePC, OutsideTasks, TablesUnchanged
  <2>2. /\ \A u \in Tasks : JobOf(u)' = JobOf(u)
        /\ \A u \in Tasks : u # t => task'[u] = task[u]
        /\ task'[t].pc = "d_items"
    BY <1>1, <1>6 DEF EmitDiscovered, TaskState, JobOf
  <2>3. \A u \in Tasks : Live(u)' => Live(u) /\ JobOf(u)' = JobOf(u)
                                    /\ job'[JobOf(u)].status \in RowAt(task'[u].pc)
    <3> SUFFICES ASSUME NEW u \in Tasks, Live(u)'
                 PROVE  Live(u) /\ job[JobOf(u)].status \in RowAt(task'[u].pc)
      BY <2>1, <2>2
    <3>1. CASE u = t  BY <1>2, <2>1, <2>2, <3>1
    <3>2. CASE u # t  BY <2>2, <3>2 DEF Live, RunInv, TaskRows
    <3> QED  BY <3>1, <3>2
  <2> QED  BY <2>1, <2>3, RunFrame DEF KeepsOutcomes
<1>7. CASE AutoEnqueue(t)
  <2>1. PICK s \in Sources : Insert("download", s)
    BY <1>1, <1>7 DEF AutoEnqueue, SourceOf, Row, At, Live
  <2>2. task' = task /\ loop' = loop  BY <1>7 DEF AutoEnqueue, OutsideTasks
  <2>3. /\ \A j \in JobIds : job[j].status # "absent" => job'[j] = job[j]
        /\ \A u \in Tasks : Live(u) => job'[JobOf(u)] = job[JobOf(u)]
    BY <2>1, InsertRows
  <2>4. RunInv'  BY <2>2, <2>3, RunFrame DEF RunInv, TaskRows, Live, JobOf
  <2> QED  BY <2>3, <2>4 DEF KeepsOutcomes
<1>8. CASE Start(t)
  <2>1. Live(t) /\ RowAt(task[t].pc) = {"claimed", "cancelled"} /\ "processing" \in RowAt("prepare")
    BY <1>8 DEF Start, At, Live, RowAt, PropagatePC
  <2> QED  BY <1>2, <1>4, <1>8, <2>1 DEF Start, TaskPC, JobStatus, OutsideTasks
<1>9. CASE MarkDone(t)
  <2>1. Live(t) /\ RowAt(task[t].pc) = {"processing"} /\ "done" \in RowAt("release")
    BY <1>9 DEF MarkDone, At, Live, RowAt, PropagatePC, JobStatus
  <2> QED  BY <1>2, <1>4, <1>9, <2>1 DEF MarkDone, TaskPC, JobStatus, OutsideTasks
<1>10. CASE MarkFailed(t)
  <2>1. PICK pc \in {"p_source", "release"} : Goto(t, pc)  BY <1>10 DEF MarkFailed
  <2>2. Live(t) /\ RowAt(task[t].pc) = {"processing"} /\ "failed" \in RowAt(pc) /\ pc \in TaskPC
    BY <1>10 DEF MarkFailed, At, Live, RowAt, PropagatePC, JobStatus, TaskPC
  <2> QED  BY <1>2, <1>4, <1>10, <2>1, <2>2 DEF MarkFailed, JobStatus, OutsideTasks
<1>11. CASE PropagateSource(t) \/ PropagateRead(t) \/ PropagateWrite(t)
  <2>1. PICK pc \in {"p_read", "p_write", "release"} : Goto(t, pc)
    BY <1>11 DEF PropagateSource, PropagateRead, PropagateWrite
  <2>2. Live(t) /\ job' = job /\ loop' = loop /\ RowAt(task[t].pc) = {"failed"}
    BY <1>11 DEF PropagateSource, PropagateRead, PropagateWrite, At, Live, RowAt, PropagatePC,
       OutsideTasks, TablesUnchanged
  <2>3. pc \in TaskPC /\ "failed" \in RowAt(pc)  BY DEF RowAt, PropagatePC, JobStatus, TaskPC
  <2> QED  BY <1>2, <1>3, <2>1, <2>2, <2>3
<1>12. CASE TaskRaises(t)
  <2>1. job' = job /\ loop' = loop  BY <1>12 DEF TaskRaises, TablesUnchanged, OutsideTasks
  <2>2. CASE task[t].pc \in HandlerPC \cup {"run"} /\ Goto(t, "fail")
    <3>1. Live(t) /\ RowAt(task[t].pc) = RowAt("fail")
      BY <2>2 DEF Live, RowAt, HandlerPC, PropagatePC
    <3> QED  BY <1>2, <1>3, <2>1, <2>2, <3>1 DEF TaskPC
  <2>3. CASE task[t].pc \in PropagatePC \cup {"start", "prepare", "done", "fail"} /\ Goto(t, "release")
    <3>1. Live(t) /\ RowAt(task[t].pc) \subseteq RowAt("release")
      BY <2>3 DEF Live, RowAt, PropagatePC, JobStatus
    <3> QED  BY <1>2, <1>3, <2>1, <2>3, <3>1 DEF TaskPC
  <2> QED  BY <1>12, <2>2, <2>3 DEF TaskRaises
<1>13. CASE Release(t)
  <2>1. \A u \in Tasks : Live(u)' => u # t /\ task'[u] = task[u]
    BY <1>1, <1>13 DEF Release, Live, NoTask
  <2>2. job' = job /\ loop' = loop  BY <1>13 DEF Release, TablesUnchanged
  <2>3. RunInv'  BY <2>1, <2>2, RunFrame DEF RunInv, TaskRows, Live, JobOf
  <2> QED  BY <2>2, <2>3 DEF KeepsOutcomes
<1> QED
  BY <1>5, <1>6, <1>7, <1>8, <1>9, <1>10, <1>11, <1>12, <1>13 DEF TaskStep

LEMMA RunCall ==
  ASSUME RunInv, TypeInv', NEW c \in Callers, CallAction(c)
  PROVE  RunInv' /\ KeepsOutcomes
<1>1. job \in [JobIds -> Row] /\ Target(c) \in Sources
  BY DEF RunInv, TypeInv, TypeOK, Target, CallState
<1>2. task' = task /\ loop' = loop
  BY DEF CallAction, CallStep, CallRaises, SubmitSource, SubmitRequest, SubmitJob, SelectRead,
     SelectEnqueue, SelectFinish, CancelRead, CancelJobs, CancelStatus, OutsideCalls
<1>3. CASE SubmitJob(c) \/ SelectEnqueue(c)
  <2>1. PICK cmd \in {"discover", "download"} : Insert(cmd, Target(c))
    BY <1>3 DEF SubmitJob, SelectEnqueue
  <2>2. /\ \A j \in JobIds : job[j].status # "absent" => job'[j] = job[j]
        /\ \A t \in Tasks : Live(t) => job'[JobOf(t)] = job[JobOf(t)]
    BY <1>1, <2>1, InsertRows
  <2>3. RunInv'  BY <1>2, <2>2, RunFrame DEF RunInv, TaskRows, Live, JobOf
  <2> QED  BY <2>2, <2>3 DEF KeepsOutcomes
<1>4. CASE CancelJobs(c)
  <2>1. \A j \in JobIds :
          \/ job'[j].status = job[j].status
          \/ job[j].status \in {"pending", "claimed"} /\ job'[j].status = "cancelled"
    <3> SUFFICES ASSUME NEW j \in JobIds
                 PROVE  \/ job'[j].status = job[j].status
                        \/ job[j].status \in {"pending", "claimed"} /\ job'[j].status = "cancelled"
      OBVIOUS
    <3>1. job[j] \in Row /\ job'[j] \in {job[j], [job[j] EXCEPT !.status = "cancelled"]}
      BY <1>1, <1>4 DEF CancelJobs, CancelRows
    <3>2. job'[j] = job[j] \/ job[j].status \in {"pending", "claimed"}
      BY <1>4 DEF CancelJobs, CancelRows
    <3>3. [job[j] EXCEPT !.status = "cancelled"].status = "cancelled"  BY <3>1 DEF Row
    <3> QED  BY <3>1, <3>2, <3>3
  <2>2. KeepsOutcomes  BY <1>1, <1>4 DEF CancelJobs, CancelRows, KeepsOutcomes
  <2>3. \A t \in Tasks : Live(t) => job'[JobOf(t)].status \in RowAt(task[t].pc)
    <3> SUFFICES ASSUME NEW t \in Tasks, Live(t)
                 PROVE  job'[JobOf(t)].status \in RowAt(task[t].pc)
      OBVIOUS
    <3>1. JobOf(t) \in JobIds /\ job[JobOf(t)].status \in RowAt(task[t].pc)
      BY DEF RunInv, TypeInv, JobsOfTasks, TaskRows
    <3>2. \A pc : RowAt(pc) \cap {"pending", "claimed"} # {} => "cancelled" \in RowAt(pc)
      BY DEF RowAt, JobStatus
    <3> QED  BY <2>1, <3>1, <3>2
  <2>4. RunInv'  BY <1>2, <2>3, RunFrame DEF Live, JobOf
  <2> QED  BY <2>2, <2>4
<1>5. CASE job' = job
  <2>1. RunInv'  BY <1>2, <1>5, RunFrame DEF RunInv, TaskRows, Live, JobOf
  <2> QED  BY <1>5, <2>1 DEF KeepsOutcomes
<1>6. CASE ~SubmitJob(c) /\ ~SelectEnqueue(c) /\ ~CancelJobs(c)
  <2>1. job' = job
    BY <1>6 DEF CallAction, CallStep, CallRaises, SubmitSource, SubmitRequest, SelectRead,
       SelectFinish, CancelRead, CancelStatus, TablesUnchanged
  <2> QED  BY <1>5, <2>1
<1> QED  BY <1>3, <1>4, <1>6

LEMMA RunStep == RunInv /\ TypeInv' /\ [Next]_vars => RunInv' /\ KeepsOutcomes
<1> SUFFICES ASSUME RunInv, TypeInv', [Next]_vars PROVE RunInv' /\ KeepsOutcomes  OBVIOUS
<1>1. CASE LoopStep \/ RecoverRaises \/ ClaimRaises  BY <1>1, RunLoop DEF KeepsOutcomes
<1>2. CASE \E t \in Tasks : TaskStep(t) \/ TaskRaises(t)  BY <1>2, RunTask
<1>3. CASE \E c \in Callers : CallAction(c)  BY <1>3, RunCall
<1>4. CASE Stop
  <2>1. job' = job /\ task' = task /\ loop' = loop  BY <1>4 DEF Stop, TablesUnchanged
  <2> QED  BY <2>1, RunFrame DEF RunInv, TaskRows, Live, JobOf, KeepsOutcomes
<1>5. CASE Restart
  <2>1. \A t \in Tasks : ~Live(t)'  BY <1>5 DEF Restart, Live, NoTask
  <2> QED  BY <1>5, <2>1 DEF Restart, TablesUnchanged, RunInv, TaskRows, ExclusiveRun,
              NoTaskBeforeRecovery, LiveTasks, KeepsOutcomes
<1>6. CASE UNCHANGED vars
  BY <1>6, RunFrame DEF vars, RunInv, TaskRows, Live, JobOf, KeepsOutcomes
<1> QED  BY <1>1, <1>2, <1>3, <1>4, <1>5, <1>6 DEF Next, CallAction

LEMMA RunInvariant == Spec => []RunInv
<1>1. Init => RunInv
  <2> SUFFICES ASSUME Init PROVE RunInv  OBVIOUS
  <2>1. \A t \in Tasks : ~Live(t)  BY DEF Init, Live, NoTask
  <2> QED  BY <2>1, TypeInit DEF RunInv, TaskRows, ExclusiveRun, NoTaskBeforeRecovery, LiveTasks
<1>2. RunInv /\ [Next]_vars => RunInv'  BY TypeStep, RunStep DEF RunInv
<1> QED  BY <1>1, <1>2, PTL DEF Spec

\* No job is ever run by two tasks at once, although every write of a task to
\* its row is unconditional and a restart requeues what was running.
THEOREM RunsAreExclusive == Spec => []ExclusiveRun
<1>1. RunInv => ExclusiveRun  BY DEF RunInv
<1> QED  BY <1>1, RunInvariant, PTL

\* A job that is done or failed is never touched again.
THEOREM OutcomesAreFinal == Spec => OutcomeFinal
<1>1. RunInv /\ [Next]_vars
        => [\A j \in JobIds : job[j].status \in {"done", "failed"} => job'[j] = job[j]]_vars
  BY TypeStep, RunStep DEF RunInv, KeepsOutcomes
<1> QED  BY <1>1, RunInvariant, PTL DEF Spec, OutcomeFinal

-----------------------------------------------------------------------------
(* The orchestrator implements the job board, and a job under way always   *)
(* has a task working on it.  Both facts relate the rows of the table to   *)
(* the tasks in memory, so both follow from what each step does to the     *)
(* pair.                                                                   *)

\* Some task works on the job.
Served(j) == \E t \in Tasks : Working(t) /\ JobOf(t) = j

-----------------------------------------------------------------------------
(* What a step does to the rows and to the tasks that work on them.        *)

\* The task goes on, or ends the part of its code that no longer writes to its
\* row; the row keeps its status or becomes "processing".
GoesOn(t) ==
  /\ Working(t)' <=> Working(t)
  /\ job' = job \/ (Working(t) /\ SetStatus(JobOf(t), "processing"))

\* The task writes the outcome of its job.
Settles(t) ==
  /\ Working(t) /\ ~Working(t)'
  /\ SetStatus(JobOf(t), "done") \/ SetStatus(JobOf(t), "failed")

\* An exception takes the task out of its job, outcome unwritten.
Drops(t) ==
  /\ Working(t) /\ ~Working(t)'
  /\ job' = job
  /\ faults' = faults + 1

\* No step of a task disturbs another one or changes its own job while working.
Alone(t) ==
  /\ \A u \in Tasks : u # t => task'[u] = task[u]
  /\ Working(t)' => Working(t) /\ JobOf(t)' = JobOf(t)

\* A step of a task does one of these things, or inserts a row.
LEMMA TaskEffect ==
  ASSUME TypeInv, NEW t \in Tasks, TaskStep(t) \/ TaskRaises(t)
  PROVE  /\ Alone(t)
         /\ faults' = faults \/ faults' = faults + 1
         /\ \/ GoesOn(t) \/ Settles(t) \/ Drops(t)
            \/ task' = task /\ \E s \in Sources : Insert("download", s)
<1>1. task \in [Tasks -> TaskState] /\ job \in [JobIds -> Row]
  BY DEF TypeInv, TypeOK
<1>2. ASSUME NEW pc \in TaskPC, Goto(t, pc), pc \notin {"none", "release"} \cup PropagatePC => Working(t)
      PROVE  /\ Alone(t)
             /\ Working(t)' <=> pc \notin {"none", "release"} \cup PropagatePC
  BY <1>1, <1>2, GotoType DEF Alone, Working
<1>3. CASE Prepare(t) \/ ContainerExits(t) \/ DiscoveredItems(t) \/ DiscoveredSource(t)
           \/ DiscoveredRequest(t) \/ DiscoveredManual(t) \/ AutoSelected(t) \/ AutoAcquire(t)
  <2>1. PICK pc \in {"run", "done", "fail"} \cup HandlerPC : Goto(t, pc)
    BY <1>3 DEF Prepare, ContainerExits, DiscoveredItems, DiscoveredSource, DiscoveredRequest,
       DiscoveredManual, AutoSelected, AutoAcquire, HandlerPC
  <2>2. Working(t) /\ job' = job /\ faults' = faults
    BY <1>3 DEF Prepare, ContainerExits, DiscoveredItems, DiscoveredSource, DiscoveredRequest,
       DiscoveredManual, AutoSelected, AutoAcquire, At, Working, PropagatePC,
       OutsideTasks, TablesUnchanged
  <2>3. pc \in TaskPC /\ pc \notin {"none", "release"} \cup PropagatePC
    BY DEF HandlerPC, PropagatePC, TaskPC
  <2> QED  BY <1>2, <2>1, <2>2, <2>3 DEF GoesOn
<1>4. CASE EmitDiscovered(t)
  <2>1. Working(t) /\ job' = job /\ faults' = faults
    BY <1>4 DEF EmitDiscovered, At, Working, PropagatePC, TablesUnchanged
  <2>2. /\ \A u \in Tasks : u # t => task'[u] = task[u]
        /\ task'[t].pc = "d_items"
        /\ JobOf(t)' = JobOf(t)
    BY <1>1, <1>4 DEF EmitDiscovered, TaskState, JobOf
  <2> QED  BY <2>1, <2>2 DEF GoesOn, Alone, Working, PropagatePC
<1>5. CASE AutoEnqueue(t)
  <2>1. \E s \in Sources : Insert("download", s)
    BY <1>1, <1>5 DEF AutoEnqueue, SourceOf, Row, At, TypeInv, JobsOfTasks, Live
  <2>2. task' = task /\ faults' = faults  BY <1>5 DEF AutoEnqueue
  <2> QED  BY <2>1, <2>2 DEF Alone, Working, JobOf
<1>6. CASE Start(t)
  <2>1. Working(t)  BY <1>6 DEF Start, At, Working, PropagatePC
  <2> QED  BY <1>2, <1>6, <2>1 DEF Start, GoesOn, TaskPC, PropagatePC
<1>7. CASE MarkDone(t) \/ MarkFailed(t)
  <2>1. Working(t) /\ faults' = faults
    BY <1>7 DEF MarkDone, MarkFailed, At, Working, PropagatePC
  <2>2. PICK pc \in {"p_source", "release"} : Goto(t, pc)  BY <1>7 DEF MarkDone, MarkFailed
  <2>3. Alone(t) /\ ~Working(t)'  BY <1>2, <2>2 DEF TaskPC, PropagatePC
  <2> QED  BY <1>7, <2>1, <2>3 DEF MarkDone, MarkFailed, Settles
<1>8. CASE PropagateSource(t) \/ PropagateRead(t) \/ PropagateWrite(t)
  <2>1. PICK pc \in {"p_read", "p_write", "release"} : Goto(t, pc)
    BY <1>8 DEF PropagateSource, PropagateRead, PropagateWrite
  <2>2. ~Working(t) /\ job' = job /\ faults' = faults
    BY <1>8 DEF PropagateSource, PropagateRead, PropagateWrite, At, Working, PropagatePC,
       TablesUnchanged
  <2>3. Alone(t) /\ ~Working(t)'  BY <1>2, <2>1 DEF TaskPC, PropagatePC
  <2> QED  BY <2>2, <2>3 DEF GoesOn
<1>9. CASE Release(t)
  <2>1. task'[t].pc = "none" /\ \A u \in Tasks : u # t => task'[u] = task[u]
    BY <1>1, <1>9 DEF Release, NoTask
  <2>2. ~Working(t) /\ job' = job /\ faults' = faults
    BY <1>9 DEF Release, At, Working, TablesUnchanged
  <2> QED  BY <2>1, <2>2 DEF GoesOn, Alone, Working
<1>10. CASE TaskRaises(t)
  <2>1. job' = job /\ faults' = faults + 1  BY <1>10 DEF TaskRaises, Fault, TablesUnchanged
  <2>2. CASE task[t].pc \in HandlerPC \cup {"run"} /\ Goto(t, "fail")
    <3>1. Working(t)  BY <2>2 DEF Working, HandlerPC, PropagatePC
    <3> QED  BY <1>2, <2>1, <2>2, <3>1 DEF GoesOn, TaskPC, PropagatePC
  <2>3. CASE task[t].pc \in PropagatePC \cup {"start", "prepare", "done", "fail"} /\ Goto(t, "release")
    <3>1. Alone(t) /\ ~Working(t)'  BY <1>2, <2>3 DEF TaskPC
    <3> QED  BY <2>1, <3>1 DEF GoesOn, Drops
  <2> QED  BY <1>10, <2>2, <2>3 DEF TaskRaises
<1> QED
  BY <1>3, <1>4, <1>5, <1>6, <1>7, <1>8, <1>9, <1>10 DEF TaskStep

\* A call inserts a row, cancels the rows of a source, or leaves the table alone.
LEMMA CallEffect ==
  ASSUME TypeInv, NEW c \in Callers, CallAction(c)
  PROVE  /\ task' = task
         /\ loop' = loop
         /\ faults' = faults \/ faults' = faults + 1
         /\ \/ job' = job
            \/ \E cmd \in {"discover", "download"}, s \in Sources : Insert(cmd, s)
            \/ \E s \in Sources : CancelRows(s)
<1>1. Target(c) \in Sources  BY DEF TypeInv, TypeOK, Target, CallState
<1>2. /\ task' = task
      /\ loop' = loop
      /\ faults' = faults \/ faults' = faults + 1
  BY DEF CallAction, CallStep, CallRaises, SubmitSource, SubmitRequest, SubmitJob, SelectRead,
     SelectEnqueue, SelectFinish, CancelRead, CancelJobs, CancelStatus, OutsideCalls, Fault
<1>3. CASE SubmitJob(c) \/ SelectEnqueue(c)
  BY <1>1, <1>2, <1>3 DEF SubmitJob, SelectEnqueue
<1>4. CASE CancelJobs(c)  BY <1>1, <1>2, <1>4 DEF CancelJobs
<1>5. CASE ~SubmitJob(c) /\ ~SelectEnqueue(c) /\ ~CancelJobs(c)
  <2>1. job' = job
    BY <1>5 DEF CallAction, CallStep, CallRaises, SubmitSource, SubmitRequest, SelectRead,
       SelectFinish, CancelRead, CancelStatus, TablesUnchanged
  <2> QED  BY <1>2, <2>1
<1> QED  BY <1>3, <1>4, <1>5

\* The steps of the loop other than the claim and the requeue change no row and
\* no task.
LEMMA QuietLoop ==
  ASSUME LoopStep \/ RecoverRaises \/ ClaimRaises, ~Recover, ~Claim
  PROVE  /\ UNCHANGED <<job, task>>
         /\ \/ faults' = faults /\ loop # "recover"
            \/ faults' = faults + 1
BY DEF LoopStep, Acquire, ClaimNothing, Wait, Drain, RecoverRaises, ClaimRaises, TablesUnchanged, Fault

\* The claim takes a pending row, on which no task works, for a free slot.
LEMMA ClaimEffect ==
  ASSUME RunInv, Claim
  PROVE  \E j \in JobIds, t \in Tasks :
           /\ job[j].status = "pending" /\ ~Live(t)
           /\ job'[j].status = "claimed"
           /\ \A i \in JobIds : i # j => job'[i] = job[i]
           /\ Working(t)' /\ JobOf(t)' = j
           /\ \A u \in Tasks : u # t => task'[u] = task[u]
<1>1. PICK j \in JobIds, t \in Tasks :
        /\ IsNext(j)
        /\ task[t].pc = "none"
        /\ SetStatus(j, "claimed")
        /\ task' = [task EXCEPT ![t] = [pc |-> "start", job |-> j, discovered |-> FALSE]]
  BY DEF Claim
<1>2. job \in [JobIds -> Row] /\ task \in [Tasks -> TaskState]
  BY DEF RunInv, TypeInv, TypeOK
<1>3. job'[j].status = "claimed" /\ \A i \in JobIds : i # j => job'[i] = job[i]
  BY <1>1, <1>2 DEF SetStatus, Row
<1>4. task'[t].pc = "start" /\ task'[t].job = j /\ \A u \in Tasks : u # t => task'[u] = task[u]
  BY <1>1, <1>2
<1> QED  BY <1>1, <1>3, <1>4 DEF IsNext, Live, Working, JobOf, PropagatePC

\* A row that a task works on is neither pending nor absent nor settled.
LEMMA ServedRows ==
  ASSUME RunInv, NEW j \in JobIds, Served(j)
  PROVE  job[j].status \in {"claimed", "processing", "cancelled"}
BY DEF RunInv, TaskRows, RowAt, Served, Working, Live

\* What the move of one task does to the jobs that are worked on.
LEMMA AloneServes ==
  ASSUME RunInv, NEW t \in Tasks, Alone(t), Working(t)
  PROVE  \A j \in JobIds : Served(j)' <=> IF j = JobOf(t) THEN Working(t)' ELSE Served(j)
<1>1. \A u \in Tasks : u # t => (Working(u)' <=> Working(u)) /\ JobOf(u)' = JobOf(u)
  BY DEF Alone, Working, JobOf
<1>2. \A u \in Tasks : Working(u) /\ JobOf(u) = JobOf(t) => u = t
  BY DEF RunInv, ExclusiveRun, Working, Live
<1> QED  BY <1>1, <1>2 DEF Alone, Served

-----------------------------------------------------------------------------
(* No row is left under way without a task, as long as nothing raises.     *)

LEMMA NoOrphanStep == RunInv /\ NoOrphan /\ [Next]_vars => NoOrphan'
<1> SUFFICES ASSUME RunInv, NoOrphan, [Next]_vars, faults' = 0, loop' # "recover",
                    NEW j \in JobIds, job'[j].status \in Active
             PROVE  Served(j)'
  BY DEF NoOrphan, Served, JobIds
<1>1. job \in [JobIds -> Row] /\ faults \in Nat /\ 0 # 0 + 1
  BY ConstantsAssumption DEF RunInv, TypeInv, TypeOK
\* The steps that keep the tasks, and make no row active.
<1>2. ASSUME task' = task, faults = 0, loop # "recover", job[j].status \in Active
      PROVE  Served(j)'
  BY <1>2 DEF NoOrphan, Served, Working, JobOf
<1>3. ASSUME NEW cmd \in {"discover", "download"}, NEW s \in Sources, Insert(cmd, s)
      PROVE  job[j].status \in Active
  BY <1>1, <1>3 DEF Insert, Active, Row
<1>4. CASE Recover  BY <1>1, <1>4 DEF Recover, RequeueRows, Active, Row
<1>5. CASE Claim
  <2>1. PICK k \in JobIds, t \in Tasks :
          /\ job[k].status = "pending" /\ ~Live(t)
          /\ job'[k].status = "claimed"
          /\ \A i \in JobIds : i # k => job'[i] = job[i]
          /\ Working(t)' /\ JobOf(t)' = k
          /\ \A u \in Tasks : u # t => task'[u] = task[u]
    BY <1>5, ClaimEffect
  <2>2. CASE j = k  BY <2>1, <2>2 DEF Served
  <2>3. CASE j # k
    <3>1. faults = 0 /\ loop # "recover"  BY <1>5 DEF Claim
    <3>2. PICK u \in Tasks : Working(u) /\ JobOf(u) = j
      BY <2>1, <2>3, <3>1 DEF NoOrphan
    <3>3. u # t  BY <2>1, <3>2 DEF Working, Live
    <3> QED  BY <2>1, <3>2, <3>3 DEF Served, Working, JobOf
  <2> QED  BY <2>2, <2>3
<1>6. CASE (LoopStep \/ RecoverRaises \/ ClaimRaises) /\ ~Recover /\ ~Claim
  <2>1. /\ UNCHANGED <<job, task>>
        /\ \/ faults' = faults /\ loop # "recover"
           \/ faults' = faults + 1
    BY <1>6, QuietLoop
  <2> QED  BY <1>1, <1>2, <2>1
<1>7. ASSUME NEW t \in Tasks, TaskStep(t) \/ TaskRaises(t)
      PROVE  Served(j)'
  <2>1. /\ Alone(t)
        /\ faults' = faults \/ faults' = faults + 1
        /\ \/ GoesOn(t) \/ Settles(t) \/ Drops(t)
           \/ task' = task /\ \E s \in Sources : Insert("download", s)
    BY <1>7, TaskEffect DEF RunInv
  <2>2. faults = 0 /\ ~Drops(t)  BY <1>1, <2>1 DEF Drops
  <2>3. loop # "recover"
    BY <1>7 DEF TaskStep, TaskRaises, Start, Prepare, EmitDiscovered, ContainerExits,
       DiscoveredItems, DiscoveredSource, DiscoveredRequest, DiscoveredManual, AutoEnqueue,
       AutoSelected, AutoAcquire, MarkDone, MarkFailed, PropagateSource, PropagateRead,
       PropagateWrite, Release, OutsideTasks
  <2>4. CASE task' = task /\ \E s \in Sources : Insert("download", s)
    BY <1>2, <1>3, <2>2, <2>3, <2>4
  <2>5. CASE GoesOn(t)
    <3>1. CASE ~Working(t)
      <4>1. Served(j)  BY <2>2, <2>3, <2>5, <3>1 DEF NoOrphan, Served, GoesOn
      <4> QED  BY <2>1, <3>1, <4>1 DEF Served, Alone, Working, JobOf
    <3>2. CASE Working(t)
      <4>1. Served(j)' <=> IF j = JobOf(t) THEN Working(t)' ELSE Served(j)
        BY <2>1, <3>2, AloneServes
      <4>2. j # JobOf(t) => job'[j] = job[j]  BY <1>1, <2>5 DEF GoesOn, SetStatus
      <4> QED  BY <2>2, <2>3, <2>5, <3>2, <4>1, <4>2 DEF GoesOn, NoOrphan, Served
    <3> QED  BY <3>1, <3>2
  <2>6. CASE Settles(t)
    <3>1. Served(j)' <=> IF j = JobOf(t) THEN Working(t)' ELSE Served(j)
      BY <2>1, <2>6, AloneServes DEF Settles
    <3>2. IF j = JobOf(t) THEN job'[j].status \in {"done", "failed"} ELSE job'[j] = job[j]
      BY <1>1, <2>6 DEF Settles, SetStatus, Row
    <3> QED  BY <2>2, <2>3, <3>1, <3>2 DEF NoOrphan, Served, Active
  <2> QED  BY <2>1, <2>2, <2>4, <2>5, <2>6
<1>8. ASSUME NEW c \in Callers, CallAction(c)
      PROVE  Served(j)'
  <2>1. /\ task' = task
        /\ loop' = loop
        /\ faults' = faults \/ faults' = faults + 1
        /\ \/ job' = job
           \/ \E cmd \in {"discover", "download"}, s \in Sources : Insert(cmd, s)
           \/ \E s \in Sources : CancelRows(s)
    BY <1>8, CallEffect DEF RunInv
  <2>2. ASSUME NEW s \in Sources, CancelRows(s)  PROVE job[j].status \in Active
    BY <1>1, <2>2 DEF CancelRows, Active, Row
  <2> QED  BY <1>1, <1>2, <1>3, <2>1, <2>2
<1>9. CASE Stop  BY <1>2, <1>9 DEF Stop, TablesUnchanged
<1>10. CASE Restart  BY <1>10 DEF Restart
<1>11. CASE UNCHANGED vars  BY <1>2, <1>11 DEF vars
<1> QED
  BY <1>4, <1>5, <1>6, <1>7, <1>8, <1>9, <1>10, <1>11 DEF Next, CallAction, LoopStep

\* As long as no round trip has raised, every row that is claimed or processing
\* has, from the end of the recovery on, a task that has yet to write its
\* outcome: neither a cancellation nor the drain of a stop leaves a row behind.
THEOREM NothingOrphaned == Spec => []NoOrphan
<1>1. Init => NoOrphan  BY DEF Init, NoOrphan
<1> QED  BY <1>1, NoOrphanStep, RunInvariant, PTL DEF Spec

-----------------------------------------------------------------------------
(* The refinement of the job board.                                        *)

\* The permits that appear from nowhere are bounded by the exceptions.
SurplusBounded == surplus <= faults

LEMMA SurplusStep == TypeInv /\ SurplusBounded /\ [Next]_vars => SurplusBounded'
<1> SUFFICES ASSUME TypeInv, SurplusBounded, [Next]_vars PROVE SurplusBounded'  OBVIOUS
<1> USE DEF SurplusBounded
<1>1. surplus \in Nat /\ faults \in Nat  BY ConstantsAssumption DEF TypeInv, TypeOK
<1>2. CASE LoopStep \/ RecoverRaises \/ ClaimRaises
  BY <1>1, <1>2 DEF LoopStep, Recover, Acquire, Claim, ClaimNothing, Wait, Drain, RecoverRaises,
     ClaimRaises, Fault
<1>3. ASSUME NEW t \in Tasks, TaskStep(t) \/ TaskRaises(t)  PROVE SurplusBounded'
  <2>1. faults' = faults \/ faults' = faults + 1  BY <1>3, TaskEffect
  <2>2. surplus' = surplus
    BY <1>3 DEF TaskStep, TaskRaises, Start, Prepare, EmitDiscovered, ContainerExits,
       DiscoveredItems, DiscoveredSource, DiscoveredRequest, DiscoveredManual, AutoEnqueue,
       AutoSelected, AutoAcquire, MarkDone, MarkFailed, PropagateSource, PropagateRead,
       PropagateWrite, Release, OutsideTasks
  <2> QED  BY <1>1, <2>1, <2>2
<1>4. ASSUME NEW c \in Callers, CallAction(c)  PROVE SurplusBounded'
  <2>1. faults' = faults \/ faults' = faults + 1  BY <1>4, CallEffect
  <2>2. surplus' = surplus
    BY <1>4 DEF CallAction, CallStep, CallRaises, SubmitSource, SubmitRequest, SubmitJob, SelectRead,
       SelectEnqueue, SelectFinish, CancelRead, CancelJobs, CancelStatus, OutsideCalls
  <2> QED  BY <1>1, <2>1, <2>2
<1>5. CASE Stop  BY <1>1, <1>5 DEF Stop
<1>6. CASE Restart  BY <1>1, <1>6 DEF Restart
<1>7. CASE UNCHANGED vars  BY <1>1, <1>7 DEF vars
<1> QED  BY <1>2, <1>3, <1>4, <1>5, <1>6, <1>7 DEF Next, CallAction

BoardInv == RunInv /\ PermitLedger /\ SurplusBounded

LEMMA BoardInvariant == Spec => []BoardInv
<1>1. Init => SurplusBounded  BY DEF Init, SurplusBounded
<1>2. Spec => []SurplusBounded  BY <1>1, SurplusStep, TypeInvariant, PTL DEF Spec
<1>3. RunInv /\ PermitLedger /\ SurplusBounded => BoardInv  BY DEF BoardInv
<1> QED  BY <1>2, <1>3, RunInvariant, LedgerHolds, PTL

\* The board that the tables and the tasks show, and the same read off the status
\* of the rows on which no task works.
BoardMap == [j \in JobIds |-> BoardState(j)]

Phase(st) ==
  IF st = "absent" THEN "absent"
  ELSE IF st \in Active \cup {"pending"} THEN "waiting" ELSE "settled"

BoardRead ==
  BoardMap = [j \in JobIds |-> IF Served(j) THEN "running" ELSE Phase(job[j].status)]

LEMMA BoardReads == RunInv => BoardRead
<1> SUFFICES ASSUME RunInv PROVE BoardRead  OBVIOUS
<1>1. \A j \in JobIds : Served(j) => job[j].status # "absent"  BY ServedRows
<1>2. \A j \in JobIds : BoardState(j) = IF Served(j) THEN "running" ELSE Phase(job[j].status)
  BY <1>1 DEF BoardState, Served, Phase
<1> QED  BY <1>2 DEF BoardRead, BoardMap

\* A step that moves the jobs of one set from one state of the board to another.
LEMMA BoardMoves ==
  ASSUME BoardRead, BoardRead', NEW J \in SUBSET JobIds, NEW from, NEW to, J # {},
         \A j \in J : BoardMap[j] = from /\ BoardMap'[j] = to,
         \A j \in JobIds \ J : (Served(j)' <=> Served(j)) /\ job'[j] = job[j]
  PROVE  Board!Move(J, from, to)
<1>1. BoardMap' = [j \in JobIds |-> IF j \in J THEN to ELSE BoardMap[j]]
  <2>1. JobIds' = JobIds  BY DEF JobIds
  <2>2. BoardMap' = [j \in JobIds |-> BoardMap'[j]]
    BY <2>1 DEF BoardMap
  <2>3. \A j \in JobIds \ J : BoardMap'[j] = BoardMap[j]
    BY <2>1 DEF BoardRead
  <2> QED  BY <2>2, <2>3
<1>2. J \subseteq {j \in JobIds : BoardMap[j] = from}  OBVIOUS
<1> QED  BY <1>1, <1>2 DEF BoardMap, Board!Move, Board!In

\* A step that no job of the board notices.
LEMMA BoardStutters ==
  ASSUME BoardRead, BoardRead',
         \A j \in JobIds : /\ Served(j)' <=> Served(j)
                           /\ Served(j) \/ Phase(job'[j].status) = Phase(job[j].status)
  PROVE  BoardMap' = BoardMap
<1>1. JobIds' = JobIds  BY DEF JobIds
<1> QED  BY <1>1 DEF BoardRead

\* There are no more jobs that run than live tasks.
LEMMA ServedBounded ==
  ASSUME RunInv
  PROVE  Cardinality({j \in JobIds : Served(j)}) <= Cardinality(LiveTasks)
<1> DEFINE R == {j \in JobIds : Served(j)}
           f == [j \in R |-> CHOOSE t \in Tasks : Working(t) /\ JobOf(t) = j]
<1>1. IsFiniteSet(LiveTasks) /\ Cardinality(LiveTasks) \in Nat
  BY ConstantsAssumption, FS_Subset, FS_CardinalityType DEF LiveTasks
<1>2. IsFiniteSet(R) /\ Cardinality(R) \in Nat
  <2>1. IsFiniteSet(JobIds)  BY ConstantsAssumption, FS_Interval DEF JobIds
  <2>2. R \in SUBSET JobIds  OBVIOUS
  <2>3. IsFiniteSet(R)  BY <2>1, <2>2, FS_Subset
  <2> QED  BY <2>3, FS_CardinalityType
<1>3. \A j \in R : f[j] \in Tasks /\ Working(f[j]) /\ JobOf(f[j]) = j  BY DEF Served
<1>4. f \in [R -> LiveTasks]  BY <1>3 DEF LiveTasks, Live, Working
<1>5. ~ \E i, j \in R : i # j /\ f[i] = f[j]  BY <1>3
<1> HIDE DEF R, f
<1>6. ~ (Cardinality(LiveTasks) < Cardinality(R))  BY <1>1, <1>2, <1>4, <1>5, FS_PigeonHole
<1>7. Cardinality(R) <= Cardinality(LiveTasks)  BY <1>1, <1>2, <1>6
<1> QED  BY <1>7 DEF R

\* While the loop holds a permit, one more job can run.
LEMMA RoomToClaim ==
  ASSUME BoardInv, BoardRead, loop = "claim"
  PROVE  Cardinality(Board!In("running")) < MaxConcurrent + MaxFaults
<1>1. Board!In("running") = {j \in JobIds : Served(j)}
  <2>1. Board!In("running") = {j \in JobIds : BoardMap[j] = "running"}  BY DEF Board!In, BoardMap
  <2>2. \A j \in JobIds : BoardMap[j] = "running" <=> Served(j)  BY DEF BoardRead, Phase
  <2> QED  BY <2>1, <2>2
<1>2. Cardinality(LiveTasks) \in Nat
  BY ConstantsAssumption, FS_Subset, FS_CardinalityType DEF LiveTasks
<1>3. Cardinality({j \in JobIds : Served(j)}) \in Nat
  <2>1. IsFiniteSet(JobIds)  BY ConstantsAssumption, FS_Interval DEF JobIds
  <2>2. IsFiniteSet({j \in JobIds : Served(j)})  BY <2>1, FS_Subset
  <2> QED  BY <2>2, FS_CardinalityType
<1>4. Cardinality({j \in JobIds : Served(j)}) <= Cardinality(LiveTasks)
  BY ServedBounded DEF BoardInv
<1>5. permits + 1 + Cardinality(LiveTasks) = MaxConcurrent + surplus /\ surplus <= faults
  BY DEF BoardInv, PermitLedger, Holding, SurplusBounded
<1>6. permits \in Nat /\ surplus \in Nat /\ faults \in Nat /\ faults <= MaxFaults
  BY ConstantsAssumption DEF BoardInv, RunInv, TypeInv, TypeOK
<1> DEFINE r == Cardinality({j \in JobIds : Served(j)})
           l == Cardinality(LiveTasks)
<1>7. r \in Nat /\ l \in Nat /\ r <= l /\ permits + 1 + l = MaxConcurrent + surplus
  BY <1>2, <1>3, <1>4, <1>5
<1> HIDE DEF r, l
<1>8. r < MaxConcurrent + MaxFaults  BY <1>5, <1>6, <1>7, ConstantsAssumption
<1> QED  BY <1>1, <1>8 DEF r

\* Insert puts one absent job on the board.
LEMMA InsertEnqueues ==
  ASSUME RunInv, BoardRead, BoardRead', task' = task,
         NEW cmd \in {"discover", "download"}, NEW s \in Sources, Insert(cmd, s)
  PROVE  Board!Next
<1>1. job \in [JobIds -> Row]  BY DEF RunInv, TypeInv, TypeOK
<1>2. PICK j \in JobIds :
        /\ job[j].status = "absent"
        /\ job' = [job EXCEPT ![j] = [status |-> "pending", command |-> cmd, source |-> s]]
  BY DEF Insert
<1>3. job'[j].status = "pending" /\ \A i \in JobIds \ {j} : job'[i] = job[i]  BY <1>1, <1>2
<1>4. \A i \in JobIds : Served(i)' <=> Served(i)  BY DEF Served, Working, JobOf
<1>5. ~Served(j)  BY <1>2, ServedRows
<1>6. BoardMap[j] = "absent" /\ BoardMap'[j] = "waiting"
  <2>1. JobIds' = JobIds  BY DEF JobIds
  <2> QED  BY <1>2, <1>3, <1>4, <1>5, <2>1 DEF BoardRead, Phase
<1>7. Board!Move({j}, "absent", "waiting")  BY <1>3, <1>4, <1>6, BoardMoves
<1> QED  BY <1>7 DEF Board!Next, Board!Enqueue

\* A cancellation withdraws the rows of the source that wait, if any.
LEMMA CancelWithdraws ==
  ASSUME RunInv, BoardRead, BoardRead', task' = task, NEW s \in Sources, CancelRows(s)
  PROVE  [Board!Next]_BoardMap
<1> DEFINE J == {j \in JobIds : ~Served(j) /\ job[j].source = s
                                /\ job[j].status \in {"pending", "claimed"}}
<1>1. job \in [JobIds -> Row] /\ JobIds' = JobIds  BY DEF RunInv, TypeInv, TypeOK, JobIds
<1>2. \A i \in JobIds : Served(i)' <=> Served(i)  BY DEF Served, Working, JobOf
<1>3. \A j \in J : job'[j].status = "cancelled"  BY <1>1 DEF CancelRows, Row
<1>4. \A j \in JobIds \ J : Served(j) \/ job'[j] = job[j]  BY DEF CancelRows
<1>5. \A j \in J : BoardMap[j] = "waiting" /\ BoardMap'[j] = "settled"
  BY <1>1, <1>2, <1>3 DEF BoardRead, Phase, Active
<1>6. \A j \in JobIds \ J : BoardMap'[j] = BoardMap[j]
  BY <1>1, <1>2, <1>4 DEF BoardRead
<1>7. BoardMap' = [j \in JobIds |-> IF j \in J THEN "settled" ELSE BoardMap[j]]
  <2>1. BoardMap' = [j \in JobIds |-> BoardMap'[j]]  BY <1>1 DEF BoardMap
  <2> QED  BY <1>5, <1>6, <2>1
<1>8. CASE J = {}
  <2>1. BoardMap = [j \in JobIds |-> BoardMap[j]]  BY DEF BoardMap
  <2> QED  BY <1>7, <1>8, <2>1
<1>9. CASE J # {}
  <2>1. J \subseteq {j \in JobIds : BoardMap[j] = "waiting"} /\ J \in SUBSET JobIds  BY <1>5
  <2> HIDE DEF J
  <2>2. Board!Move(J, "waiting", "settled")
    BY <1>7, <1>9, <2>1 DEF BoardMap, Board!Move, Board!In
  <2>3. J \in SUBSET Board!In("waiting")  BY <2>1 DEF BoardMap, Board!In
  <2> QED  BY <2>2, <2>3 DEF Board!Next, Board!Withdraw
<1> QED  BY <1>8, <1>9

\* A step of a task moves at most its own job.
LEMMA TaskMoves ==
  ASSUME RunInv, BoardRead, BoardRead', NEW t \in Tasks, TaskStep(t) \/ TaskRaises(t)
  PROVE  [Board!Next]_BoardMap
<1>1. job \in [JobIds -> Row] /\ JobIds' = JobIds /\ JobsOfTasks
  BY DEF RunInv, TypeInv, TypeOK, JobIds
<1>2. /\ Alone(t)
      /\ \/ GoesOn(t) \/ Settles(t) \/ Drops(t)
         \/ task' = task /\ \E s \in Sources : Insert("download", s)
  BY TaskEffect DEF RunInv
<1>3. CASE task' = task /\ \E s \in Sources : Insert("download", s)
  BY <1>3, InsertEnqueues
<1>4. ASSUME Working(t)
      PROVE  /\ JobOf(t) \in JobIds /\ Served(JobOf(t)) /\ BoardMap[JobOf(t)] = "running"
             /\ \A j \in JobIds : Served(j)' <=> IF j = JobOf(t) THEN Working(t)' ELSE Served(j)
  <2>1. JobOf(t) \in JobIds  BY <1>1, <1>4 DEF JobsOfTasks, Working, Live
  <2> QED  BY <1>2, <1>4, <2>1, AloneServes DEF Served, BoardRead
<1>5. CASE GoesOn(t) /\ ~Working(t)
  <2>1. \A j \in JobIds : Served(j)' <=> Served(j)
    BY <1>2, <1>5 DEF GoesOn, Alone, Served, Working, JobOf
  <2> QED  BY <1>5, <2>1, BoardStutters DEF GoesOn
<1>6. CASE GoesOn(t) /\ Working(t)
  <2>1. \A j \in JobIds : Served(j)' <=> Served(j)  BY <1>4, <1>6 DEF GoesOn
  <2>2. \A j \in JobIds : j # JobOf(t) => job'[j] = job[j]  BY <1>1, <1>6 DEF GoesOn, SetStatus
  <2> QED  BY <1>4, <1>6, <2>1, <2>2, BoardStutters
<1>7. CASE Settles(t)
  <2>1. job'[JobOf(t)].status \in {"done", "failed"}
        /\ \A j \in JobIds : j # JobOf(t) => job'[j] = job[j]
    BY <1>1, <1>4, <1>7 DEF Settles, SetStatus, Row
  <2>2. BoardMap'[JobOf(t)] = "settled"
    BY <1>1, <1>4, <1>7, <2>1 DEF Settles, BoardRead, Phase, Active
  <2>3. Board!Move({JobOf(t)}, "running", "settled")
    BY <1>4, <1>7, <2>1, <2>2, BoardMoves DEF Settles
  <2> QED  BY <1>4, <1>7, <2>3 DEF Settles, Board!Next, Board!Settle
<1>8. CASE Drops(t)
  <2>1. job[JobOf(t)].status \in {"claimed", "processing", "cancelled"}
    BY <1>4, <1>8, ServedRows DEF Drops
  <2>2. /\ BoardMap'[JobOf(t)] \in {"waiting", "settled"}
        /\ \A j \in JobIds \ {JobOf(t)} : BoardMap'[j] = BoardMap[j]
    BY <1>1, <1>4, <1>8, <2>1 DEF Drops, BoardRead, Phase, Active
  <2>3. BoardMap' = [j \in JobIds |-> IF j = JobOf(t) THEN BoardMap'[JobOf(t)] ELSE BoardMap[j]]
    <3>1. BoardMap' = [j \in JobIds |-> BoardMap'[j]]  BY <1>1 DEF BoardMap
    <3> QED  BY <2>2, <3>1
  <2>4. {JobOf(t)} \subseteq Board!In("running")
    BY <1>4, <1>8 DEF Drops, Board!In, BoardMap
  <2> DEFINE back == IF BoardMap'[JobOf(t)] = "waiting" THEN {JobOf(t)} ELSE {}
             dropped == {JobOf(t)}
  <2>5. back \in SUBSET Board!In("running") /\ dropped \in SUBSET Board!In("running")
    BY <2>4
  <2>6. BoardMap' = [j \in JobIds |-> IF j \in back THEN "waiting"
                                      ELSE IF j \in dropped THEN "settled" ELSE BoardMap[j]]
    BY <2>2, <2>3
  <2> HIDE DEF back, dropped
  <2>7. Board!Interrupt(back, dropped)  BY <2>5, <2>6 DEF Board!Interrupt, BoardMap
  <2> QED  BY <2>5, <2>7 DEF Board!Next
<1> QED  BY <1>2, <1>3, <1>5, <1>6, <1>7, <1>8

\* The death of the process interrupts every run: the jobs it had under way go
\* back to the queue, except the ones a cancellation had reached before they
\* were marked processing.
LEMMA RestartInterrupts ==
  ASSUME RunInv, BoardRead, BoardRead', Restart
  PROVE  Board!Next
<1> DEFINE back == {j \in JobIds : Served(j) /\ job[j].status \in Active}
           dropped == {j \in JobIds : Served(j) /\ job[j].status = "cancelled"}
<1>1. job' = job /\ JobIds' = JobIds  BY DEF Restart, TablesUnchanged, JobIds
<1>2. \A j \in JobIds : ~Served(j)'  BY DEF Restart, Served, Working, NoTask
<1>3. \A j \in JobIds : Served(j) => j \in back \/ j \in dropped  BY ServedRows DEF Active
<1>4. BoardMap' = [j \in JobIds |-> IF j \in back THEN "waiting"
                                    ELSE IF j \in dropped THEN "settled" ELSE BoardMap[j]]
  <2>1. BoardMap' = [j \in JobIds |-> Phase(job[j].status)]  BY <1>1, <1>2 DEF BoardRead
  <2>2. \A j \in JobIds : Phase(job[j].status) =
          IF j \in back THEN "waiting" ELSE IF j \in dropped THEN "settled" ELSE BoardMap[j]
    <3> TAKE j \in JobIds
    <3>1. CASE Served(j)  BY <1>3, <3>1 DEF Phase, Active
    <3>2. CASE ~Served(j)  BY <3>2 DEF BoardRead
    <3> QED  BY <3>1, <3>2
  <2> QED  BY <2>1, <2>2
<1>5. back \in SUBSET Board!In("running") /\ dropped \in SUBSET Board!In("running")
  <2>1. \A j \in JobIds : Served(j) => BoardMap[j] = "running"  BY DEF BoardRead
  <2> QED  BY <2>1 DEF Board!In, BoardMap
<1> HIDE DEF back, dropped
<1>6. Board!Interrupt(back, dropped)  BY <1>4, <1>5 DEF Board!Interrupt, BoardMap
<1> QED  BY <1>5, <1>6 DEF Board!Next

LEMMA LoopMoves ==
  ASSUME BoardInv, BoardRead, BoardRead', LoopStep \/ RecoverRaises \/ ClaimRaises
  PROVE  [Board!Next]_BoardMap
<1>1. job \in [JobIds -> Row] /\ JobIds' = JobIds /\ RunInv
  BY DEF BoardInv, RunInv, TypeInv, TypeOK, JobIds
<1>2. CASE Recover
  <2>1. \A j \in JobIds : ~Served(j) /\ ~Served(j)'
    BY <1>1, <1>2 DEF Recover, RunInv, NoTaskBeforeRecovery, LiveTasks, Live, Served, Working
  <2>2. \A j \in JobIds : Phase(job'[j].status) = Phase(job[j].status)
    BY <1>1, <1>2 DEF Recover, RequeueRows, Phase, Active, Row
  <2> QED  BY <2>1, <2>2, BoardStutters
<1>3. CASE Claim
  <2>1. PICK j \in JobIds, t \in Tasks :
          /\ job[j].status = "pending" /\ ~Live(t)
          /\ job'[j].status = "claimed"
          /\ \A i \in JobIds : i # j => job'[i] = job[i]
          /\ Working(t)' /\ JobOf(t)' = j
          /\ \A u \in Tasks : u # t => task'[u] = task[u]
    BY <1>1, <1>3, ClaimEffect
  <2>2. \A i \in JobIds \ {j} : Served(i)' <=> Served(i)
    BY <2>1 DEF Served, Working, JobOf, Live
  <2>3. ~Served(j) /\ Served(j)'  BY <1>1, <2>1, ServedRows DEF Served
  <2>4. BoardMap[j] = "waiting" /\ BoardMap'[j] = "running"
    BY <1>1, <2>1, <2>3 DEF BoardRead, Phase
  <2>5. Board!Move({j}, "waiting", "running")  BY <2>1, <2>2, <2>4, BoardMoves
  <2>6. Cardinality(Board!In("running")) < MaxConcurrent + MaxFaults
    BY <1>3, RoomToClaim DEF Claim
  <2>7. Board!Cardinality(Board!In("running")) = Cardinality(Board!In("running"))
    BY DEF Board!Cardinality, Cardinality
  <2>8. Board!Begin(j)  BY <2>5, <2>6, <2>7 DEF Board!Begin
  <2> QED  BY <2>8 DEF Board!Next
<1>4. CASE ~Recover /\ ~Claim
  <2>1. UNCHANGED <<job, task>>  BY <1>4, QuietLoop
  <2> QED  BY <2>1, BoardStutters DEF Served, Working, JobOf
<1> QED  BY <1>2, <1>3, <1>4

LEMMA BoardStep == BoardInv /\ BoardInv' /\ [Next]_vars => [Board!Next]_BoardMap
<1> SUFFICES ASSUME BoardInv, BoardInv', [Next]_vars PROVE [Board!Next]_BoardMap  OBVIOUS
<1>1. RunInv /\ RunInv'  BY DEF BoardInv
<1>2. BoardRead  BY <1>1, BoardReads
<1>3. RunInv' => BoardRead'  BY BoardReads, PTL
<1>4. BoardRead'  BY <1>1, <1>3
<1>5. CASE LoopStep \/ RecoverRaises \/ ClaimRaises  BY <1>2, <1>4, <1>5, LoopMoves
<1>6. ASSUME NEW t \in Tasks, TaskStep(t) \/ TaskRaises(t)  PROVE [Board!Next]_BoardMap
  BY <1>1, <1>2, <1>4, <1>6, TaskMoves
<1>7. ASSUME NEW c \in Callers, CallAction(c)  PROVE [Board!Next]_BoardMap
  <2>1. /\ task' = task
        /\ \/ job' = job
           \/ \E cmd \in {"discover", "download"}, s \in Sources : Insert(cmd, s)
           \/ \E s \in Sources : CancelRows(s)
    BY <1>1, <1>7, CallEffect DEF RunInv
  <2>2. CASE job' = job
    BY <1>2, <1>4, <2>1, <2>2, BoardStutters DEF Served, Working, JobOf
  <2> QED  BY <1>1, <1>2, <1>4, <2>1, <2>2, InsertEnqueues, CancelWithdraws
<1>8. CASE Restart  BY <1>1, <1>2, <1>4, <1>8, RestartInterrupts
<1>9. CASE Stop \/ UNCHANGED vars
  <2>1. UNCHANGED <<job, task>>  BY <1>9 DEF Stop, TablesUnchanged, vars
  <2> QED  BY <1>2, <1>4, <2>1, BoardStutters DEF Served, Working, JobOf
<1> QED  BY <1>5, <1>6, <1>7, <1>8, <1>9 DEF Next, CallAction

\* The orchestrator implements the board: a job waits, runs and settles, settles
\* once, is withdrawn only while it waits, and no more than max_concurrent_scrapers
\* plus the number of exceptions run at once, through crashes and stops.
THEOREM ImplementsBoard == Spec => BoardSpec
<1>1. Init => Board!Init
  <2> SUFFICES ASSUME Init PROVE Board!Init  OBVIOUS
  <2>1. \A j \in JobIds : BoardState(j) = "absent"  BY DEF Init, BoardState
  <2> QED  BY <2>1 DEF Board!Init
<1>2. BoardInv /\ BoardInv' /\ [Next]_vars => [Board!Next]_[j \in JobIds |-> BoardState(j)]
  BY BoardStep DEF BoardMap
<1> QED  BY <1>1, <1>2, BoardInvariant, PTL DEF Spec, BoardSpec, Board!Spec

=============================================================================
