------------------------- MODULE ScrapeOrchestrator -------------------------
(***************************************************************************)
(* The scraping service of the Role Builder backend: the scraping_jobs     *)
(* table, the orchestrator that claims and runs its jobs under a semaphore,*)
(* and the calls of the request layer that enqueue and cancel them.        *)
(*                                                                         *)
(* One backend process.  Its coroutines interleave at every await, and an  *)
(* await here is a round trip to PostgreSQL or an event of a scraper       *)
(* container, so an action is what a coroutine does from one await to the  *)
(* next.  The tables survive a restart of the process, everything else is  *)
(* lost.                                                                   *)
(*                                                                         *)
(* Items are abstracted: a download job is a row of its source.  What the  *)
(* download events do to the items belongs to another module.              *)
(***************************************************************************)
EXTENDS Integers, FiniteSets

CONSTANTS
  Sources,        \* sources (one acquisition request each)
  AutoSources,    \* the sources whose request has mode = auto
  Callers,        \* coroutines that serve a call of the request layer
  Tasks,          \* slots for the orchestrator's in-flight asyncio tasks
  MaxConcurrent,  \* settings.max_concurrent_scrapers
  MaxJobs,        \* bound: rows ever inserted in scraping_jobs
  MaxFaults,      \* bound: exceptions raised by a round trip
  MaxRestarts     \* bound: crashes and redeployments of the process

ASSUME ConstantsAssumption ==
  /\ Sources # {}
  /\ AutoSources \subseteq Sources
  /\ MaxConcurrent \in Nat
  /\ MaxJobs \in Nat
  /\ MaxFaults \in Nat
  /\ MaxRestarts \in Nat
  /\ IsFiniteSet(Tasks)
  /\ Cardinality(Tasks) >= MaxConcurrent + MaxFaults

\* Rows are numbered in the order of created_at: the queue is FIFO because
\* every insert_job of the code passes priority 0.
JobIds == 1 .. MaxJobs

VARIABLES
  job,       \* scraping_jobs: [status, command, source] of each row
  source,    \* sources.status
  listed,    \* the sources whose source_items have been inserted
  request,   \* acquisition_requests.status
  permits,   \* value of the asyncio.Semaphore
  loop,      \* where run_loop is
  stop,      \* stop_event
  task,      \* the _process_and_release coroutines
  call,      \* the calls of the request layer in progress
  surplus,   \* ghost: releases of the semaphore without an acquire
  faults,    \* number of exceptions so far
  restarts   \* number of restarts so far

vars == <<job, source, listed, request, permits, loop, stop, task, call, surplus, faults, restarts>>

JobStatus == {"absent", "pending", "claimed", "processing", "done", "failed", "cancelled"}
Active == {"claimed", "processing"}
SourceStatus == {"absent", "pending_discovery", "discovered", "discovery_failed"}
RequestStatus == {"none", "discovering", "discovered", "acquiring", "failed", "cancelled"}
LoopPC == {"recover", "acquire", "claim", "wait", "drain", "stopped"}

\* "handle" and "d_*" are inside handle_scraper_event, "p_*" inside
\* _propagate_discover_failure, "release" is the finally clause.
TaskPC == {"none", "start", "prepare", "run", "d_items", "d_source", "d_request", "d_manual", 
           "d_select", "d_acquire", "done", "fail", "p_source", "p_read", "p_write", "release"}
HandlerPC == {"d_items", "d_source", "d_request", "d_manual", "d_select", "d_acquire"}
PropagatePC == {"p_source", "p_read", "p_write"}
CallPC == {"idle", "submit_request", "submit_job", "select", "cancel_jobs", "cancel_status"}

Row == [status : JobStatus, command : {"discover", "download"}, source : Sources]
TaskState == [pc : TaskPC, job : JobIds \cup {0}, discovered : BOOLEAN]
CallState == [pc : CallPC, source : Sources, seen : RequestStatus]

NoTask == [pc |-> "none", job |-> 0, discovered |-> FALSE]

TypeOK ==
  /\ job \in [JobIds -> Row]
  /\ source \in [Sources -> SourceStatus]
  /\ listed \in SUBSET Sources
  /\ request \in [Sources -> RequestStatus]
  /\ permits \in Nat
  /\ loop \in LoopPC
  /\ stop \in BOOLEAN
  /\ task \in [Tasks -> TaskState]
  /\ call \in [Callers -> CallState]
  /\ surplus \in Nat
  /\ faults \in 0 .. MaxFaults
  /\ restarts \in 0 .. MaxRestarts

-----------------------------------------------------------------------------
(* The definitions marked "faulty" are variants of the code that no        *)
(* behaviour uses: each stands for a plausible mistake in the definition   *)
(* that follows it, and shows that some property would notice.             *)
-----------------------------------------------------------------------------
(* The scraping_jobs table.                                                *)

SetStatus(j, st) == job' = [job EXCEPT ![j].status = st]

\* insert_job: a new pending row, the last of the queue.
Insert(cmd, s) ==
  \E j \in JobIds :
    /\ job[j].status = "absent"
    /\ \A i \in 1 .. (j - 1) : job[i].status # "absent"
    /\ job' = [job EXCEPT ![j] = [status |-> "pending", command |-> cmd, source |-> s]]

\* Faulty: the WHERE clause of the claim also takes rows already claimed.
IsNextEvenClaimed(j) ==
  /\ job[j].status \in {"pending", "claimed"}
  /\ \A i \in 1 .. (j - 1) : job[i].status # "pending"

\* The row that claim_next_pending_job selects: the oldest pending one.
IsNext(j) ==
  /\ job[j].status = "pending"
  /\ \A i \in 1 .. (j - 1) : job[i].status # "pending"

\* Faulty: the cancellation does not look at the status.
CancelEveryRow(s) ==
  job' = [j \in JobIds |->
            IF job[j].source = s /\ job[j].status # "absent"
            THEN [job[j] EXCEPT !.status = "cancelled"] ELSE job[j]]

\* cancel_pending_claimed: one UPDATE over the rows of a source.
CancelRows(s) ==
  job' = [j \in JobIds |->
            IF job[j].source = s /\ job[j].status \in {"pending", "claimed"}
            THEN [job[j] EXCEPT !.status = "cancelled"] ELSE job[j]]

\* Faulty: the requeue forgets the rows that were being processed.
RequeueClaimedOnly ==
  job' = [j \in JobIds |->
            IF job[j].status = "claimed"
            THEN [job[j] EXCEPT !.status = "pending"] ELSE job[j]]

\* Faulty: the requeue takes every row that did not end well.
RequeueCancelledToo ==
  job' = [j \in JobIds |->
            IF job[j].status \in Active \cup {"cancelled"}
            THEN [job[j] EXCEPT !.status = "pending"] ELSE job[j]]

\* requeue_stale_jobs: one UPDATE over the table.
RequeueRows ==
  job' = [j \in JobIds |->
            IF job[j].status \in Active
            THEN [job[j] EXCEPT !.status = "pending"] ELSE job[j]]

-----------------------------------------------------------------------------
(* ScraperOrchestrator.run_loop.                                           *)

\* The test of the while loop, with no await before it.
NextTurn == IF stop THEN "drain" ELSE "acquire"

Fault == faults < MaxFaults /\ faults' = faults + 1

TablesUnchanged == UNCHANGED <<job, source, listed, request>>

Recover ==
  /\ loop = "recover"
  /\ RequeueRows
  /\ loop' = NextTurn
  /\ UNCHANGED <<source, listed, request, permits, stop, task, call, surplus, faults, restarts>>

\* An exception of requeue_stale_jobs is logged and the loop starts all the same.
RecoverRaises ==
  /\ loop = "recover"
  /\ Fault
  /\ loop' = NextTurn
  /\ TablesUnchanged
  /\ UNCHANGED <<permits, stop, task, call, surplus, restarts>>

\* Faulty: the acquisition does not wait for a permit.
AcquireWithoutWaiting ==
  /\ loop = "acquire"
  /\ loop' = IF stop THEN "drain" ELSE "claim"
  /\ permits' = IF stop THEN permits ELSE permits - 1
  /\ TablesUnchanged
  /\ UNCHANGED <<stop, task, call, surplus, faults, restarts>>

Acquire ==
  /\ loop = "acquire"
  /\ permits > 0
  /\ IF stop
     THEN loop' = "drain" /\ UNCHANGED permits
     ELSE loop' = "claim" /\ permits' = permits - 1
  /\ TablesUnchanged
  /\ UNCHANGED <<stop, task, call, surplus, faults, restarts>>

\* The claim commits and the task of the job is created.
Claim ==
  /\ loop = "claim"
  /\ \E j \in JobIds, t \in Tasks :
       /\ IsNext(j)
       /\ task[t].pc = "none"
       /\ SetStatus(j, "claimed")
       /\ task' = [task EXCEPT ![t] = [pc |-> "start", job |-> j, discovered |-> FALSE]]
  /\ loop' = NextTurn
  /\ UNCHANGED <<source, listed, request, permits, stop, call, surplus, faults, restarts>>

ClaimNothing ==
  /\ loop = "claim"
  /\ \A j \in JobIds : job[j].status # "pending"
  /\ permits' = permits + 1
  /\ loop' = "wait"
  /\ TablesUnchanged
  /\ UNCHANGED <<stop, task, call, surplus, faults, restarts>>

\* The except clause releases the permit and leaves job = None; the branch for
\* "no job" then releases it a second time.
ClaimRaises ==
  /\ loop = "claim"
  /\ Fault
  /\ permits' = permits + 2
  /\ surplus' = surplus + 1
  /\ loop' = "wait"
  /\ TablesUnchanged
  /\ UNCHANGED <<stop, task, call, restarts>>

\* wait_for(stop_event.wait(), timeout = 2.0): the timeout goes on with the
\* loop, the event leaves it.
Wait ==
  /\ loop = "wait"
  /\ loop' = NextTurn
  /\ TablesUnchanged
  /\ UNCHANGED <<permits, stop, task, call, surplus, faults, restarts>>

Live(t) == task[t].pc # "none"
LiveTasks == {t \in Tasks : Live(t)}

\* asyncio.gather(*in_flight) before the loop returns.
Drain ==
  /\ loop = "drain"
  /\ LiveTasks = {}
  /\ loop' = "stopped"
  /\ TablesUnchanged
  /\ UNCHANGED <<permits, stop, task, call, surplus, faults, restarts>>

-----------------------------------------------------------------------------
(* process_one_job, handle_scraper_event and _propagate_discover_failure.  *)

At(t, pc) == task[t].pc = pc
Goto(t, pc) == task' = [task EXCEPT ![t].pc = pc]
JobOf(t) == task[t].job
SourceOf(t) == job[JobOf(t)].source
IsDiscover(t) == job[JobOf(t)].command = "discover"

OutsideTasks == <<permits, loop, stop, call, surplus, restarts>>

\* mark_job_processing: UPDATE ... WHERE id, whatever the status has become.
Start(t) ==
  /\ At(t, "start")
  /\ SetStatus(JobOf(t), "processing")
  /\ Goto(t, "prepare")
  /\ UNCHANGED <<source, listed, request, faults, OutsideTasks>>

\* get_source, _build_env (the cookies of the credential) and _build_payload.
Prepare(t) ==
  /\ At(t, "prepare")
  /\ Goto(t, "run")
  /\ TablesUnchanged
  /\ UNCHANGED <<faults, OutsideTasks>>

\* The discover container emits "discovered" once.
EmitDiscovered(t) ==
  /\ At(t, "run")
  /\ IsDiscover(t)
  /\ ~task[t].discovered
  /\ task' = [task EXCEPT ![t].pc = "d_items", ![t].discovered = TRUE]
  /\ TablesUnchanged
  /\ UNCHANGED <<faults, OutsideTasks>>

\* A discover container exits with 0 only after "discovered"; a download one
\* may exit with 0 or 3 whatever it did.
ContainerExits(t) ==
  /\ At(t, "run")
  /\ \/ /\ IsDiscover(t) => task[t].discovered
        /\ Goto(t, "done")
     \/ Goto(t, "fail")
  /\ TablesUnchanged
  /\ UNCHANGED <<faults, OutsideTasks>>

\* insert_source_items_bulk, then the status of the source.
DiscoveredItems(t) ==
  /\ At(t, "d_items")
  /\ listed' = listed \cup {SourceOf(t)}
  /\ Goto(t, "d_source")
  /\ UNCHANGED <<job, source, request, faults, OutsideTasks>>

DiscoveredSource(t) ==
  /\ At(t, "d_source")
  /\ source' = [source EXCEPT ![SourceOf(t)] = "discovered"]
  /\ Goto(t, "d_request")
  /\ UNCHANGED <<job, listed, request, faults, OutsideTasks>>

\* get_by_source_id and the branches of on_discovery_complete, decided once and
\* for all on that snapshot of the request.
DiscoveredRequest(t) ==
  /\ At(t, "d_request")
  /\ Goto(t, IF request[SourceOf(t)] = "cancelled" THEN "run"
             ELSE IF SourceOf(t) \in AutoSources THEN "d_select" ELSE "d_manual")
  /\ TablesUnchanged
  /\ UNCHANGED <<faults, OutsideTasks>>

DiscoveredManual(t) ==
  /\ At(t, "d_manual")
  /\ request' = [request EXCEPT ![SourceOf(t)] = "discovered"]
  /\ Goto(t, "run")
  /\ UNCHANGED <<job, source, listed, faults, OutsideTasks>>

\* apply_selection: one insert_job per selected item.
AutoEnqueue(t) ==
  /\ At(t, "d_select")
  /\ Insert("download", SourceOf(t))
  /\ UNCHANGED <<source, listed, request, task, faults, OutsideTasks>>

AutoSelected(t) ==
  /\ At(t, "d_select")
  /\ Goto(t, "d_acquire")
  /\ TablesUnchanged
  /\ UNCHANGED <<faults, OutsideTasks>>

AutoAcquire(t) ==
  /\ At(t, "d_acquire")
  /\ request' = [request EXCEPT ![SourceOf(t)] = "acquiring"]
  /\ Goto(t, "run")
  /\ UNCHANGED <<job, source, listed, faults, OutsideTasks>>

MarkDone(t) ==
  /\ At(t, "done")
  /\ SetStatus(JobOf(t), "done")
  /\ Goto(t, "release")
  /\ UNCHANGED <<source, listed, request, faults, OutsideTasks>>

MarkFailed(t) ==
  /\ At(t, "fail")
  /\ SetStatus(JobOf(t), "failed")
  /\ Goto(t, IF IsDiscover(t) THEN "p_source" ELSE "release")
  /\ UNCHANGED <<source, listed, request, faults, OutsideTasks>>

PropagateSource(t) ==
  /\ At(t, "p_source")
  /\ source' = [source EXCEPT ![SourceOf(t)] = "discovery_failed"]
  /\ Goto(t, "p_read")
  /\ UNCHANGED <<job, listed, request, faults, OutsideTasks>>

\* Faulty: only a request that is already "discovered" is failed.
PropagateReadDiscovered(t) ==
  /\ At(t, "p_read")
  /\ Goto(t, IF request[SourceOf(t)] = "discovered" THEN "p_write" ELSE "release")
  /\ TablesUnchanged
  /\ UNCHANGED <<faults, OutsideTasks>>

PropagateRead(t) ==
  /\ At(t, "p_read")
  /\ Goto(t, IF request[SourceOf(t)] \in {"discovering", "discovered"}
             THEN "p_write" ELSE "release")
  /\ TablesUnchanged
  /\ UNCHANGED <<faults, OutsideTasks>>

PropagateWrite(t) ==
  /\ At(t, "p_write")
  /\ request' = [request EXCEPT ![SourceOf(t)] = "failed"]
  /\ Goto(t, "release")
  /\ UNCHANGED <<job, source, listed, faults, OutsideTasks>>

\* A round trip raises.  Inside handle_scraper_event (or while the container
\* streams) the job is marked failed; _propagate_discover_failure swallows the
\* exception; anywhere else it leaves process_one_job and
\* _process_and_release only logs it.
TaskRaises(t) ==
  /\ Fault
  /\ \/ /\ task[t].pc \in HandlerPC \cup {"run"}
        /\ Goto(t, "fail")
     \/ /\ task[t].pc \in PropagatePC \cup {"start", "prepare", "done", "fail"}
        /\ Goto(t, "release")
  /\ TablesUnchanged
  /\ UNCHANGED OutsideTasks

\* Faulty: the semaphore is not released when the job has been cancelled.
ReleaseUnlessCancelled(t) ==
  /\ At(t, "release")
  /\ task' = [task EXCEPT ![t] = NoTask]
  /\ permits' = IF job[JobOf(t)].status = "cancelled" THEN permits ELSE permits + 1
  /\ TablesUnchanged
  /\ UNCHANGED <<loop, stop, call, surplus, faults, restarts>>

\* The finally clause of _process_and_release.
Release(t) ==
  /\ At(t, "release")
  /\ task' = [task EXCEPT ![t] = NoTask]
  /\ permits' = permits + 1
  /\ TablesUnchanged
  /\ UNCHANGED <<loop, stop, call, surplus, faults, restarts>>

TaskStep(t) ==
  \/ Start(t) \/ Prepare(t) \/ EmitDiscovered(t) \/ ContainerExits(t)
  \/ DiscoveredItems(t) \/ DiscoveredSource(t) \/ DiscoveredRequest(t) \/ DiscoveredManual(t)
  \/ AutoEnqueue(t) \/ AutoSelected(t) \/ AutoAcquire(t)
  \/ MarkDone(t) \/ MarkFailed(t)
  \/ PropagateSource(t) \/ PropagateRead(t) \/ PropagateWrite(t)
  \/ Release(t)

-----------------------------------------------------------------------------
(* Calls of the request layer: submit_acquisition, select_items and        *)
(* cancel_request.                                                         *)

Calling(c, pc) == call[c].pc = pc
Continue(c, pc) == call' = [call EXCEPT ![c].pc = pc]
Target(c) == call[c].source

OutsideCalls == <<permits, loop, stop, task, surplus, restarts>>

SubmitSource(c, s) ==
  /\ Calling(c, "idle")
  /\ source[s] = "absent"
  /\ source' = [source EXCEPT ![s] = "pending_discovery"]
  /\ call' = [call EXCEPT ![c].pc = "submit_request", ![c].source = s]
  /\ UNCHANGED <<job, listed, request, faults, OutsideCalls>>

SubmitRequest(c) ==
  /\ Calling(c, "submit_request")
  /\ request' = [request EXCEPT ![Target(c)] = "discovering"]
  /\ Continue(c, "submit_job")
  /\ UNCHANGED <<job, source, listed, faults, OutsideCalls>>

SubmitJob(c) ==
  /\ Calling(c, "submit_job")
  /\ Insert("discover", Target(c))
  /\ Continue(c, "idle")
  /\ UNCHANGED <<source, listed, request, faults, OutsideCalls>>

\* The caller knows a request from the moment it is inserted.
SelectRead(c, s) ==
  /\ Calling(c, "idle")
  /\ request[s] \notin {"none", "cancelled"}
  /\ call' = [call EXCEPT ![c] = [pc |-> "select", source |-> s, seen |-> request[s]]]
  /\ TablesUnchanged
  /\ UNCHANGED <<faults, OutsideCalls>>

SelectEnqueue(c) ==
  /\ Calling(c, "select")
  /\ Target(c) \in listed
  /\ Insert("download", Target(c))
  /\ UNCHANGED <<source, listed, request, call, faults, OutsideCalls>>

SelectFinish(c) ==
  /\ Calling(c, "select")
  /\ request' = IF call[c].seen \in {"discovering", "discovered"}
                THEN [request EXCEPT ![Target(c)] = "acquiring"] ELSE request
  /\ Continue(c, "idle")
  /\ UNCHANGED <<job, source, listed, faults, OutsideCalls>>

CancelRead(c, s) ==
  /\ Calling(c, "idle")
  /\ request[s] \notin {"none", "cancelled"}
  /\ call' = [call EXCEPT ![c].pc = "cancel_jobs", ![c].source = s]
  /\ TablesUnchanged
  /\ UNCHANGED <<faults, OutsideCalls>>

CancelJobs(c) ==
  /\ Calling(c, "cancel_jobs")
  /\ CancelRows(Target(c))
  /\ Continue(c, "cancel_status")
  /\ UNCHANGED <<source, listed, request, faults, OutsideCalls>>

CancelStatus(c) ==
  /\ Calling(c, "cancel_status")
  /\ request' = [request EXCEPT ![Target(c)] = "cancelled"]
  /\ Continue(c, "idle")
  /\ UNCHANGED <<job, source, listed, faults, OutsideCalls>>

\* An exception leaves the call half done: no transaction spans its statements.
CallRaises(c) ==
  /\ ~Calling(c, "idle")
  /\ Fault
  /\ Continue(c, "idle")
  /\ TablesUnchanged
  /\ UNCHANGED OutsideCalls

CallStep(c) ==
  \/ SubmitRequest(c) \/ SubmitJob(c)
  \/ SelectEnqueue(c) \/ SelectFinish(c)
  \/ CancelJobs(c) \/ CancelStatus(c)

-----------------------------------------------------------------------------
(* The process.                                                            *)

\* The lifespan sets stop_event and waits for the loop to drain.
Stop ==
  /\ ~stop
  /\ restarts < MaxRestarts
  /\ stop' = TRUE
  /\ TablesUnchanged
  /\ UNCHANGED <<permits, loop, task, call, surplus, faults, restarts>>

NoCall == [pc |-> "idle", source |-> CHOOSE s \in Sources : TRUE, seen |-> "none"]

\* The process dies, or has drained, and starts again with a new orchestrator.
Restart ==
  /\ restarts < MaxRestarts
  /\ restarts' = restarts + 1
  /\ permits' = MaxConcurrent
  /\ loop' = "recover"
  /\ stop' = FALSE
  /\ task' = [t \in Tasks |-> NoTask]
  /\ call' = [c \in Callers |-> NoCall]
  /\ surplus' = 0
  /\ TablesUnchanged
  /\ UNCHANGED faults

Init ==
  /\ job = [j \in JobIds |-> [status |-> "absent", command |-> "discover",
                              source |-> CHOOSE s \in Sources : TRUE]]
  /\ source = [s \in Sources |-> "absent"]
  /\ listed = {}
  /\ request = [s \in Sources |-> "none"]
  /\ permits = MaxConcurrent
  /\ loop = "recover"
  /\ stop = FALSE
  /\ task = [t \in Tasks |-> NoTask]
  /\ call = [c \in Callers |-> NoCall]
  /\ surplus = 0
  /\ faults = 0
  /\ restarts = 0

LoopStep == Recover \/ Acquire \/ Claim \/ ClaimNothing \/ Wait \/ Drain

Next ==
  \/ LoopStep \/ RecoverRaises \/ ClaimRaises
  \/ \E t \in Tasks : TaskStep(t) \/ TaskRaises(t)
  \/ \E c \in Callers :
       \/ CallStep(c) \/ CallRaises(c)
       \/ \E s \in Sources : SubmitSource(c, s) \/ SelectRead(c, s) \/ CancelRead(c, s)
  \/ Stop \/ Restart

Spec == Init /\ [][Next]_vars

\* The event loop runs every coroutine that is ready, every container ends, and
\* a deployment that has drained is started again (restart: unless-stopped).
Fairness ==
  /\ WF_vars(LoopStep)
  /\ \A t \in Tasks : WF_vars(TaskStep(t))
  /\ \A c \in Callers : WF_vars(CallStep(c))
  /\ WF_vars(loop = "stopped" /\ Restart)

FairSpec == Spec /\ Fairness

-----------------------------------------------------------------------------
(* Correctness.                                                            *)

Holding == IF loop = "claim" THEN 1 ELSE 0

\* Every permit of the semaphore is free, held by the loop around a claim, or
\* held by exactly one task, whatever raises and wherever; the only permits
\* that appear from nowhere are the second releases after a failed claim.
PermitLedger == permits + Holding + Cardinality(LiveTasks) = MaxConcurrent + surplus

\* Two tasks never run the same job: mark_job_processing, mark_job_done and
\* mark_job_failed are unconditional UPDATEs and rely on it.
ExclusiveRun ==
  \A t, u \in Tasks : Live(t) /\ Live(u) /\ JobOf(t) = JobOf(u) => t = u

\* A task that has not written the outcome of its job yet.
Working(t) == task[t].pc \notin {"none", "release"} \cup PropagatePC

\* As long as nothing raised, a row leaves "claimed" or "processing" for an
\* outcome: once the loop has recovered, each such row has a task working on it.
\* So the drain of a graceful stop leaves nothing for the next start to requeue.
NoOrphan ==
  faults = 0 /\ loop # "recover" =>
    \A j \in JobIds : job[j].status \in Active =>
      \E t \in Tasks : Working(t) /\ JobOf(t) = j

\* An outcome is final: neither a restart, nor a cancellation, nor another task
\* ever touches a job that is done or failed.
OutcomeFinal ==
  [][\A j \in JobIds : job[j].status \in {"done", "failed"} => job'[j] = job[j]]_vars

\* Every enqueued job ends, through crashes and redeployments, when no round
\* trip raises.
JobsSettle ==
  \A j \in JobIds :
    job[j].status = "pending" ~> job[j].status \in {"done", "failed", "cancelled"}

\* A request whose discover job exists does not stay "discovering": the
\* discovery, its failure or a cancellation moves it, unless the process dies
\* in between (see FailedDiscoveryReported).
DiscoveryAnswered ==
  \A s \in Sources :
    (request[s] = "discovering" /\ \E j \in JobIds : job[j].source = s /\ job[j].status # "absent")
      ~> (request[s] # "discovering" \/ restarts > 0)

-----------------------------------------------------------------------------
(* What the documentation says and the code does not do.                   *)

\* "Cap simultane : settings.max_concurrent_scrapers via asyncio.Semaphore":
\* at most max_concurrent_scrapers jobs run at once.
CapRespected == Cardinality(LiveTasks) <= MaxConcurrent

\* "Ne pas defaire l'annulation en repassant la requete discovered/acquiring":
\* a discovery that ends after a cancellation leaves the request cancelled.
CancellationSticks ==
  [][\A s \in Sources : request[s] = "cancelled" =>
       request'[s] \notin {"discovered", "acquiring"}]_vars

\* "Un job discover echoue doit sortir la requete de discovering": once no task
\* works on a failed discover job any more, its request has left "discovering".
FailedDiscoveryReported ==
  \A j \in JobIds :
    job[j].status = "failed" /\ job[j].command = "discover"
      /\ (\A t \in Tasks : Live(t) => JobOf(t) # j)
    => request[job[j].source] # "discovering"

-----------------------------------------------------------------------------
(* What the service promises to those who enqueue, see JobBoard.           *)

BoardState(j) ==
  IF job[j].status = "absent" THEN "absent"
  ELSE IF \E t \in Tasks : Working(t) /\ JobOf(t) = j THEN "running"
  ELSE IF job[j].status \in Active \cup {"pending"} THEN "waiting"
  ELSE "settled"

Board == INSTANCE JobBoard WITH
  Jobs <- JobIds,
  Cap <- MaxConcurrent + MaxFaults,
  state <- [j \in JobIds |-> BoardState(j)]

\* The orchestrator implements the board: a job settles once and for all, is
\* never lost, and the number of running jobs is bounded.
BoardSpec == Board!Spec

=============================================================================
