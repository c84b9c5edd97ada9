-------------------------- MODULE ScrapedDownloads --------------------------
(***************************************************************************)
(* The download jobs of a scraped request and the tasks of the             *)
(* orchestrator that run them: one container per job, whose item_done or   *)
(* item_failed is handled while the container runs.  The discover jobs and *)
(* the loop itself are in ScrapeOrchestrator.                              *)
(***************************************************************************)
EXTENDS ItemTable

CONSTANTS
  Runs,         \* concurrent tasks (max_concurrent_scrapers)
  MaxDownloads  \* bound: download jobs ever inserted

ASSUME DownloadAssumption == MaxDownloads \in Nat

VARIABLES
  djob,       \* scraping_jobs of command "download": [status, item]
  recovered,  \* the orchestrator has passed its recovery
  run,        \* the tasks of the orchestrator
  lost,       \* ghost: items whose download was given up without a word
  raced,      \* ghost: items two callers or two downloads have worked on at once
  overtaken   \* ghost: items whose job was over before they were written queued

downloads == <<djob, recovered, run, lost, raced, overtaken>>

DownloadIds == 1 .. MaxDownloads
\* "over" is done, failed or cancelled: nothing tells them apart.
DownloadStatus == {"absent", "pending", "claimed", "processing", "over"}
RunPC == {"idle", "start", "container", "insert", "queue", "fail_item", "finish"}
Resting == [pc |-> "idle", job |-> 0, item |-> AnyItem]

DownloadsTyped ==
  /\ djob \in [DownloadIds -> [status : DownloadStatus, item : Items]]
  /\ recovered \in BOOLEAN
  /\ run \in [Runs -> [pc : RunPC, job : DownloadIds \cup {0}, item : Items]]
  /\ lost \in SUBSET Items /\ raced \in SUBSET Items /\ overtaken \in SUBSET Items
  \* A job is run by one task.
  /\ \A r, s \in Runs : run[r].pc # "idle" /\ run[r].job = run[s].job => r = s

DownloadsInit ==
  /\ djob = [j \in DownloadIds |-> [status |-> "absent", item |-> AnyItem]]
  /\ recovered = FALSE
  /\ run = [r \in Runs |-> Resting]
  /\ lost = {} /\ raced = {} /\ overtaken = {}

-----------------------------------------------------------------------------
(* scraping_jobs, one operator per statement.                              *)

\* get_active_job_for_item.
Active(i) == \E j \in DownloadIds : djob[j].item = i /\ djob[j].status \in {"pending", "claimed", "processing"}

\* insert_job, whatever the other rows of the item.
InsertDownload(i) ==
  \E j \in DownloadIds :
    /\ djob[j].status = "absent"
    /\ \A k \in 1 .. (j - 1) : djob[k].status # "absent"
    /\ djob' = [djob EXCEPT ![j] = [status |-> "pending", item |-> i]]

\* claim_next_pending_job: the oldest pending row.
NextDownload(j) == djob[j].status = "pending" /\ \A k \in 1 .. (j - 1) : djob[k].status # "pending"

\* mark_job_processing, mark_job_done, mark_job_failed, whatever the row is now.
SetDownload(j, st) == djob' = [djob EXCEPT ![j].status = st]

\* The rows in one of the given statuses, and their items.
RowsIn(statuses) == {j \in DownloadIds : djob[j].status \in statuses}
ItemsIn(statuses) == {djob[j].item : j \in RowsIn(statuses)}

\* cancel_pending_claimed and requeue_stale_jobs.
SetDownloads(from, to) ==
  djob' = [j \in DownloadIds |-> IF j \in RowsIn(from) THEN [djob[j] EXCEPT !.status = to] ELSE djob[j]]

-----------------------------------------------------------------------------
(* The recovery of run_loop.                                               *)

RecoverDownloads ==
  /\ ~recovered
  /\ SetDownloads({"claimed", "processing"}, "pending")
  /\ raced' = raced \cup ItemsIn({"claimed", "processing"})
  /\ recovered' = TRUE
  /\ UNCHANGED <<tables, faults, run, lost, overtaken>>

\* The exception of the recovery is logged, the loop starts all the same.
RecoverDownloadsRaises ==
  /\ ~recovered
  /\ Fault
  /\ recovered' = TRUE
  /\ UNCHANGED <<tables, djob, run, lost, raced, overtaken>>

-----------------------------------------------------------------------------
(* process_one_job of a download.                                          *)

RunAt(r, pc) == run[r].pc = pc
RunGoto(r, pc) == run' = [run EXCEPT ![r].pc = pc]
RunItem(r) == run[r].item
RunRests(r) == run' = [run EXCEPT ![r] = Resting]

\* Faulty: the row is read and not written.
RunClaimReads(r) ==
  /\ recovered
  /\ RunAt(r, "idle")
  /\ \E j \in DownloadIds :
       /\ NextDownload(j)
       /\ run' = [run EXCEPT ![r] = [pc |-> "start", job |-> j, item |-> djob[j].item]]
  /\ UNCHANGED <<tables, faults, djob, recovered, lost, raced, overtaken>>

RunClaim(r) ==
  /\ recovered
  /\ RunAt(r, "idle")
  /\ \E j \in DownloadIds :
       /\ NextDownload(j)
       /\ SetDownload(j, "claimed")
       /\ run' = [run EXCEPT ![r] = [pc |-> "start", job |-> j, item |-> djob[j].item]]
  /\ UNCHANGED <<tables, faults, recovered, lost, raced, overtaken>>

RunStart(r) ==
  /\ RunAt(r, "start")
  /\ SetDownload(run[r].job, "processing")
  /\ RunGoto(r, "container")
  /\ UNCHANGED <<tables, faults, recovered, lost, raced, overtaken>>

\* Faulty: an item_done without audio is queued like another.
RunEventWithoutAudio(r) ==
  /\ RunAt(r, "container")
  /\ \E pc \in {"insert", "queue", "fail_item"} : RunGoto(r, pc)
  /\ UNCHANGED <<tables, faults, djob, recovered, lost, raced, overtaken>>

\* The container tells of its item (item_done, item_failed, item_done without
\* audio) or ends without a word, as it does when its payload names no item
\* (BUG-01); its exit status does not matter to the item.
RunEvent(r) ==
  /\ RunAt(r, "container")
  /\ \E pc \in {"insert", "fail_item", "finish"} :
       /\ RunGoto(r, pc)
       /\ lost' = IF pc = "finish" THEN lost \cup {RunItem(r)} ELSE lost
  /\ UNCHANGED <<tables, faults, djob, recovered, raced, overtaken>>

\* item_done: a job for the worker, whatever jobs the item has had,
RunInsertJob(r) ==
  /\ RunAt(r, "insert")
  /\ InsertJob(RunItem(r))
  /\ RunGoto(r, "queue")
  /\ UNCHANGED <<item, transcript, request, entries, faults, djob, recovered, lost, raced, overtaken>>

\* A job that may still answer for the item, or has failed and lets it fail.
Served(i) == Running(i) # {} \/ \E j \in JobsOf(i) : tjob[j].status = "failed"

\* then the item, whatever has become of it and of its job in between.
RunQueue(r) ==
  /\ RunAt(r, "queue")
  /\ Update(RunItem(r), "queued_transcription")
  /\ overtaken' = IF JobsOf(RunItem(r)) # {} /\ Running(RunItem(r)) = {} THEN overtaken \cup {RunItem(r)} ELSE overtaken
  /\ RunGoto(r, "finish")
  /\ UNCHANGED <<transcript, tjob, request, entries, faults, djob, recovered, lost, raced>>

RunFailItem(r) ==
  /\ RunAt(r, "fail_item")
  /\ Update(RunItem(r), "failed")
  /\ RunGoto(r, "finish")
  /\ UNCHANGED <<transcript, tjob, request, entries, faults, djob, recovered, lost, raced, overtaken>>

RunFinish(r) ==
  /\ RunAt(r, "finish")
  /\ SetDownload(run[r].job, "over")
  /\ RunRests(r)
  /\ UNCHANGED <<tables, faults, recovered, lost, raced, overtaken>>

\* An exception while the events are handled fails the job; before (up to the
\* environment of the container) and after, it is only logged and the row stays
\* as it is until the next restart.  An item whose job is inserted and that is
\* not written can be downloaded again.
RunRaises(r) ==
  /\ ~RunAt(r, "idle")
  /\ Fault
  /\ \/ run[r].pc \in {"start", "container", "finish"} /\ RunRests(r)
     \/ run[r].pc \in {"container", "insert", "queue", "fail_item"} /\ RunGoto(r, "finish")
  /\ lost' = lost \cup {RunItem(r)}
  /\ raced' = IF RunAt(r, "queue") THEN raced \cup {RunItem(r)} ELSE raced
  /\ UNCHANGED <<tables, djob, recovered, overtaken>>

DownloadsNext ==
  \/ RecoverDownloads \/ RecoverDownloadsRaises
  \/ \E r \in Runs :
       \/ RunClaim(r) \/ RunStart(r) \/ RunEvent(r) \/ RunInsertJob(r) \/ RunQueue(r)
       \/ RunFailItem(r) \/ RunFinish(r) \/ RunRaises(r)

=============================================================================
