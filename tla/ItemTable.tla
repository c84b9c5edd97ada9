------------------------------ MODULE ItemTable ------------------------------
(***************************************************************************)
(* The tables a request lives in: its source_items, the                    *)
(* transcription_jobs of those items, and the status of the request.  Each *)
(* operator is one SQL statement of db_helpers (the whole effect of one    *)
(* round trip); the pipelines of the uploaded and of the scraped items     *)
(* share them.                                                             *)
(***************************************************************************)
EXTENDS Naturals, FiniteSets

CONSTANTS
  Items,     \* the slots the request may ever have
  Videos,    \* those whose media type is a video
  MaxJobs,   \* bound: rows ever inserted in transcription_jobs
  MaxFaults  \* bound: exceptions raised by a round trip, deaths of a container

ASSUME ItemAssumption ==
  /\ Items # {}
  /\ Videos \subseteq Items
  /\ MaxJobs \in Nat
  /\ MaxFaults \in Nat

VARIABLES
  item,        \* source_items.status; "none" before the insert
  transcript,  \* the items whose transcript_s3_key is set
  tjob,        \* transcription_jobs: [status, item] of each row
  request,     \* acquisition_requests.status
  entries,     \* ghost: how often each item was made ready for the deposit
  faults       \* number of exceptions and deaths so far

tables == <<item, transcript, tjob, request, entries>>

JobIds == 1 .. MaxJobs
ItemStatus == {"none", "awaiting_upload", "pending_extraction", "extracting_audio", "audio_ready",
               "pending_download", "queued_transcription", "transcribed", "depositing", "deposited", "failed", "deleted"}
JobStatus == {"absent", "pending", "claimed", "done", "failed", "cancelled", "deleted"}
RequestStatus == {"open_for_upload", "discovering", "discovered", "acquiring", "cancelled"}

AnyItem == CHOOSE i \in Items : TRUE

Present(i) == item[i] \notin {"none", "deleted"}
Row(j) == tjob[j].status \notin {"absent", "deleted"}
JobsOf(i) == {j \in JobIds : Row(j) /\ tjob[j].item = i}
Running(i) == {j \in JobsOf(i) : tjob[j].status \in {"pending", "claimed"}}

TablesTyped ==
  /\ item \in [Items -> ItemStatus]
  /\ transcript \in SUBSET Items
  /\ tjob \in [JobIds -> [status : JobStatus, item : Items]]
  /\ request \in RequestStatus
  /\ entries \in [Items -> Nat]
  /\ faults \in 0 .. MaxFaults

TablesInit ==
  /\ item = [i \in Items |-> "none"]
  /\ transcript = {}
  /\ tjob = [j \in JobIds |-> [status |-> "absent", item |-> AnyItem]]
  /\ request = "open_for_upload"
  /\ entries = [i \in Items |-> 0]
  /\ faults = 0

\* An exception where the code has a place for it; what it interrupts has had
\* no effect.
Fault == faults < MaxFaults /\ faults' = faults + 1

-----------------------------------------------------------------------------
(* source_items.                                                           *)

\* UPDATE ... WHERE id: a row that is gone stays gone.
Update(i, st) == item' = IF Present(i) THEN [item EXCEPT ![i] = st] ELSE item

\* The conditional UPDATE of claim_finalize_slot leaves no row to the second.
CanFinalize(i) == item[i] = "awaiting_upload"

\* An UPDATE that sets "transcribed" makes the item ready for the deposit.
Ready(i) ==
  /\ Update(i, "transcribed")
  /\ entries' = IF Present(i) THEN [entries EXCEPT ![i] = @ + 1] ELSE entries

\* requeue_stale_extracting.
RequeueExtracting ==
  item' = [i \in Items |-> IF item[i] = "extracting_audio" THEN "pending_extraction" ELSE item[i]]

\* requeue_stale_depositing.
RequeueDepositing ==
  /\ item' = [i \in Items |-> IF item[i] = "depositing" THEN "transcribed" ELSE item[i]]
  /\ entries' = [i \in Items |-> IF item[i] = "depositing" THEN entries[i] + 1 ELSE entries[i]]

\* delete_item; the jobs of the row go with it (ON DELETE CASCADE).
DeleteItem(i) ==
  /\ Update(i, "deleted")
  /\ tjob' = [j \in JobIds |->
                IF j \in JobsOf(i) THEN [tjob[j] EXCEPT !.status = "deleted"] ELSE tjob[j]]

-----------------------------------------------------------------------------
(* transcription_jobs.                                                     *)

\* insert_job; the foreign key needs the item.
InsertJob(i) ==
  /\ Present(i)
  /\ \E j \in JobIds :
       /\ tjob[j].status = "absent"
       /\ \A k \in 1 .. (j - 1) : tjob[k].status # "absent"
       /\ tjob' = [tjob EXCEPT ![j] = [status |-> "pending", item |-> i]]

\* has_job_for_item: any row that is not cancelled, whatever became of it.
HasJob(i) == \E j \in JobsOf(i) : tjob[j].status # "cancelled"

\* mark_job_done, mark_job_failed and the UPDATE of the claim.
SetJob(j, st) == tjob' = IF Row(j) THEN [tjob EXCEPT ![j].status = st] ELSE tjob

\* cancel_pending_claimed: one UPDATE over the rows of the source.
CancelRows ==
  tjob' = [j \in JobIds |->
             IF tjob[j].status \in {"pending", "claimed"}
             THEN [tjob[j] EXCEPT !.status = "cancelled"] ELSE tjob[j]]

\* Faulty: an item that was given a second job is never looked at again.
DeadUnlessRetried(i) ==
  /\ item[i] = "queued_transcription"
  /\ \E j \in JobsOf(i) : tjob[j].status = "failed"
  /\ Cardinality(JobsOf(i)) = 1

\* fail_items_with_dead_transcription_jobs: a job has failed, none is alive.
Dead(i) ==
  /\ item[i] = "queued_transcription"
  /\ \E j \in JobsOf(i) : tjob[j].status = "failed"
  /\ Running(i) = {}

FailDeadItems == item' = [i \in Items |-> IF Dead(i) THEN "failed" ELSE item[i]]

-----------------------------------------------------------------------------
(* enter_transcription_pipeline, common to finalize_upload and to the      *)
(* extraction worker: the statement executed at pc, and the pc after it.   *)

EntryPC == {"ready", "check", "insert", "queue"}

\* Faulty: an item that has a job is taken for one that is in the queue.
EnterOnce(i, pc, next) ==
  \/ /\ pc = "ready" /\ next = "check"
     /\ Update(i, "audio_ready")
     /\ UNCHANGED <<transcript, tjob, request, entries>>
  \/ /\ pc = "check" /\ next = (IF HasJob(i) THEN "entered" ELSE "insert")
     /\ UNCHANGED tables
  \/ /\ pc = "insert" /\ next = "queue"
     /\ InsertJob(i)
     /\ UNCHANGED <<item, transcript, request, entries>>
  \/ /\ pc = "queue" /\ next = "entered"
     /\ Update(i, "queued_transcription")
     /\ UNCHANGED <<transcript, tjob, request, entries>>

Enter(i, pc, next) ==
  \/ /\ pc = "ready" /\ next = "check"
     /\ Update(i, "audio_ready")
     /\ UNCHANGED <<transcript, tjob, request, entries>>
  \/ /\ pc = "check" /\ next = (IF HasJob(i) THEN "queue" ELSE "insert")
     /\ UNCHANGED tables
  \/ /\ pc = "insert" /\ next = "queue"
     /\ InsertJob(i)
     /\ UNCHANGED <<item, transcript, request, entries>>
  \/ /\ pc = "queue" /\ next = "entered"
     /\ Update(i, "queued_transcription")
     /\ UNCHANGED <<transcript, tjob, request, entries>>

\* The insert of a job for an item that has been deleted violates the key.
EntryRefused(i, pc) == pc = "insert" /\ ~Present(i)

=============================================================================
