--------------------------- MODULE UploadPipeline ---------------------------
(***************************************************************************)
(* An upload request from its slots to the documents in docflow: the       *)
(* composition of the intake, the transcription and the deposit with the   *)
(* administration of the request (cancel_request, retry_failed,            *)
(* close_upload_request) and the restarts of the backend.  The components  *)
(* share nothing but the tables.                                           *)
(***************************************************************************)
EXTENDS UploadIntake, Transcription, Deposit

CONSTANTS
  Admins,      \* coroutines that serve the administration calls
  MaxRetries,  \* bound: calls of retry_failed
  MaxRestarts  \* bound: crashes and redeployments of the backend

ASSUME PipelineAssumption == MaxRetries \in Nat /\ MaxRestarts \in Nat

VARIABLES
  admin,     \* the administration calls in progress
  touched,   \* ghost: items that a retry requeued or whose job was cancelled
  retries,   \* number of calls of retry_failed so far
  restarts   \* number of restarts so far

vars == <<tables, faults, intake, worker, depositor, docs, admin, touched, retries, restarts>>

AdminPC == {"idle", "retry", "retry_insert", "retry_queue", "cancel_jobs", "cancel_status", "close"}
NoCall == [pc |-> "idle", todo |-> {}, scripted |-> {}, item |-> AnyItem]

TypeOK ==
  /\ TablesTyped
  /\ IntakeTyped
  /\ WorkersTyped
  /\ DepositTyped
  /\ admin \in [Admins -> [pc : AdminPC, todo : SUBSET Items, scripted : SUBSET Items, item : Items]]
  /\ touched \in SUBSET Items
  /\ retries \in 0 .. MaxRetries
  /\ restarts \in 0 .. MaxRestarts

OutsideAdmin == <<intake, worker, depositor, docs, restarts>>

-----------------------------------------------------------------------------
(* retry_failed.                                                           *)

AdminAt(a, pc) == admin[a].pc = pc
AdminGoto(a, pc) == admin' = [admin EXCEPT ![a].pc = pc]

\* The request, then the failed rows; the caller may name some of them.
RetryRead(a) ==
  /\ AdminAt(a, "idle")
  /\ retries < MaxRetries
  /\ request # "cancelled"
  /\ \E rows \in SUBSET {i \in Items : item[i] = "failed"} :
       /\ rows # {}
       /\ admin' = [admin EXCEPT ![a] = [pc |-> "retry", todo |-> rows,
                                         scripted |-> rows \cap transcript, item |-> AnyItem]]
  /\ retries' = retries + 1
  /\ UNCHANGED <<tables, faults, touched, OutsideAdmin>>

\* The rows read are handled one by one, as they were when they were read.
Handling(a, i) == AdminAt(a, "retry") /\ i \in admin[a].todo

\* reset_failed_deposit: the transcript is there, only the deposit is done again.
RetryDeposit(a, i) ==
  /\ Handling(a, i)
  /\ i \in admin[a].scripted
  /\ Ready(i)
  /\ touched' = touched \cup {i}
  /\ admin' = [admin EXCEPT ![a].todo = @ \ {i}]
  /\ UNCHANGED <<transcript, tjob, request, faults, retries, OutsideAdmin>>

RetryVideo(a, i) ==
  /\ Handling(a, i)
  /\ i \in Videos \ admin[a].scripted
  /\ Update(i, "pending_extraction")
  /\ touched' = touched \cup {i}
  /\ admin' = [admin EXCEPT ![a].todo = @ \ {i}]
  /\ UNCHANGED <<transcript, tjob, request, entries, faults, retries, OutsideAdmin>>

\* An audio file: audio_ready, a new job, queued_transcription.
RetryAudio(a, i) ==
  /\ Handling(a, i)
  /\ i \notin Videos \cup admin[a].scripted
  /\ Update(i, "audio_ready")
  /\ touched' = touched \cup {i}
  /\ admin' = [admin EXCEPT ![a] = [pc |-> "retry_insert", todo |-> @.todo \ {i},
                                     scripted |-> @.scripted, item |-> i]]
  /\ UNCHANGED <<transcript, tjob, request, entries, faults, retries, OutsideAdmin>>

RetryInsert(a) ==
  /\ AdminAt(a, "retry_insert")
  /\ InsertJob(admin[a].item)
  /\ AdminGoto(a, "retry_queue")
  /\ UNCHANGED <<item, transcript, request, entries, faults, touched, retries, OutsideAdmin>>

\* The item has been deleted since: the exception ends the call.
RetryRefused(a) ==
  /\ AdminAt(a, "retry_insert")
  /\ ~Present(admin[a].item)
  /\ admin' = [admin EXCEPT ![a] = NoCall]
  /\ UNCHANGED <<tables, faults, touched, retries, OutsideAdmin>>

RetryQueue(a) ==
  /\ AdminAt(a, "retry_queue")
  /\ Update(admin[a].item, "queued_transcription")
  /\ AdminGoto(a, "retry")
  /\ UNCHANGED <<transcript, tjob, request, entries, faults, touched, retries, OutsideAdmin>>

RetryEnds(a) ==
  /\ AdminAt(a, "retry")
  /\ admin[a].todo = {}
  /\ admin' = [admin EXCEPT ![a] = NoCall]
  /\ UNCHANGED <<tables, faults, touched, retries, OutsideAdmin>>

-----------------------------------------------------------------------------
(* cancel_request and close_upload_request.                                *)

CancelRead(a) ==
  /\ AdminAt(a, "idle")
  /\ request # "cancelled"
  /\ AdminGoto(a, "cancel_jobs")
  /\ UNCHANGED <<tables, faults, touched, retries, OutsideAdmin>>

CancelJobs(a) ==
  /\ AdminAt(a, "cancel_jobs")
  /\ CancelRows
  /\ touched' = touched \cup {i \in Items : Running(i) # {}}
  /\ AdminGoto(a, "cancel_status")
  /\ UNCHANGED <<item, transcript, request, entries, faults, retries, OutsideAdmin>>

CancelStatus(a) ==
  /\ AdminAt(a, "cancel_status")
  /\ request' = "cancelled"
  /\ AdminGoto(a, "idle")
  /\ UNCHANGED <<item, transcript, tjob, entries, faults, touched, retries, OutsideAdmin>>

CloseRead(a) ==
  /\ AdminAt(a, "idle")
  /\ request = "open_for_upload"
  /\ AdminGoto(a, "close")
  /\ UNCHANGED <<tables, faults, touched, retries, OutsideAdmin>>

\* The status is written whatever it has become since it was read.
CloseWrite(a) ==
  /\ AdminAt(a, "close")
  /\ request' = "acquiring"
  /\ AdminGoto(a, "idle")
  /\ UNCHANGED <<item, transcript, tjob, entries, faults, touched, retries, OutsideAdmin>>

AdminRaises(a) ==
  /\ ~AdminAt(a, "idle")
  /\ Fault
  /\ admin' = [admin EXCEPT ![a] = NoCall]
  /\ UNCHANGED <<tables, touched, retries, OutsideAdmin>>

AdminStep(a) ==
  \/ RetryInsert(a) \/ RetryRefused(a) \/ RetryQueue(a) \/ RetryEnds(a)
  \/ CancelJobs(a) \/ CancelStatus(a) \/ CloseWrite(a)
  \/ \E i \in Items : RetryDeposit(a, i) \/ RetryVideo(a, i) \/ RetryAudio(a, i)

AdminNext ==
  \E a \in Admins :
    AdminStep(a) \/ AdminRaises(a) \/ RetryRead(a) \/ CancelRead(a) \/ CloseRead(a)

-----------------------------------------------------------------------------
(* The process.  Its coroutines are lost, the tables, the objects and the  *)
(* worker containers stay.                                                 *)

Restart ==
  /\ restarts < MaxRestarts
  /\ restarts' = restarts + 1
  /\ upload' = [u \in Uploaders |-> NoUpload]
  /\ sweep' = NoSweep
  /\ extractor' = FreshExtractor
  /\ depositor' = FreshDepositor
  /\ admin' = [a \in Admins |-> NoCall]
  /\ UNCHANGED <<tables, faults, raw, expired, worker, docs, touched, retries>>

Init ==
  /\ TablesInit
  /\ IntakeInit
  /\ WorkersInit
  /\ DepositInit
  /\ admin = [a \in Admins |-> NoCall]
  /\ touched = {}
  /\ retries = 0
  /\ restarts = 0

Others == <<admin, touched, retries, restarts>>

InIntake(A) == A /\ UNCHANGED <<worker, depositor, docs, Others>>
InTranscription(A) == A /\ UNCHANGED <<intake, depositor, docs, Others>>
InDeposit(A) == A /\ UNCHANGED <<intake, worker, Others>>

Next ==
  \/ InIntake(IntakeNext)
  \/ InTranscription(TranscriptionNext)
  \/ InDeposit(DepositNext)
  \/ AdminNext
  \/ Restart

Spec == Init /\ [][Next]_vars

\* The event loop runs every coroutine that is ready, the scheduler runs its
\* jobs, every container works on what it has claimed.
Fairness ==
  /\ \A u \in Uploaders : WF_vars(InIntake(UploadStep(u)))
  /\ WF_vars(InIntake(SweepStep))
  /\ WF_vars(InIntake(ExtractStep))
  /\ \A w \in Workers : WF_vars(InTranscription(WorkerStep(w)))
  /\ WF_vars(InTranscription(Reconcile))
  /\ WF_vars(InDeposit(DepositStep))
  /\ \A a \in Admins : WF_vars(AdminStep(a))

FairSpec == Spec /\ Fairness

-----------------------------------------------------------------------------
(* Correctness.                                                            *)

\* An audio file that is ready and not queued is in the hands of whoever made it
\* ready: only an exception or a restart in between leaves it behind, where no
\* worker and no retry looks for it.
AudioOwned ==
  (faults = 0 /\ restarts = 0) =>
    \A i \in Items : item[i] = "audio_ready" =>
      \/ \E u \in Uploaders : upload[u].pc \in EntryPC /\ UploadItem(u) = i
      \/ extractor.pc \in EntryPC /\ extractor.item = i
      \/ \E a \in Admins : admin[a].pc \in {"retry_insert", "retry_queue"} /\ admin[a].item = i

\* Whatever the calls and the cleanup remove, and however long they take, it is
\* a slot that had expired.
DeletedExpired == \A i \in Items : item[i] = "deleted" => i \in expired

\* However many calls of finalize_upload, crashes and new extractions, an
\* upload is transcribed once, until a retry or a cancellation changes that.
OneTranscription ==
  \A i \in Items \ touched : Cardinality(JobsOf(i)) <= 1

\* A crash of the extraction finds the raw video when it starts again: it is
\* removed only once the item has its job and has left the extraction.
RawKept ==
  \A i \in Videos \ (touched \cup expired) :
    item[i] \in {"pending_extraction", "extracting_audio"} => i \in raw

\* The deposit worker gets every transcribed item over with, one way or the
\* other, through restarts, unless the request is cancelled.
TranscribedSettles ==
  \A i \in Items :
    item[i] = "transcribed" ~>
      (item[i] \notin {"transcribed", "depositing"} \/ request = "cancelled")

\* A queued item whose job is alive gets an answer: its transcript, or
\* "failed" through the reconciliation, which the worker does not write itself;
\* a cancellation that took the job is the exception.
TranscriptionAnswered ==
  \A i \in Items :
    (item[i] = "queued_transcription" /\ Running(i) # {}) ~>
      (item[i] # "queued_transcription" \/ \E j \in JobsOf(i) : tjob[j].status = "cancelled")

\* An expired slot does not wait for ever: a call that was in time takes it, or
\* the cleanup removes it, through restarts that interrupt either.
SlotsEnd ==
  \A i \in Items : (item[i] = "awaiting_upload" /\ i \in expired) ~> item[i] # "awaiting_upload"

-----------------------------------------------------------------------------
(* What the documentation says and the code does not do.                   *)

\* delete_item is "jamais utilise sur un item entre en pipeline": only a slot
\* that awaits its upload is ever deleted.
PipelineRowKept ==
  [][\A i \in Items : item'[i] = "deleted" => item[i] \in {"awaiting_upload", "deleted"}]_vars

\* "extracting_audio (claim) -> audio_ready/queued_transcription (succes) ou
\* failed": an extraction ends.
ExtractionEnds ==
  \A i \in Items : item[i] = "extracting_audio" ~> item[i] # "extracting_audio"

=============================================================================
