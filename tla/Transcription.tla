---------------------------- MODULE Transcription ----------------------------
(***************************************************************************)
(* The transcription workers: containers that claim the jobs of the shared *)
(* pool, and the periodic reconciliation of the backend, which fails the   *)
(* items whose jobs are all over and failed.  A worker outlives a restart  *)
(* of the backend.                                                         *)
(***************************************************************************)
EXTENDS ItemTable

CONSTANT Workers  \* worker containers of the pool shared_default

ASSUME WorkersAssumption == IsFiniteSet(Workers)

VARIABLE worker   \* what each container is doing

WorkerPC == {"idle", "transcribe", "mark_done", "mark_item", "mark_failed"}

WorkersTyped == worker \in [Workers -> [pc : WorkerPC, job : JobIds \cup {0}, item : Items]]

NoWork == [pc |-> "idle", job |-> 0, item |-> AnyItem]
WorkersInit == worker = [w \in Workers |-> NoWork]

WorkerAt(w, pc) == worker[w].pc = pc
WorkerGoto(w, pc) == worker' = [worker EXCEPT ![w].pc = pc]
WorkerRests(w) == worker' = [worker EXCEPT ![w] = NoWork]

-----------------------------------------------------------------------------
\* Faulty: the row is read and not written.
WorkerClaimReads(w) ==
  /\ WorkerAt(w, "idle")
  /\ \E j \in JobIds :
       /\ tjob[j].status = "pending"
       /\ \A k \in 1 .. (j - 1) : tjob[k].status # "pending"
       /\ worker' = [worker EXCEPT ![w] = [pc |-> "transcribe", job |-> j, item |-> tjob[j].item]]
  /\ UNCHANGED <<tables, faults>>

\* claim_next_job: the oldest pending row; the worker keeps what it has read.
WorkerClaim(w) ==
  /\ WorkerAt(w, "idle")
  /\ \E j \in JobIds :
       /\ tjob[j].status = "pending"
       /\ \A k \in 1 .. (j - 1) : tjob[k].status # "pending"
       /\ SetJob(j, "claimed")
       /\ worker' = [worker EXCEPT ![w] = [pc |-> "transcribe", job |-> j, item |-> tjob[j].item]]
  /\ UNCHANGED <<item, transcript, request, entries, faults>>

\* The download, the provider and the upload of the transcript succeed or not.
WorkerTranscribes(w) ==
  /\ WorkerAt(w, "transcribe")
  /\ \E pc \in {"mark_done", "mark_failed"} : WorkerGoto(w, pc)
  /\ UNCHANGED <<tables, faults>>

WorkerMarksDone(w) ==
  /\ WorkerAt(w, "mark_done")
  /\ SetJob(worker[w].job, "done")
  /\ WorkerGoto(w, "mark_item")
  /\ UNCHANGED <<item, transcript, request, entries, faults>>

\* update_source_item_to_transcribed, whatever the status of the item.
WorkerMarksItem(w) ==
  /\ WorkerAt(w, "mark_item")
  /\ Ready(worker[w].item)
  /\ transcript' = IF Present(worker[w].item) THEN transcript \cup {worker[w].item} ELSE transcript
  /\ WorkerRests(w)
  /\ UNCHANGED <<tjob, request, faults>>

\* Faulty: the failure is logged and not written.
WorkerForgets(w) ==
  /\ WorkerAt(w, "mark_failed")
  /\ WorkerRests(w)
  /\ UNCHANGED <<tables, faults>>

WorkerMarksFailed(w) ==
  /\ WorkerAt(w, "mark_failed")
  /\ SetJob(worker[w].job, "failed")
  /\ WorkerRests(w)
  /\ UNCHANGED <<item, transcript, request, entries, faults>>

\* An exception of process_job goes to handle_error, even once the job is done.
WorkerRaises(w) ==
  /\ worker[w].pc \in {"mark_done", "mark_item"}
  /\ Fault
  /\ WorkerGoto(w, "mark_failed")
  /\ UNCHANGED tables

\* An exception of handle_error or of update_worker_status ends the process,
\* and a container may die; the job it had claimed stays claimed.
WorkerDies(w) ==
  /\ ~WorkerAt(w, "idle")
  /\ Fault
  /\ WorkerRests(w)
  /\ UNCHANGED tables

\* _reconcile_dead_transcriptions, every few minutes.
Reconcile ==
  /\ FailDeadItems
  /\ UNCHANGED <<transcript, tjob, request, entries, worker, faults>>

WorkerStep(w) ==
  WorkerClaim(w) \/ WorkerTranscribes(w) \/ WorkerMarksDone(w) \/ WorkerMarksItem(w) \/ WorkerMarksFailed(w)

TranscriptionNext ==
  \/ \E w \in Workers : WorkerStep(w) \/ WorkerRaises(w) \/ WorkerDies(w)
  \/ Reconcile

-----------------------------------------------------------------------------
(* Correctness: what the pool promises to those who insert a job.          *)

Holders(j) == {w \in Workers : ~WorkerAt(w, "idle") /\ worker[w].job = j}
Held(j) == Holders(j) # {}

\* A claimed job is in the hands of a worker as long as nothing raised and no
\* container died: no cancellation, deletion or restart of the backend leaves it
\* behind, so nothing but a death calls for a requeue, which the code does not do.
ClaimsHeld ==
  faults = 0 => \A j \in JobIds : tjob[j].status = "claimed" => Held(j)

\* The stage of a job on the board of JobBoard, whatever a cancellation or the
\* deletion of its item writes to its row while a worker holds it; a job in the
\* hands of two workers has none.
Stage(j) ==
  IF Held(j) THEN IF \A v, w \in Holders(j) : v = w THEN "running" ELSE "shared"
  ELSE CASE tjob[j].status = "absent" -> "absent"
         [] tjob[j].status = "pending" -> "waiting"
         [] OTHER -> "settled"

Pool == INSTANCE JobBoard WITH
  Jobs <- JobIds,
  Cap <- Cardinality(Workers),
  state <- [j \in JobIds |-> Stage(j)]

\* Every inserted job is run at most once, by one worker at a time, and not at
\* all once it is cancelled or deleted; no job that is over comes back, not
\* even when an exception of mark_item writes a done job failed.
PoolSpec == Pool!Spec

=============================================================================
