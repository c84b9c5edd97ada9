---------------------------- MODULE UploadIntake ----------------------------
(***************************************************************************)
(* From a slot to the transcription queue: request_upload_slot, the PUT of *)
(* the client, finalize_upload, the periodic cleanup of expired slots and  *)
(* the extraction worker of the videos.                                    *)
(*                                                                         *)
(* An action is what a coroutine of the backend does from one await to the *)
(* next; the object store (MinIO) is the set of items whose uploaded       *)
(* object exists.                                                          *)
(***************************************************************************)
EXTENDS ItemTable

CONSTANTS
  Uploaders,        \* coroutines that serve the calls of the uploading client
  ExtractAttempts,  \* extraction_max_attempts
  MaxItems          \* bound: slots ever asked for

ASSUME IntakeAssumption == ExtractAttempts \in Nat \ {0} /\ MaxItems \in Nat

VARIABLES
  raw,        \* the items whose uploaded object is in the bucket
  expired,    \* the items whose upload_expires_at is past
  upload,     \* the calls of the client in progress
  sweep,      \* cleanup_expired_slots
  extractor   \* the extraction worker

intake == <<raw, expired, upload, sweep, extractor>>

UploadPC == {"idle", "slot", "probe", "claim", "drop_object", "drop_row"} \cup EntryPC
ExtractorPC == {"recover", "poll", "extract", "fail", "remove", "dead"} \cup EntryPC

IntakeTyped ==
  /\ raw \in SUBSET Items
  /\ expired \in SUBSET Items
  /\ upload \in [Uploaders -> [pc : UploadPC, item : Items]]
  /\ sweep \in [todo : SUBSET Items, row : SUBSET Items]
  /\ extractor \in [pc : ExtractorPC, item : Items, attempt : 1 .. ExtractAttempts]

NoUpload == [pc |-> "idle", item |-> AnyItem]
NoSweep == [todo |-> {}, row |-> {}]
FreshExtractor == [pc |-> "recover", item |-> AnyItem, attempt |-> 1]

IntakeInit ==
  /\ raw = {}
  /\ expired = {}
  /\ upload = [u \in Uploaders |-> NoUpload]
  /\ sweep = NoSweep
  /\ extractor = FreshExtractor

-----------------------------------------------------------------------------
(* The client: the slot, the PUT on the presigned URL, and time.           *)

UploadAt(u, pc) == upload[u].pc = pc
UploadGoto(u, pc) == upload' = [upload EXCEPT ![u].pc = pc]
UploadItem(u) == upload[u].item

\* The slots asked for so far.
Asked == {i \in Items : item[i] # "none" \/ \E u \in Uploaders : UploadAt(u, "slot") /\ UploadItem(u) = i}

\* The request is read; the identifier of the new item is a fresh uuid.
SlotRead(u, i) ==
  /\ UploadAt(u, "idle")
  /\ request = "open_for_upload"
  /\ i \notin Asked
  /\ Cardinality(Asked) < MaxItems
  /\ upload' = [upload EXCEPT ![u] = [pc |-> "slot", item |-> i]]
  /\ UNCHANGED <<tables, raw, expired, sweep, extractor, faults>>

SlotInsert(u) ==
  /\ UploadAt(u, "slot")
  /\ item' = [item EXCEPT ![UploadItem(u)] = "awaiting_upload"]
  /\ UploadGoto(u, "idle")
  /\ UNCHANGED <<transcript, tjob, request, entries, raw, expired, sweep, extractor, faults>>

\* The URL is good until it expires, whatever has become of the item.
PutObject(i) ==
  /\ item[i] # "none"
  /\ i \notin expired \cup raw
  /\ raw' = raw \cup {i}
  /\ UNCHANGED <<tables, expired, upload, sweep, extractor, faults>>

Expire(i) ==
  /\ item[i] # "none"
  /\ i \notin expired
  /\ expired' = expired \cup {i}
  /\ UNCHANGED <<tables, raw, upload, sweep, extractor, faults>>

-----------------------------------------------------------------------------
(* finalize_upload.                                                        *)

\* The reads of the request and of the item, the latter being current when the
\* guards on the status and on the expiry are evaluated; a slot that is not
\* awaiting_upload any more is answered its status.
FinalizeRead(u, i) ==
  /\ UploadAt(u, "idle")
  /\ request # "cancelled"
  /\ item[i] = "awaiting_upload"
  /\ upload' = [upload EXCEPT ![u] = [pc |-> IF i \in expired THEN "drop_object" ELSE "probe",
                                      item |-> i]]
  /\ UNCHANGED <<tables, raw, expired, sweep, extractor, faults>>

\* Faulty: an object that is not there yet is taken for an expired slot.
FinalizeProbeDrops(u) ==
  /\ UploadAt(u, "probe")
  /\ UploadGoto(u, IF UploadItem(u) \in raw THEN "claim" ELSE "drop_object")
  /\ UNCHANGED <<tables, raw, expired, sweep, extractor, faults>>

\* object_exists, in a thread.
FinalizeProbe(u) ==
  /\ UploadAt(u, "probe")
  /\ UploadGoto(u, IF UploadItem(u) \in raw THEN "claim" ELSE "idle")
  /\ UNCHANGED <<tables, raw, expired, sweep, extractor, faults>>

\* Faulty: the claim does not look at the status (the former read-then-act).
FinalizeClaimAny(u) ==
  /\ UploadAt(u, "claim")
  /\ IF UploadItem(u) \in Videos
     THEN Update(UploadItem(u), "pending_extraction") /\ UploadGoto(u, "idle")
     ELSE Update(UploadItem(u), "audio_ready") /\ UploadGoto(u, "ready")
  /\ UNCHANGED <<transcript, tjob, request, entries, raw, expired, sweep, extractor, faults>>

\* claim_finalize_slot.
FinalizeClaim(u) ==
  /\ UploadAt(u, "claim")
  /\ IF ~CanFinalize(UploadItem(u)) THEN UNCHANGED item /\ UploadGoto(u, "idle")
     ELSE IF UploadItem(u) \in Videos
     THEN Update(UploadItem(u), "pending_extraction") /\ UploadGoto(u, "idle")
     ELSE Update(UploadItem(u), "audio_ready") /\ UploadGoto(u, "ready")
  /\ UNCHANGED <<transcript, tjob, request, entries, raw, expired, sweep, extractor, faults>>

\* An audio file goes straight to the transcription queue.
FinalizeEnter(u) ==
  /\ \E next \in EntryPC \cup {"entered"} :
       /\ Enter(UploadItem(u), upload[u].pc, next)
       /\ UploadGoto(u, IF next = "entered" THEN "idle" ELSE next)
  /\ UNCHANGED <<raw, expired, sweep, extractor, faults>>

FinalizeRefused(u) ==
  /\ EntryRefused(UploadItem(u), upload[u].pc)
  /\ UploadGoto(u, "idle")
  /\ UNCHANGED <<tables, raw, expired, sweep, extractor, faults>>

\* _cleanup_expired_item: the object, whose removal may fail, then the row.
DropObject(u) ==
  /\ UploadAt(u, "drop_object")
  /\ raw' \in {raw, raw \ {UploadItem(u)}}
  /\ UploadGoto(u, "drop_row")
  /\ UNCHANGED <<tables, expired, sweep, extractor, faults>>

DropRow(u) ==
  /\ UploadAt(u, "drop_row")
  /\ DeleteItem(UploadItem(u))
  /\ UploadGoto(u, "idle")
  /\ UNCHANGED <<transcript, request, entries, raw, expired, sweep, extractor, faults>>

\* An exception leaves the call half done: no transaction spans its statements.
UploadRaises(u) ==
  /\ ~UploadAt(u, "idle")
  /\ Fault
  /\ UploadGoto(u, "idle")
  /\ UNCHANGED <<tables, raw, expired, sweep, extractor>>

UploadStep(u) ==
  \/ SlotInsert(u) \/ FinalizeProbe(u) \/ FinalizeClaim(u) \/ FinalizeEnter(u) \/ FinalizeRefused(u)
  \/ DropObject(u) \/ DropRow(u)

-----------------------------------------------------------------------------
(* cleanup_expired_slots, every few minutes.                               *)

SweepIdle == sweep = NoSweep

\* Faulty: only the slots whose object is there are listed.
SweepListUploaded ==
  /\ SweepIdle
  /\ sweep' = [sweep EXCEPT !.todo = {i \in expired \cap raw : item[i] = "awaiting_upload"}]
  /\ sweep' # NoSweep
  /\ UNCHANGED <<tables, raw, expired, upload, extractor, faults>>

\* The expired slots; an item that has left "awaiting_upload" is not listed.
SweepList ==
  /\ SweepIdle
  /\ sweep' = [sweep EXCEPT !.todo = {i \in expired : item[i] = "awaiting_upload"}]
  /\ sweep' # NoSweep
  /\ UNCHANGED <<tables, raw, expired, upload, extractor, faults>>

SweepObject(i) ==
  /\ i \in sweep.todo
  /\ sweep.row = {}
  /\ raw' = raw \ {i}
  /\ sweep' = [todo |-> sweep.todo \ {i}, row |-> {i}]
  /\ UNCHANGED <<tables, expired, upload, extractor, faults>>

\* The object cannot be removed: the item is kept for the next run.
SweepObjectFails(i) ==
  /\ i \in sweep.todo
  /\ sweep.row = {}
  /\ Fault
  /\ sweep' = [sweep EXCEPT !.todo = @ \ {i}]
  /\ UNCHANGED <<tables, raw, expired, upload, extractor>>

SweepRow(i) ==
  /\ i \in sweep.row
  /\ DeleteItem(i)
  /\ sweep' = [sweep EXCEPT !.row = {}]
  /\ UNCHANGED <<transcript, request, entries, raw, expired, upload, extractor, faults>>

\* delete_item raises: the run is over.
SweepRaises ==
  /\ ~SweepIdle
  /\ Fault
  /\ sweep' = NoSweep
  /\ UNCHANGED <<tables, raw, expired, upload, extractor>>

SweepStep == SweepList \/ \E i \in Items : SweepObject(i) \/ SweepRow(i)

-----------------------------------------------------------------------------
(* AudioExtractionWorker.run_loop.                                         *)

ExtractorAt(pc) == extractor.pc = pc
ExtractorGoto(pc) == extractor' = [extractor EXCEPT !.pc = pc]

ExtractRecover ==
  /\ ExtractorAt("recover")
  /\ RequeueExtracting
  /\ ExtractorGoto("poll")
  /\ UNCHANGED <<transcript, tjob, request, entries, raw, expired, upload, sweep, faults>>

\* recover is outside the try: its exception ends the loop for good.
ExtractRecoverRaises ==
  /\ ExtractorAt("recover")
  /\ Fault
  /\ ExtractorGoto("dead")
  /\ UNCHANGED <<tables, raw, expired, upload, sweep>>

\* claim_next_for_extraction; the order of updated_at is not modelled.
ExtractClaim ==
  /\ ExtractorAt("poll")
  /\ \E i \in Items :
       /\ item[i] = "pending_extraction"
       /\ Update(i, "extracting_audio")
       /\ extractor' = [pc |-> "extract", item |-> i, attempt |-> 1]
  /\ UNCHANGED <<transcript, tjob, request, entries, raw, expired, upload, sweep, faults>>

\* Faulty: the raw video is removed as soon as its audio is uploaded.
ExtractSucceedsAndRemoves ==
  /\ ExtractorAt("extract")
  /\ extractor.item \in raw
  /\ raw' = raw \ {extractor.item}
  /\ ExtractorGoto("ready")
  /\ UNCHANGED <<tables, expired, upload, sweep, faults>>

\* The audio is extracted and uploaded.
ExtractSucceeds ==
  /\ ExtractorAt("extract")
  /\ extractor.item \in raw
  /\ ExtractorGoto("ready")
  /\ UNCHANGED <<tables, raw, expired, upload, sweep, faults>>

\* Faulty: one attempt too many.
ExtractAttemptFailsOnceMore ==
  /\ ExtractorAt("extract")
  /\ extractor.item \in raw
  /\ extractor' = IF extractor.attempt <= ExtractAttempts
                  THEN [extractor EXCEPT !.attempt = @ + 1]
                  ELSE [extractor EXCEPT !.pc = "fail"]
  /\ UNCHANGED <<tables, raw, expired, upload, sweep, faults>>

\* AudioExtractionError: the next attempt, or the last has failed.
ExtractAttemptFails ==
  /\ ExtractorAt("extract")
  /\ extractor.item \in raw
  /\ extractor' = IF extractor.attempt < ExtractAttempts
                  THEN [extractor EXCEPT !.attempt = @ + 1]
                  ELSE [extractor EXCEPT !.pc = "fail"]
  /\ UNCHANGED <<tables, raw, expired, upload, sweep, faults>>

\* The download of an object that is not there raises something else than
\* AudioExtractionError, and the loop goes on with the next item.
ExtractMissing ==
  /\ ExtractorAt("extract")
  /\ extractor.item \notin raw
  /\ ExtractorGoto("poll")
  /\ UNCHANGED <<tables, raw, expired, upload, sweep, faults>>

ExtractMarkFailed ==
  /\ ExtractorAt("fail")
  /\ Update(extractor.item, "failed")
  /\ ExtractorGoto("poll")
  /\ UNCHANGED <<transcript, tjob, request, entries, raw, expired, upload, sweep, faults>>

ExtractEnter ==
  /\ \E next \in EntryPC \cup {"entered"} :
       /\ Enter(extractor.item, extractor.pc, next)
       /\ ExtractorGoto(IF next = "entered" THEN "remove" ELSE next)
  /\ UNCHANGED <<raw, expired, upload, sweep, faults>>

ExtractRefused ==
  /\ EntryRefused(extractor.item, extractor.pc)
  /\ ExtractorGoto("poll")
  /\ UNCHANGED <<tables, raw, expired, upload, sweep, faults>>

\* The raw video is removed, best effort.
ExtractRemoveRaw ==
  /\ ExtractorAt("remove")
  /\ raw' \in {raw, raw \ {extractor.item}}
  /\ ExtractorGoto("poll")
  /\ UNCHANGED <<tables, expired, upload, sweep, faults>>

\* Any other exception is logged by the loop and the item left as it is.
ExtractRaises ==
  /\ extractor.pc \notin {"recover", "poll", "remove", "dead"}
  /\ Fault
  /\ ExtractorGoto("poll")
  /\ UNCHANGED <<tables, raw, expired, upload, sweep>>

ExtractStep ==
  \/ ExtractRecover \/ ExtractClaim \/ ExtractSucceeds \/ ExtractAttemptFails \/ ExtractMissing
  \/ ExtractMarkFailed \/ ExtractEnter \/ ExtractRefused \/ ExtractRemoveRaw

-----------------------------------------------------------------------------
IntakeNext ==
  \/ \E u \in Uploaders :
       \/ UploadStep(u) \/ UploadRaises(u)
       \/ \E i \in Items : SlotRead(u, i) \/ FinalizeRead(u, i)
  \/ \E i \in Items : PutObject(i) \/ Expire(i) \/ SweepObjectFails(i)
  \/ SweepStep \/ SweepRaises
  \/ ExtractStep \/ ExtractRecoverRaises \/ ExtractRaises

=============================================================================
