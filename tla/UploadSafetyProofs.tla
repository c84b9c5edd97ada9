------------------------- MODULE UploadSafetyProofs -------------------------
(***************************************************************************)
(* Two invariants of UploadPipeline, for every value of its constants: the *)
(* raw video is there as long as an extraction may need it, and an upload  *)
(* is given one transcription job.  Both rest on the same facts about who  *)
(* holds an item and what it can still do to it, so they are proved        *)
(* together, as one inductive invariant.                                   *)
(***************************************************************************)
EXTENDS UploadPipelineProofs, FiniteSetTheorems

-----------------------------------------------------------------------------
(* The inductive invariant.                                                *)

Inside(i) == item[i] \in {"pending_extraction", "extracting_audio"}
Fresh(i) == item[i] \in {"none", "awaiting_upload"}
UploadStage(u) == upload[u].pc
Extracting == extractor.pc \notin {"recover", "poll", "dead"}
Unjobbed(i) == \A j \in JobIds : Row(j) => tjob[j].item # i
Free(i) == i \in touched \/ Unjobbed(i)

\* A slot being inserted is of an item that does not exist yet, any other call
\* works on one that exists; objects are dropped under expired slots only; a call
\* about to take a slot has seen the object, and it is still there; what a call
\* puts in the queue is an audio file that has no job yet.
UploaderInv(u) ==
  /\ UploadStage(u) = "slot" => item[UploadItem(u)] = "none"
  /\ UploadStage(u) \notin {"idle", "slot"} => item[UploadItem(u)] # "none"
  /\ UploadStage(u) \in {"drop_object", "drop_row"} => UploadItem(u) \in expired
  /\ UploadStage(u) = "claim" /\ CanFinalize(UploadItem(u)) => UploadItem(u) \in raw \cup expired
  /\ UploadStage(u) \in EntryPC => UploadItem(u) \notin Videos /\ ~Fresh(UploadItem(u))
  /\ UploadStage(u) \in {"ready", "check", "insert"} => Free(UploadItem(u))

\* Two calls never insert the same slot, nor put the same item in the queue.
Apart ==
  \A u, v \in Uploaders :
    /\ UploadItem(u) = UploadItem(v)
    /\ \/ UploadStage(u) = "slot" /\ UploadStage(v) = "slot"
       \/ UploadStage(u) \in EntryPC /\ UploadStage(v) \in EntryPC
    => u = v

\* What the extraction worker holds is a video that has left its slot, that has
\* left the extraction when the worker removes the object, and that has no job
\* when the worker inserts one.
ExtractorInv ==
  /\ Extracting => extractor.item \in Videos /\ ~Fresh(extractor.item)
  /\ extractor.pc = "remove" => extractor.item \in touched \/ ~Inside(extractor.item)
  /\ extractor.pc = "insert" => Free(extractor.item)

SweepInv == sweep.todo \cup sweep.row \subseteq expired

RawInv == RawKept /\ \A i \in Items : Inside(i) => i \in Videos

\* A slot has no job, only a touched item has a cancelled one or a second one.
TableInv ==
  /\ \A i \in Items : Fresh(i) => Free(i)
  /\ \A j \in JobIds : tjob[j].status = "cancelled" => tjob[j].item \in touched
  /\ \A j, k \in JobIds :
       Row(j) /\ Row(k) /\ tjob[j].item = tjob[k].item => j = k \/ tjob[j].item \in touched

\* A retry inserts a job for an item it has touched.
RetryInv == \A a \in Admins : AdminAt(a, "retry_insert") => admin[a].item \in touched

UploadInv ==
  /\ \A u \in Uploaders : UploaderInv(u)
  /\ Apart
  /\ ExtractorInv
  /\ SweepInv
  /\ RawInv
  /\ TableInv
  /\ RetryInv

-----------------------------------------------------------------------------
(* What the steps do to the items and to the jobs.                         *)

\* The item does not appear, get a slot, or enter the extraction from outside
\* but by a retry.
MovesAt(k) ==
  /\ item'[k] = "none" <=> item[k] = "none"
  /\ item'[k] = "awaiting_upload" => item[k] = "awaiting_upload"
  /\ Inside(k)' => Inside(k) \/ k \in touched' \cap Videos

Moves == \A k \in Items : MovesAt(k)

\* No job appears or is cancelled but the jobs of the touched items.
JobsKept ==
  \A j \in JobIds : Row(j)' =>
    \/ tjob'[j].item \in touched'
    \/ /\ Row(j)
       /\ tjob'[j].item = tjob[j].item
       /\ tjob'[j].status = "cancelled" => tjob[j].status = "cancelled"

\* An object is removed under an expired slot, or by the extraction worker.
RawRemoved ==
  \A k \in raw \ raw' : k \in expired \/ (extractor.pc = "remove" /\ k = extractor.item)

\* The two ghosts only grow.
Grows == touched \subseteq touched' /\ expired \subseteq expired'

Outside == ItemStatus \ {"none", "awaiting_upload", "pending_extraction", "extracting_audio"}

\* A status beyond the extraction.
LEMMA UpdateMoves ==
  ASSUME TablesTyped, NEW i \in Items, NEW st \in Outside, Update(i, st)
  PROVE  Moves
BY DEF TablesTyped, Outside, Update, Present, Moves, MovesAt, Inside

LEMMA StillMoves ==
  ASSUME item' = item
  PROVE  Moves
BY DEF Moves, MovesAt, Inside

LEMMA StillJobs ==
  ASSUME TablesTyped, tjob' = tjob
  PROVE  JobsKept
BY DEF JobsKept, Row

\* The new status of a job that is there.
LEMMA SetJobKeeps ==
  ASSUME TablesTyped, NEW j, NEW st \in {"claimed", "done", "failed"}, SetJob(j, st)
  PROVE  JobsKept
BY DEF TablesTyped, SetJob, Row, JobsKept

\* The deletion of an item and of its jobs.
LEMMA DeleteKeeps ==
  ASSUME TablesTyped, NEW i \in Items, DeleteItem(i)
  PROVE  Moves /\ JobsKept
<1>1. Moves  BY UpdateMoves DEF DeleteItem, Outside, ItemStatus
<1>2. JobsKept  BY DEF TablesTyped, DeleteItem, JobsOf, Row, JobsKept
<1> QED  BY <1>1, <1>2

\* The insert of a job: it is the only row that appears.
LEMMA InsertKeeps ==
  ASSUME TablesTyped, NEW i \in Items, InsertJob(i)
  PROVE  \E n \in JobIds :
           /\ ~Row(n) /\ Row(n)' /\ tjob'[n].item = i /\ tjob'[n].status = "pending"
           /\ \A j \in JobIds : j # n => tjob'[j] = tjob[j] /\ (Row(j)' <=> Row(j))
BY DEF TablesTyped, InsertJob, Row

-----------------------------------------------------------------------------
(* What is left alone keeps its part of the invariant.                     *)

Typed == TypeOK /\ TypeOK'

LEMMA TypedFacts ==
  ASSUME Typed
  PROVE  /\ JobIds' = JobIds
         /\ item \in [Items -> ItemStatus] /\ item' \in [Items -> ItemStatus]
         /\ tjob \in [JobIds -> JobRow] /\ tjob' \in [JobIds -> JobRow]
         /\ upload \in [Uploaders -> [pc : UploadPC, item : Items]]
         /\ extractor.item \in Items
         /\ \A u \in Uploaders : UploadItem(u) \in Items /\ UploadStage(u) \in UploadPC
BY DEF Typed, TypeOK, TablesTyped, IntakeTyped, JobIds, JobRow, UploadItem, UploadStage

LEMMA FreeKept ==
  ASSUME Typed, JobsKept, Grows, NEW i \in Items, Free(i)
  PROVE  Free(i)'
<1>1. JobIds' = JobIds  BY TypedFacts
<1> QED  BY <1>1 DEF JobsKept, Free, Unjobbed, Grows

\* A call that does not move.
LEMMA UploaderKept ==
  ASSUME Typed, UploadInv, Grows, RawRemoved, NEW u \in Uploaders, upload'[u] = upload[u],
         MovesAt(UploadItem(u)),
         UploadStage(u) \in {"ready", "check", "insert"} => Free(UploadItem(u))'
  PROVE  UploaderInv(u)'
<1>1. UploadStage(u)' = UploadStage(u) /\ UploadItem(u)' = UploadItem(u)
  BY DEF UploadStage, UploadItem
<1>2. UploaderInv(u)  BY DEF UploadInv
<1>4. UploadStage(u) = "claim" /\ CanFinalize(UploadItem(u))' => UploadItem(u) \in raw' \cup expired'
  <2> SUFFICES ASSUME UploadStage(u) = "claim", CanFinalize(UploadItem(u))'
               PROVE  UploadItem(u) \in raw' \cup expired'
    OBVIOUS
  <2>1. item[UploadItem(u)] = "awaiting_upload"  BY <1>1 DEF MovesAt, CanFinalize
  <2>2. UploadItem(u) \in raw \cup expired  BY <1>2, <2>1 DEF UploaderInv, CanFinalize
  <2>3. extractor.pc = "remove" => UploadItem(u) # extractor.item
    BY <2>1 DEF UploadInv, ExtractorInv, Extracting, Fresh
  <2> QED  BY <2>2, <2>3 DEF RawRemoved, Grows
<1> QED  BY <1>1, <1>2, <1>4 DEF UploaderInv, MovesAt, Fresh, Grows

\* The tables.
LEMMA TableKept ==
  ASSUME Typed, TableInv, Grows, JobsKept,
         \A k \in Items : Fresh(k)' => Fresh(k)
  PROVE  TableInv'
<1>1. JobIds' = JobIds  BY TypedFacts
<1>2. \A i \in Items : Fresh(i)' => Free(i)'  BY FreeKept DEF TableInv
<1>3. \A j \in JobIds : tjob'[j].status = "cancelled" => tjob'[j].item \in touched'
  BY DEF TableInv, JobsKept, Row, Grows
<1>4. \A j, k \in JobIds :
        Row(j)' /\ Row(k)' /\ tjob'[j].item = tjob'[k].item => j = k \/ tjob'[j].item \in touched'
  BY DEF TableInv, JobsKept, Grows
<1> QED  BY <1>1, <1>2, <1>3, <1>4 DEF TableInv

\* The raw objects.
LEMMA RawStays ==
  ASSUME UploadInv, Grows, RawRemoved, Moves
  PROVE  RawInv'
<1>1. \A i \in Items : Inside(i)' => Inside(i) \/ i \in touched' \cap Videos  BY DEF Moves, MovesAt
<1>2. RawKept'
  <2> SUFFICES ASSUME NEW i \in Videos, i \notin touched', i \notin expired', Inside(i)'
               PROVE  i \in raw'
    BY DEF RawKept, Inside
  <2>1. i \in Items /\ Inside(i) /\ i \notin touched /\ i \notin expired
    BY <1>1, ItemAssumption DEF Grows
  <2>2. i \in raw  BY <2>1 DEF UploadInv, RawInv, RawKept, Inside
  <2>3. extractor.pc = "remove" => i # extractor.item
    BY <2>1 DEF UploadInv, ExtractorInv
  <2> QED  BY <2>1, <2>2, <2>3 DEF RawRemoved
<1> QED  BY <1>1, <1>2 DEF UploadInv, RawInv

LEMMA ExtractorKept ==
  ASSUME Typed, UploadInv, Grows, MovesAt(extractor.item), extractor' = extractor,
         extractor.pc = "insert" => Free(extractor.item)'
  PROVE  ExtractorInv'
BY DEF UploadInv, ExtractorInv, Extracting, MovesAt, Fresh, Inside, Grows, Free, Unjobbed

\* A step that changes the items as Moves says: what it may disturb otherwise is
\* the part of the caller, of the worker or of the sweep that takes it.
LEMMA StepKeeps ==
  ASSUME Typed, UploadInv, Moves, JobsKept, Grows, RawRemoved, RetryInv', SweepInv', ExtractorInv',
         Apart', \A u \in Uploaders : upload'[u] = upload[u] \/ UploaderInv(u)'
  PROVE  UploadInv'
<1>1. \A i \in Items : Free(i) => Free(i)'  BY FreeKept
<1>2. ASSUME NEW u \in Uploaders, upload'[u] = upload[u]  PROVE UploaderInv(u)'
  <2>1. UploadStage(u) \in {"ready", "check", "insert"} => Free(UploadItem(u))
    BY DEF UploadInv, UploaderInv
  <2>2. UploadItem(u)' = UploadItem(u) /\ UploadItem(u) \in Items  BY <1>2, TypedFacts DEF UploadItem
  <2>3. Free(UploadItem(u)) => Free(UploadItem(u))'  BY <1>1, <2>2 DEF Free, Unjobbed
  <2> QED  BY <1>2, <2>1, <2>2, <2>3, UploaderKept DEF Moves
<1>3. RawInv'  BY RawStays
<1>4. TableInv'
  <2>1. \A k \in Items : Fresh(k)' => Fresh(k)  BY DEF Moves, MovesAt, Fresh
  <2> QED  BY <2>1, TableKept DEF UploadInv
<1> QED  BY <1>2, <1>3, <1>4 DEF UploadInv

\* The extraction worker does not move.
LEMMA ExtractorStill ==
  ASSUME Typed, UploadInv, Moves, JobsKept, Grows, extractor' = extractor
  PROVE  ExtractorInv'
<1>1. extractor.item \in Items  BY TypedFacts
<1>2. extractor.pc = "insert" => Free(extractor.item)  BY DEF UploadInv, ExtractorInv
<1>3. Free(extractor.item) => Free(extractor.item)'
  <2>1. \A i \in Items : Free(i) => Free(i)'  BY FreeKept
  <2> QED  BY <1>1, <2>1 DEF Free, Unjobbed
<1> QED  BY <1>1, <1>2, <1>3, ExtractorKept DEF Moves

\* A step of a component that holds no item of the intake.
LEMMA QuietKeeps ==
  ASSUME Typed, UploadInv, Moves, JobsKept, Grows, RetryInv', UNCHANGED intake
  PROVE  UploadInv'
<1>1. RawRemoved /\ SweepInv' /\ Apart'
  BY DEF intake, RawRemoved, UploadInv, SweepInv, Apart, UploadItem, UploadStage
<1>2. ExtractorInv'  BY ExtractorStill DEF intake
<1> QED  BY <1>1, <1>2, StepKeeps DEF intake

-----------------------------------------------------------------------------
(* The calls of the client.                                                *)

\* A call that moves to pc for the item i, with what that step of the call needs.
LEMMA UploaderMoved ==
  ASSUME Typed, UploadInv, Moves, JobsKept, RawRemoved,
         UNCHANGED <<expired, sweep, extractor, admin, touched>>,
         NEW u \in Uploaders, NEW pc \in UploadPC, NEW i \in Items,
         upload' = [upload EXCEPT ![u] = [pc |-> pc, item |-> i]],
         pc = "slot" => /\ item[i] = "none"
                        /\ \A v \in Uploaders : UploadStage(v) = "slot" => UploadItem(v) # i,
         pc \notin {"idle", "slot"} => item[i] # "none",
         pc \in {"drop_object", "drop_row"} => i \in expired,
         pc = "claim" => i \in raw' \cup expired,
         pc \in EntryPC => UploadStage(u) \in EntryPC /\ UploadItem(u) = i,
         pc \in {"ready", "check", "insert"} => Free(i)
  PROVE  UploadInv'
<1>1. upload'[u].pc = pc /\ upload'[u].item = i /\ \A v \in Uploaders \ {u} : upload'[v] = upload[v]
  BY TypedFacts
<1>2. Grows /\ RetryInv' /\ SweepInv'  BY DEF Grows, UploadInv, RetryInv, AdminAt, SweepInv
<1>3. pc \in {"ready", "check", "insert"} => Free(i)'  BY <1>2, FreeKept
<1>4. UploaderInv(u)
  BY DEF UploadInv
<1>5. UploaderInv(u)'
  <2>1. UploadStage(u)' = pc /\ UploadItem(u)' = i  BY <1>1 DEF UploadStage, UploadItem
  <2>2. pc \in {"ready", "check", "insert"} => Free(UploadItem(u))'
    BY <1>3, <2>1 DEF Free, Unjobbed
  <2> QED  BY <1>4, <2>1, <2>2 DEF UploaderInv, Moves, MovesAt, Fresh
<1>6. Apart'
  BY <1>1 DEF UploadInv, Apart, UploadItem, UploadStage, EntryPC
<1>7. ExtractorInv'  BY <1>2, ExtractorStill
<1> QED  BY <1>1, <1>2, <1>5, <1>6, <1>7, StepKeeps

\* The job that a call or the worker inserts is the first of its item.
LEMMA InsertedFirst ==
  ASSUME Typed, UploadInv, NEW i \in Items, InsertJob(i), Free(i), ~Fresh(i),
         UNCHANGED <<item, touched>>
  PROVE  /\ TableInv'
         /\ \A k \in Items \ {i} : Free(k) => Free(k)'
<1>1. PICK n \in JobIds :
        /\ ~Row(n) /\ Row(n)' /\ tjob'[n].item = i /\ tjob'[n].status = "pending"
        /\ \A j \in JobIds : j # n => tjob'[j] = tjob[j] /\ (Row(j)' <=> Row(j))
  BY InsertKeeps DEF Typed, TypeOK
<1>2. JobIds' = JobIds  BY TypedFacts
<1>3. \A k \in Items \ {i} : Free(k) => Free(k)'  BY <1>1, <1>2 DEF Free, Unjobbed
<1>4. \A k \in Items : Fresh(k)' => Free(k)'
  BY <1>3 DEF Fresh, UploadInv, TableInv
<1>5. \A j \in JobIds : tjob'[j].status = "cancelled" => tjob'[j].item \in touched'
  BY <1>1 DEF UploadInv, TableInv
<1>6. \A j, k \in JobIds :
        Row(j)' /\ Row(k)' /\ tjob'[j].item = tjob'[k].item => j = k \/ tjob'[j].item \in touched'
  BY <1>1 DEF UploadInv, TableInv, Free, Unjobbed
<1> QED  BY <1>2, <1>3, <1>4, <1>5, <1>6 DEF TableInv

\* The insert of a slot: its item is nobody else's.
LEMMA SlotKeeps ==
  ASSUME Typed, UploadInv, NEW u \in Uploaders, SlotInsert(u), UNCHANGED <<admin, touched>>
  PROVE  UploadInv'
<1>0. PICK i \in Items : i = UploadItem(u)  BY TypedFacts
<1>1. i \in Items /\ item[i] = "none" /\ UploadStage(u) = "slot"
  BY <1>0, TypedFacts DEF SlotInsert, UploadAt, UploadStage, UploadInv, UploaderInv
<1>2. /\ item'[i] = "awaiting_upload" /\ \A k \in Items \ {i} : item'[k] = item[k]
      /\ tjob' = tjob
      /\ UNCHANGED <<raw, expired, sweep, extractor>>
  BY <1>0, <1>1, TypedFacts DEF SlotInsert
<1>3. /\ UploadStage(u)' = "idle"
      /\ \A v \in Uploaders \ {u} : upload'[v] = upload[v]
  BY TypedFacts DEF SlotInsert, UploadGoto, UploadStage
<1>4. Grows /\ RawRemoved /\ JobsKept /\ RetryInv' /\ SweepInv'
  BY <1>2, StillJobs DEF Grows, RawRemoved, UploadInv, RetryInv, AdminAt, SweepInv, Typed, TypeOK
<1>5. ASSUME NEW v \in Uploaders  PROVE UploaderInv(v)'
  <2>1. CASE UploadStage(v)' = "idle"  BY <2>1 DEF UploaderInv, EntryPC
  <2>2. CASE UploadStage(v)' # "idle"
    <3>1. v # u /\ upload'[v] = upload[v] /\ UploadStage(v) # "idle"
      BY <1>3, <2>2 DEF UploadStage
    <3>2. UploadItem(v) # i
      BY <1>0, <1>1, <3>1 DEF UploadInv, Apart, UploaderInv
    <3>3. MovesAt(UploadItem(v))
      <4>1. item'[UploadItem(v)] = item[UploadItem(v)]  BY <1>2, <3>2, TypedFacts
      <4> QED  BY <4>1, <3>1 DEF MovesAt, Inside, UploadItem
    <3>4. UploadStage(v) \in {"ready", "check", "insert"} => Free(UploadItem(v))
      BY DEF UploadInv, UploaderInv
    <3>5. Free(UploadItem(v)) => Free(UploadItem(v))'
      BY <1>2, <3>1 DEF Free, Unjobbed, UploadItem, Row, JobIds
    <3> QED  BY <1>4, <3>1, <3>3, <3>4, <3>5, UploaderKept
  <2> QED  BY <2>1, <2>2
<1>6. Apart'
  BY <1>3 DEF UploadInv, Apart, UploadItem, UploadStage, EntryPC
<1>7. ExtractorInv'
  BY <1>1, <1>2, TypedFacts
     DEF UploadInv, ExtractorInv, Extracting, Fresh, Inside, Free, Unjobbed, Row, JobIds
<1>8. RawInv'
  BY <1>1, <1>2, ItemAssumption DEF UploadInv, RawInv, RawKept, Inside
<1>9. TableInv'
  BY <1>1, <1>2, <1>4, TableKept DEF Fresh, UploadInv
<1> QED  BY <1>4, <1>5, <1>6, <1>7, <1>8, <1>9 DEF UploadInv

\* The claim of a slot: whoever held its item before can do nothing to it now.
LEMMA ClaimKeeps ==
  ASSUME Typed, UploadInv, NEW u \in Uploaders, FinalizeClaim(u), UNCHANGED <<admin, touched>>
  PROVE  UploadInv'
<1>0. PICK i \in Items : i = UploadItem(u)  BY TypedFacts
<1>1. i \in Items /\ UploadStage(u) = "claim" /\ UploaderInv(u)
  BY <1>0, TypedFacts DEF FinalizeClaim, UploadAt, UploadStage, UploadInv
<1>2. CASE ~CanFinalize(i)
  <2>1. item' = item /\ upload' = [upload EXCEPT ![u] = [pc |-> "idle", item |-> i]]
    BY <1>0, <1>2, TypedFacts DEF FinalizeClaim, UploadGoto, UploadItem
  <2>2. Moves /\ JobsKept /\ RawRemoved
    BY <2>1, StillMoves, StillJobs DEF FinalizeClaim, RawRemoved, Typed, TypeOK
  <2>3. UNCHANGED <<expired, sweep, extractor, admin, touched>>  BY DEF FinalizeClaim
  <2>4. "idle" \in UploadPC \ EntryPC  BY DEF UploadPC, EntryPC
  <2> QED  BY <2>1, <2>2, <2>3, <2>4, UploaderMoved
<1>3. CASE CanFinalize(i)
  <2>1. item[i] = "awaiting_upload" /\ i \in raw \cup expired /\ Free(i)
    BY <1>0, <1>1, <1>3 DEF CanFinalize, UploaderInv, UploadInv, TableInv, Fresh
  <2>2. /\ \A k \in Items \ {i} : item'[k] = item[k]
        /\ tjob' = tjob
        /\ UNCHANGED <<raw, expired, sweep, extractor>>
        /\ IF i \in Videos THEN item'[i] = "pending_extraction" /\ UploadStage(u)' = "idle"
           ELSE item'[i] = "audio_ready" /\ UploadStage(u)' = "ready"
        /\ UploadItem(u)' = i
        /\ \A v \in Uploaders \ {u} : upload'[v] = upload[v]
    BY <1>0, <1>1, <1>3, <2>1, TypedFacts
       DEF FinalizeClaim, Update, Present, UploadGoto, UploadStage, UploadItem
  <2>3. Grows /\ RawRemoved /\ JobsKept /\ RetryInv' /\ SweepInv'
    BY <2>2, StillJobs DEF Grows, RawRemoved, UploadInv, RetryInv, AdminAt, SweepInv, Typed, TypeOK
  <2>4. \A k \in Items : Free(k) => Free(k)'  BY <2>3, FreeKept
  <2>5. \A v \in Uploaders : UploadStage(v) \in EntryPC => UploadItem(v) # i
    BY <2>1 DEF UploadInv, UploaderInv, Fresh
  <2>6. UploaderInv(u)'
    <3>1. Free(i)'  BY <1>1, <2>1, <2>4
    <3>2. Free(UploadItem(u))'  BY <2>2, <3>1 DEF Free, Unjobbed
    <3> QED  BY <1>1, <2>2, <3>2 DEF UploaderInv, Fresh, EntryPC
  <2>7. ASSUME NEW v \in Uploaders, v # u  PROVE UploaderInv(v)'
    <3>1. /\ upload'[v] = upload[v] /\ UploadStage(v)' = UploadStage(v)
          /\ UploadItem(v)' = UploadItem(v) /\ UploaderInv(v) /\ UploadItem(v) \in Items
      BY <2>2, <2>7, TypedFacts DEF UploadStage, UploadItem, UploadInv
    <3>2. CASE UploadItem(v) = i
      BY <2>1, <2>2, <2>5, <3>1, <3>2 DEF UploaderInv, CanFinalize, EntryPC
    <3>3. CASE UploadItem(v) # i
      <4>1. MovesAt(UploadItem(v))  BY <2>2, <3>1, <3>3 DEF MovesAt, Inside
      <4>2. UploadStage(v) \in {"ready", "check", "insert"} => Free(UploadItem(v))
        BY <3>1 DEF UploaderInv
      <4>3. Free(UploadItem(v)) => Free(UploadItem(v))'
        BY <2>4, <3>1 DEF Free, Unjobbed
      <4> QED  BY <2>3, <3>1, <4>1, <4>2, <4>3, UploaderKept
    <3> QED  BY <3>2, <3>3
  <2>8. Apart'
    BY <2>2, <2>5 DEF UploadInv, Apart, UploadItem, UploadStage, EntryPC
  <2>9. ExtractorInv'
    BY <2>1, <2>2, <2>4, TypedFacts
       DEF UploadInv, ExtractorInv, Extracting, Fresh, Inside, Free, Unjobbed, Row, JobIds
  <2>10. RawInv'
    BY <2>1, <2>2, ItemAssumption DEF UploadInv, RawInv, RawKept, Inside
  <2>11. TableInv'
    BY <2>1, <2>2, <2>3, TableKept DEF Fresh, UploadInv
  <2> QED  BY <2>3, <2>6, <2>7, <2>8, <2>9, <2>10, <2>11 DEF UploadInv
<1> QED  BY <1>2, <1>3

\* The insert of the job of an audio file: whoever else may insert one holds
\* another item.
LEMMA CallInsertKeeps ==
  ASSUME Typed, UploadInv, NEW u \in Uploaders, UploadAt(u, "insert"), InsertJob(UploadItem(u)),
         UploadGoto(u, "queue"), UNCHANGED <<item, raw, expired, sweep, extractor, admin, touched>>
  PROVE  UploadInv'
<1>0. PICK i \in Items : i = UploadItem(u)  BY TypedFacts
<1>1. i \in Items /\ UploadStage(u) = "insert" /\ UploaderInv(u) /\ InsertJob(i)
  BY <1>0 DEF UploadAt, UploadStage, UploadInv
<1>2. i \notin Videos /\ ~Fresh(i) /\ Free(i) /\ item[i] # "none"
  BY <1>0, <1>1 DEF UploaderInv, EntryPC
<1>3. TableInv' /\ \A k \in Items \ {i} : Free(k) => Free(k)'
  BY <1>1, <1>2, InsertedFirst
<1>4. UploadStage(u)' = "queue" /\ UploadItem(u)' = i /\ \A v \in Uploaders \ {u} : upload'[v] = upload[v]
  BY <1>0, TypedFacts DEF UploadGoto, UploadStage, UploadItem
<1>5. Moves /\ Grows /\ RawRemoved /\ RetryInv' /\ SweepInv'
  BY StillMoves DEF Grows, RawRemoved, UploadInv, RetryInv, AdminAt, SweepInv
<1>6. UploaderInv(u)'
  BY <1>2, <1>4 DEF UploaderInv, Fresh, EntryPC
<1>7. ASSUME NEW v \in Uploaders, v # u  PROVE UploaderInv(v)'
  <2>1. upload'[v] = upload[v] /\ UploadItem(v)' = UploadItem(v) /\ UploadItem(v) \in Items
    BY <1>4, <1>7, TypedFacts DEF UploadItem
  <2>2. UploadStage(v) \in {"ready", "check", "insert"} => UploadItem(v) # i /\ Free(UploadItem(v))
    BY <1>0, <1>1, <1>7 DEF UploadInv, UploaderInv, Apart, EntryPC
  <2>3. UploadItem(v) # i /\ Free(UploadItem(v)) => Free(UploadItem(v))'
    BY <1>3, <2>1 DEF Free, Unjobbed
  <2> QED  BY <1>5, <2>1, <2>2, <2>3, UploaderKept DEF Moves
<1>8. Apart'
  BY <1>0, <1>1, <1>4 DEF UploadInv, Apart, UploadItem, UploadStage, EntryPC
<1>9. ExtractorInv'
  <2>1. extractor.pc = "insert" => extractor.item # i /\ Free(extractor.item)
    BY <1>2 DEF UploadInv, ExtractorInv, Extracting
  <2>2. extractor.item # i /\ Free(extractor.item) => Free(extractor.item)'
    BY <1>3, TypedFacts DEF Free, Unjobbed
  <2> QED  BY <1>5, <2>1, <2>2, ExtractorKept, TypedFacts DEF Moves
<1>10. RawInv'  BY <1>5, RawStays
<1> QED  BY <1>3, <1>5, <1>6, <1>7, <1>8, <1>9, <1>10 DEF UploadInv

\* Every step of a call, and the exceptions that end it.
LEMMA CallKeeps ==
  ASSUME Typed, UploadInv, NEW u \in Uploaders,
         \/ UploadStep(u) \/ UploadRaises(u)
         \/ \E k \in Items : SlotRead(u, k) \/ FinalizeRead(u, k),
         UNCHANGED <<admin, touched>>
  PROVE  UploadInv'
<1>0. PICK i \in Items : i = UploadItem(u)  BY TypedFacts
<1>1. UploaderInv(u) /\ TablesTyped  BY DEF UploadInv, Typed, TypeOK
<1>2. ASSUME NEW pc, UploadGoto(u, pc)
      PROVE  upload' = [upload EXCEPT ![u] = [pc |-> pc, item |-> i]]
  <2>1. upload[u] \in [pc : UploadPC, item : Items] /\ upload[u].item = i
    BY <1>0, TypedFacts DEF UploadItem
  <2>2. [upload[u] EXCEPT !.pc = pc] = [pc |-> pc, item |-> i]  BY <2>1
  <2> QED  BY <1>2, <2>2 DEF UploadGoto
<1>3. UNCHANGED <<item, tjob>> => Moves /\ JobsKept
  BY <1>1, StillMoves, StillJobs
<1>4. raw' = raw => RawRemoved  BY DEF RawRemoved
<1>5. {"idle", "slot", "probe", "claim", "drop_object", "drop_row", "check", "insert", "queue"} \subseteq UploadPC
      /\ "idle" \notin EntryPC /\ "slot" \notin EntryPC /\ "probe" \notin EntryPC
      /\ "claim" \notin EntryPC /\ "drop_object" \notin EntryPC /\ "drop_row" \notin EntryPC
  BY DEF UploadPC, EntryPC
<1>6. ASSUME Moves, JobsKept, RawRemoved, UNCHANGED <<expired, sweep, extractor>>, UploadGoto(u, "idle")
      PROVE  UploadInv'
  BY <1>2, <1>5, <1>6, UploaderMoved
<1>7. CASE FinalizeProbe(u)
  <2>1. Moves /\ JobsKept /\ RawRemoved /\ UNCHANGED <<expired, sweep, extractor>> /\ raw' = raw
    BY <1>3, <1>4, <1>7 DEF FinalizeProbe, tables
  <2>2. CASE i \in raw
    <3>1. UploadGoto(u, "claim") /\ item[i] # "none"
      BY <1>0, <1>1, <1>7, <2>2 DEF FinalizeProbe, UploadAt, UploaderInv, UploadStage
    <3>2. upload' = [upload EXCEPT ![u] = [pc |-> "claim", item |-> i]]  BY <1>2, <3>1
    <3> QED  BY <1>5, <2>1, <2>2, <3>1, <3>2, UploaderMoved
  <2>3. CASE i \notin raw
    BY <1>0, <1>6, <1>7, <2>1, <2>3 DEF FinalizeProbe
  <2> QED  BY <2>2, <2>3
<1>8. CASE FinalizeEnter(u)
  <2>1. /\ UploadStage(u) \in EntryPC
        /\ UNCHANGED <<raw, expired, sweep, extractor>> /\ RawRemoved /\ item[i] # "none"
    BY <1>0, <1>1, <1>4, <1>8 DEF FinalizeEnter, Enter, UploadStage, EntryPC, UploaderInv
  <2>2. ASSUME NEW pc \in {"check", "insert", "queue"}, UploadGoto(u, pc), Moves, JobsKept,
               pc # "queue" => Free(i)
        PROVE  UploadInv'
    <3>1. upload' = [upload EXCEPT ![u] = [pc |-> pc, item |-> i]]  BY <1>2, <2>2
    <3>2. pc \in UploadPC  BY <1>5
    <3> QED  BY <1>0, <2>1, <2>2, <3>1, <3>2, UploaderMoved
  <2>3. UploadStage(u) \in {"ready", "check", "insert"} => Free(i)
    BY <1>0, <1>1 DEF UploaderInv
  <2>4. ASSUME NEW next, Enter(i, upload[u].pc, next), UploadGoto(u, IF next = "entered" THEN "idle" ELSE next)
        PROVE  UploadInv'
    <3>1. CASE upload[u].pc = "ready"
      <4>1. Update(i, "audio_ready") /\ tjob' = tjob /\ next = "check"
        BY <2>4, <3>1 DEF Enter
      <4>2. Moves /\ JobsKept
        BY <1>1, <4>1, UpdateMoves, StillJobs DEF Outside, ItemStatus
      <4> QED  BY <2>2, <2>3, <2>4, <3>1, <4>1, <4>2 DEF UploadStage
    <3>2. CASE upload[u].pc = "check"
      <4>1. UNCHANGED <<item, tjob>> /\ next \in {"insert", "queue"}
        BY <2>4, <3>2 DEF Enter, tables
      <4> QED  BY <1>3, <2>2, <2>3, <2>4, <3>2, <4>1 DEF UploadStage
    <3>3. CASE upload[u].pc = "insert"
      <4>1. InsertJob(i) /\ item' = item /\ next = "queue"
        BY <2>4, <3>3 DEF Enter
      <4> QED  BY <1>0, <2>1, <2>4, <3>3, <4>1, CallInsertKeeps DEF UploadAt
    <3>4. CASE upload[u].pc = "queue"
      <4>1. Update(i, "queued_transcription") /\ tjob' = tjob /\ next = "entered"
        BY <2>4, <3>4 DEF Enter
      <4>2. Moves /\ JobsKept
        BY <1>1, <4>1, UpdateMoves, StillJobs DEF Outside, ItemStatus
      <4> QED  BY <1>6, <2>1, <2>4, <4>1, <4>2
    <3> QED  BY <2>1, <3>1, <3>2, <3>3, <3>4 DEF UploadStage, EntryPC
  <2> QED  BY <1>0, <1>8, <2>4 DEF FinalizeEnter
<1>9. CASE FinalizeRefused(u)
  BY <1>3, <1>4, <1>6, <1>9 DEF FinalizeRefused, tables
<1>10. CASE DropObject(u)
  <2>1. i \in expired /\ item[i] # "none"
    BY <1>0, <1>1, <1>10 DEF DropObject, UploadAt, UploaderInv, UploadStage
  <2>2. /\ Moves /\ JobsKept /\ RawRemoved /\ UNCHANGED <<expired, sweep, extractor>>
        /\ UploadGoto(u, "drop_row")
    BY <1>0, <1>3, <1>10, <2>1 DEF DropObject, tables, RawRemoved
  <2>3. upload' = [upload EXCEPT ![u] = [pc |-> "drop_row", item |-> i]]  BY <1>2, <2>2
  <2> QED  BY <1>5, <2>1, <2>2, <2>3, UploaderMoved
<1>11. CASE DropRow(u)
  BY <1>0, <1>1, <1>4, <1>6, <1>11, DeleteKeeps DEF DropRow
<1>12. CASE UploadRaises(u)
  BY <1>3, <1>4, <1>6, <1>12 DEF UploadRaises, tables
<1>13. ASSUME NEW k \in Items, SlotRead(u, k)  PROVE UploadInv'
  <2>1. /\ item[k] = "none" /\ \A v \in Uploaders : UploadStage(v) = "slot" => UploadItem(v) # k
        /\ upload' = [upload EXCEPT ![u] = [pc |-> "slot", item |-> k]]
    BY <1>13 DEF SlotRead, Asked, UploadAt, UploadStage
  <2>2. Moves /\ JobsKept /\ RawRemoved /\ UNCHANGED <<expired, sweep, extractor>>
    BY <1>3, <1>4, <1>13 DEF SlotRead, tables
  <2> QED  BY <1>5, <2>1, <2>2, UploaderMoved
<1>14. ASSUME NEW k \in Items, FinalizeRead(u, k)  PROVE UploadInv'
  <2>1. PICK pc \in {"drop_object", "probe"} :
          /\ pc = "drop_object" => k \in expired
          /\ upload' = [upload EXCEPT ![u] = [pc |-> pc, item |-> k]]
    BY <1>14 DEF FinalizeRead
  <2>2. Moves /\ JobsKept /\ RawRemoved /\ UNCHANGED <<expired, sweep, extractor>> /\ item[k] # "none"
    BY <1>3, <1>4, <1>14 DEF FinalizeRead, tables
  <2>3. pc \in UploadPC /\ pc \notin EntryPC  BY <1>5
  <2> QED  BY <2>1, <2>2, <2>3, UploaderMoved
<1> QED
  BY <1>7, <1>8, <1>9, <1>10, <1>11, <1>12, <1>13, <1>14, SlotKeeps, ClaimKeeps DEF UploadStep

-----------------------------------------------------------------------------
(* The extraction worker.                                                  *)

\* The worker moves to pc for the item i, with what that step needs.
LEMMA ExtractorMoved ==
  ASSUME Typed, UploadInv, Moves, JobsKept, RawRemoved,
         UNCHANGED <<upload, expired, sweep, admin, touched>>,
         NEW pc \in ExtractorPC, NEW i \in Items, extractor'.pc = pc, extractor'.item = i,
         pc \notin {"recover", "poll", "dead"} => i \in Videos /\ ~Fresh(i),
         pc = "remove" => i \in touched \/ ~Inside(i)',
         pc = "insert" => Free(i)
  PROVE  UploadInv'
<1>1. Grows /\ RetryInv' /\ SweepInv' /\ Apart'
  BY DEF Grows, UploadInv, RetryInv, AdminAt, SweepInv, Apart, UploadItem, UploadStage
<1>2. pc = "insert" => Free(i)'  BY <1>1, FreeKept
<1>3. ExtractorInv'
  <2>1. pc = "insert" => Free(extractor.item)'  BY <1>2 DEF Free, Unjobbed
  <2>2. Inside(i)' <=> Inside(extractor.item)'  BY DEF Inside
  <2>3. ~Fresh(i) => ~Fresh(extractor.item)'  BY DEF Fresh, Moves, MovesAt
  <2> QED  BY <2>1, <2>2, <2>3, <1>1 DEF ExtractorInv, Extracting, Grows
<1> QED  BY <1>1, <1>3, StepKeeps

\* The insert of the job of a video: no call holds a video in the entry.
LEMMA ExtractInsertKeeps ==
  ASSUME Typed, UploadInv, ExtractorAt("insert"), InsertJob(extractor.item), ExtractorGoto("queue"),
         UNCHANGED <<item, raw, expired, upload, sweep, admin, touched>>
  PROVE  UploadInv'
<1>0. PICK i \in Items : i = extractor.item  BY TypedFacts
<1>1. i \in Videos /\ ~Fresh(i) /\ Free(i) /\ InsertJob(i)
  BY <1>0 DEF ExtractorAt, UploadInv, ExtractorInv, Extracting
<1>2. TableInv' /\ \A k \in Items \ {i} : Free(k) => Free(k)'
  BY <1>1, InsertedFirst
<1>3. extractor'.pc = "queue" /\ extractor'.item = i
  BY <1>0 DEF ExtractorGoto, Typed, TypeOK, IntakeTyped
<1>4. Moves /\ Grows /\ RawRemoved /\ RetryInv' /\ SweepInv' /\ Apart'
  BY StillMoves
     DEF Grows, RawRemoved, UploadInv, RetryInv, AdminAt, SweepInv, Apart, UploadItem, UploadStage
<1>5. ASSUME NEW u \in Uploaders  PROVE UploaderInv(u)'
  <2>1. UploadItem(u)' = UploadItem(u) /\ UploadItem(u) \in Items
    BY TypedFacts DEF UploadItem
  <2>2. UploadStage(u) \in {"ready", "check", "insert"} => UploadItem(u) # i /\ Free(UploadItem(u))
    BY <1>1 DEF UploadInv, UploaderInv, EntryPC
  <2>3. UploadItem(u) # i /\ Free(UploadItem(u)) => Free(UploadItem(u))'
    BY <1>2, <2>1 DEF Free, Unjobbed
  <2> QED  BY <1>4, <2>1, <2>2, <2>3, UploaderKept DEF Moves
<1>6. ExtractorInv'
  BY <1>1, <1>3 DEF ExtractorInv, Extracting, Fresh
<1>7. RawInv'  BY <1>4, RawStays
<1> QED  BY <1>2, <1>4, <1>5, <1>6, <1>7 DEF UploadInv

\* An item that an extraction had claimed goes back to wait for it.
LEMMA RequeueMoves ==
  ASSUME TablesTyped, RequeueExtracting
  PROVE  Moves
BY DEF TablesTyped, RequeueExtracting, Moves, MovesAt, Inside

\* Every step of the extraction worker.
LEMMA ExtractKeeps ==
  ASSUME Typed, UploadInv, ExtractStep \/ ExtractRecoverRaises \/ ExtractRaises,
         UNCHANGED <<admin, touched>>
  PROVE  UploadInv'
<1>0. PICK i \in Items : i = extractor.item  BY TypedFacts
<1>1. ExtractorInv /\ TablesTyped  BY DEF UploadInv, Typed, TypeOK
<1>2. ASSUME NEW pc, ExtractorGoto(pc)  PROVE extractor'.pc = pc /\ extractor'.item = i
  BY <1>0, <1>2 DEF ExtractorGoto, Typed, TypeOK, IntakeTyped
<1>3. UNCHANGED <<item, tjob>> => Moves /\ JobsKept
  BY <1>1, StillMoves, StillJobs
<1>4. raw' = raw => RawRemoved  BY DEF RawRemoved
<1>5. {"recover", "poll", "extract", "fail", "remove", "dead", "ready", "check", "insert", "queue"}
        \subseteq ExtractorPC
  BY DEF ExtractorPC, EntryPC
<1>6. ASSUME Moves, JobsKept, RawRemoved, UNCHANGED <<upload, expired, sweep>>,
             NEW pc \in {"poll", "dead"}, ExtractorGoto(pc)
      PROVE  UploadInv'
  <2>1. extractor'.pc = pc /\ extractor'.item = i /\ pc \in ExtractorPC  BY <1>2, <1>5, <1>6
  <2> QED  BY <1>6, <2>1, ExtractorMoved
<1>7. Extracting => i \in Videos /\ ~Fresh(i)  BY <1>0, <1>1 DEF ExtractorInv
<1>8. ASSUME Moves, JobsKept, RawRemoved, UNCHANGED <<upload, expired, sweep>>, Extracting,
             NEW pc \in {"extract", "fail", "ready", "check", "insert", "queue", "remove"},
             extractor'.pc = pc, extractor'.item = i,
             pc = "remove" => ~Inside(i)', pc = "insert" => Free(i)
      PROVE  UploadInv'
  <2>1. pc \in ExtractorPC  BY <1>5
  <2> QED  BY <1>7, <1>8, <2>1, ExtractorMoved
<1>9. CASE ExtractRecover
  BY <1>1, <1>4, <1>6, <1>9, RequeueMoves, StillJobs DEF ExtractRecover
<1>10. CASE ExtractClaim
  <2>1. PICK k \in Items :
          /\ item[k] = "pending_extraction"
          /\ Update(k, "extracting_audio")
          /\ extractor' = [pc |-> "extract", item |-> k, attempt |-> 1]
    BY <1>10 DEF ExtractClaim
  <2>2. k \in Videos /\ ~Fresh(k)  BY <2>1 DEF UploadInv, RawInv, Inside, Fresh
  <2>3. Moves
    BY <1>1, <2>1 DEF TablesTyped, Update, Present, Moves, MovesAt, Inside
  <2>4. JobsKept /\ RawRemoved /\ UNCHANGED <<upload, expired, sweep>>
    BY <1>1, <1>4, <1>10, StillJobs DEF ExtractClaim
  <2>5. "extract" \in ExtractorPC /\ extractor'.pc = "extract" /\ extractor'.item = k  BY <1>5, <2>1
  <2> QED  BY <2>2, <2>3, <2>4, <2>5, ExtractorMoved
<1>11. CASE ExtractSucceeds
  BY <1>2, <1>3, <1>4, <1>8, <1>11 DEF ExtractSucceeds, tables, ExtractorAt, Extracting
<1>12. CASE ExtractAttemptFails
  <2>1. PICK pc \in {"extract", "fail"} : extractor'.pc = pc /\ extractor'.item = i
    BY <1>0, <1>12 DEF ExtractAttemptFails, ExtractorAt, Typed, TypeOK, IntakeTyped
  <2> QED  BY <1>3, <1>4, <1>8, <1>12, <2>1 DEF ExtractAttemptFails, tables, ExtractorAt, Extracting
<1>13. CASE ExtractMissing
  BY <1>3, <1>4, <1>6, <1>13 DEF ExtractMissing, tables
<1>14. CASE ExtractMarkFailed
  <2>1. Update(i, "failed")  BY <1>0, <1>14 DEF ExtractMarkFailed
  <2>2. Moves  BY <1>1, <2>1, UpdateMoves DEF Outside, ItemStatus
  <2> QED  BY <1>1, <1>4, <1>6, <1>14, <2>2, StillJobs DEF ExtractMarkFailed
<1>15. CASE ExtractEnter
  <2>1. /\ extractor.pc \in EntryPC /\ Extracting
        /\ UNCHANGED <<raw, expired, upload, sweep>> /\ RawRemoved
    BY <1>4, <1>15 DEF ExtractEnter, Enter, Extracting, EntryPC
  <2>2. ASSUME NEW next, Enter(i, extractor.pc, next),
               ExtractorGoto(IF next = "entered" THEN "remove" ELSE next)
        PROVE  UploadInv'
    <3>1. CASE extractor.pc = "ready"
      <4>1. Update(i, "audio_ready") /\ tjob' = tjob /\ next = "check"
        BY <2>2, <3>1 DEF Enter
      <4>2. Moves /\ JobsKept
        BY <1>1, <4>1, UpdateMoves, StillJobs DEF Outside, ItemStatus
      <4> QED  BY <1>2, <1>8, <2>1, <2>2, <4>1, <4>2
    <3>2. CASE extractor.pc = "check"
      <4>1. UNCHANGED <<item, tjob>> /\ next \in {"insert", "queue"} /\ (next = "insert" => ~HasJob(i))
        BY <2>2, <3>2 DEF Enter, tables
      <4>2. ~HasJob(i) => Free(i)
        BY DEF HasJob, JobsOf, Free, Unjobbed, UploadInv, TableInv
      <4>3. extractor'.pc = next /\ extractor'.item = i  BY <1>2, <2>2, <4>1
      <4>4. Moves /\ JobsKept  BY <1>3, <4>1
      <4> QED  BY <1>8, <2>1, <4>1, <4>2, <4>3, <4>4
    <3>3. CASE extractor.pc = "insert"
      <4>1. InsertJob(i) /\ item' = item /\ next = "queue"
        BY <2>2, <3>3 DEF Enter
      <4> QED  BY <1>0, <2>1, <2>2, <3>3, <4>1, ExtractInsertKeeps DEF ExtractorAt
    <3>4. CASE extractor.pc = "queue"
      <4>1. Update(i, "queued_transcription") /\ tjob' = tjob /\ next = "entered"
        BY <2>2, <3>4 DEF Enter
      <4>2. Moves /\ JobsKept
        BY <1>1, <4>1, UpdateMoves, StillJobs DEF Outside, ItemStatus
      <4>3. ~Inside(i)'
        BY <1>1, <4>1 DEF Update, Present, Inside, TablesTyped
      <4>4. extractor'.pc = "remove" /\ extractor'.item = i  BY <1>2, <2>2, <4>1
      <4> QED  BY <1>8, <2>1, <4>2, <4>3, <4>4
    <3> QED  BY <2>1, <3>1, <3>2, <3>3, <3>4 DEF EntryPC
  <2> QED  BY <1>0, <1>15, <2>2 DEF ExtractEnter
<1>16. CASE ExtractRefused
  BY <1>3, <1>4, <1>6, <1>16 DEF ExtractRefused, tables
<1>17. CASE ExtractRemoveRaw
  <2>1. RawRemoved  BY <1>17 DEF ExtractRemoveRaw, ExtractorAt, RawRemoved
  <2> QED  BY <1>3, <1>6, <1>17, <2>1 DEF ExtractRemoveRaw, tables
<1>18. CASE ExtractRecoverRaises
  BY <1>3, <1>4, <1>6, <1>18 DEF ExtractRecoverRaises, tables
<1>19. CASE ExtractRaises
  BY <1>3, <1>4, <1>6, <1>19 DEF ExtractRaises, tables
<1> QED
  BY <1>9, <1>10, <1>11, <1>12, <1>13, <1>14, <1>15, <1>16, <1>17, <1>18, <1>19 DEF ExtractStep

-----------------------------------------------------------------------------
(* The bucket, the clock and the cleanup of the expired slots.             *)

LEMMA CleanupKeeps ==
  ASSUME Typed, UploadInv, NEW i \in Items,
         \/ PutObject(i) \/ Expire(i) \/ SweepObjectFails(i) \/ SweepList \/ SweepRaises
         \/ SweepObject(i) \/ SweepRow(i),
         UNCHANGED <<admin, touched>>
  PROVE  UploadInv'
<1>1. TablesTyped /\ SweepInv  BY DEF UploadInv, Typed, TypeOK
<1>2. UNCHANGED <<upload, extractor>>
  BY DEF PutObject, Expire, SweepObjectFails, SweepList, SweepRaises, SweepObject, SweepRow
<1>3. Grows /\ RetryInv' /\ Apart'
  BY <1>2 DEF PutObject, Expire, SweepObjectFails, SweepList, SweepRaises, SweepObject, SweepRow,
              Grows, UploadInv, RetryInv, AdminAt, Apart, UploadItem, UploadStage
<1>4. Moves /\ JobsKept
  <2>1. CASE SweepRow(i)  BY <1>1, <2>1, DeleteKeeps DEF SweepRow
  <2>2. CASE ~SweepRow(i)
    BY <1>1, <2>2, StillMoves, StillJobs
       DEF PutObject, Expire, SweepObjectFails, SweepList, SweepRaises, SweepObject, tables
  <2> QED  BY <2>1, <2>2
<1>5. RawRemoved
  BY <1>1 DEF PutObject, Expire, SweepObjectFails, SweepList, SweepRaises, SweepObject, SweepRow,
              RawRemoved, SweepInv
<1>6. SweepInv'
  BY <1>1 DEF PutObject, Expire, SweepObjectFails, SweepList, SweepRaises, SweepObject, SweepRow,
              SweepInv, NoSweep, Typed, TypeOK, IntakeTyped
<1>7. ExtractorInv'  BY <1>2, <1>3, <1>4, ExtractorStill
<1> QED  BY <1>2, <1>3, <1>4, <1>5, <1>6, <1>7, StepKeeps

LEMMA IntakeKeeps ==
  ASSUME Typed, UploadInv, InIntake(IntakeNext)
  PROVE  UploadInv'
<1>1. UNCHANGED <<admin, touched>> /\ \E i \in Items : TRUE
  BY ItemAssumption DEF InIntake, Others
<1> QED  BY <1>1, CallKeeps, CleanupKeeps, ExtractKeeps DEF InIntake, IntakeNext, SweepStep

-----------------------------------------------------------------------------
(* The components that share the tables only.                              *)

\* The worker containers and the reconciliation.
LEMMA TranscriptionKeeps ==
  ASSUME Typed, UploadInv, InTranscription(TranscriptionNext)
  PROVE  UploadInv'
<1>1. TablesTyped /\ UNCHANGED <<intake, admin, touched>>
  BY DEF Typed, TypeOK, InTranscription, Others
<1>2. Grows /\ RetryInv'  BY <1>1 DEF Grows, intake, UploadInv, RetryInv, AdminAt
<1>3. SUFFICES Moves /\ JobsKept  BY <1>1, <1>2, QuietKeeps
<1>4. TranscriptionNext  BY DEF InTranscription
<1>5. ASSUME NEW w \in Workers  PROVE worker[w].item \in Items
  BY DEF Typed, TypeOK, WorkersTyped
<1>6. ASSUME NEW w \in Workers, WorkerMarksItem(w)  PROVE Moves /\ JobsKept
  <2>1. Update(worker[w].item, "transcribed") /\ tjob' = tjob
    BY <1>6 DEF WorkerMarksItem, Ready
  <2> QED  BY <1>1, <1>5, <2>1, UpdateMoves, StillJobs DEF Outside, ItemStatus
<1>7. ASSUME NEW w \in Workers, NEW j, NEW st \in {"claimed", "done", "failed"}, SetJob(j, st), item' = item
      PROVE  Moves /\ JobsKept
  BY <1>1, <1>7, SetJobKeeps, StillMoves
<1>8. CASE Reconcile
  <2>1. Moves
    BY <1>1, <1>8 DEF Reconcile, FailDeadItems, Dead, TablesTyped, Moves, MovesAt, Inside
  <2> QED  BY <1>1, <1>8, <2>1, StillJobs DEF Reconcile
<1>9. CASE UNCHANGED <<item, tjob>>  BY <1>1, <1>9, StillMoves, StillJobs
<1> QED
  BY <1>4, <1>6, <1>7, <1>8, <1>9
     DEF TranscriptionNext, WorkerStep, WorkerClaim, WorkerTranscribes, WorkerMarksDone,
         WorkerMarksFailed, WorkerRaises, WorkerDies, tables

\* The deposit.
LEMMA DepositKeeps ==
  ASSUME Typed, UploadInv, InDeposit(DepositNext)
  PROVE  UploadInv'
<1>1. TablesTyped /\ UNCHANGED <<intake, admin, touched>>
  BY DEF Typed, TypeOK, InDeposit, Others
<1>2. Grows /\ RetryInv'  BY <1>1 DEF Grows, intake, UploadInv, RetryInv, AdminAt
<1>3. DepositNext /\ tjob' = tjob
  BY DEF InDeposit, DepositNext, DepositStep, DepositRecover, DepositClaim, DepositSucceeds,
         DepositAttemptFails, DepositMark, DepositMarkFailed, DepositRecoverRaises, DepositRaises, tables
<1>4. Moves
  <2>1. ASSUME NEW i \in Items, NEW st \in {"depositing", "deposited", "failed"}, Update(i, st)
        PROVE  Moves
    BY <1>1, <2>1, UpdateMoves DEF Outside, ItemStatus
  <2>2. depositor.item \in Items  BY DEF Typed, TypeOK, DepositTyped
  <2>3. CASE DepositRecover
    BY <1>1, <2>3 DEF DepositRecover, RequeueDepositing, TablesTyped, Moves, MovesAt, Inside
  <2> QED
    BY <1>3, <2>1, <2>2, <2>3, StillMoves
       DEF DepositNext, DepositStep, DepositClaim, DepositSucceeds, DepositAttemptFails,
           DepositMark, DepositMarkFailed, DepositRecoverRaises, DepositRaises, tables
<1> QED  BY <1>1, <1>2, <1>3, <1>4, StillJobs, QuietKeeps

\* The administration: a retry inserts the job of an item it has touched, a
\* cancellation touches the items whose jobs it cancels.
LEMMA AdminKeeps ==
  ASSUME Typed, UploadInv, AdminNext
  PROVE  UploadInv'
<1>1. TablesTyped /\ RetryInv  BY DEF Typed, TypeOK, UploadInv
<1>2. PICK a \in Admins : AdminStep(a) \/ AdminRaises(a) \/ RetryRead(a) \/ CancelRead(a) \/ CloseRead(a)
  BY DEF AdminNext
<1>3. UNCHANGED intake /\ Grows
  BY <1>2 DEF AdminStep, AdminRaises, RetryRead, CancelRead, CloseRead, RetryInsert, RetryRefused, RetryQueue,
              RetryEnds, CancelJobs, CancelStatus, CloseWrite, RetryDeposit, RetryVideo, RetryAudio,
              OutsideAdmin, intake, Grows
<1>4. /\ \A b \in Admins \ {a} : admin'[b] = admin[b]
      /\ AdminAt(a, "retry_insert")' => admin'[a].item \in touched'
  BY <1>2 DEF AdminStep, AdminRaises, RetryRead, CancelRead, CloseRead, RetryInsert, RetryRefused, RetryQueue,
              RetryEnds, CancelJobs, CancelStatus, CloseWrite, RetryDeposit, RetryVideo, RetryAudio,
              Handling, AdminAt, AdminGoto, NoCall, Typed, TypeOK
<1>5. RetryInv'  BY <1>1, <1>3, <1>4 DEF RetryInv, AdminAt, Grows
<1>6. SUFFICES Moves /\ JobsKept  BY <1>3, <1>5, QuietKeeps
<1>7. ASSUME NEW i \in Items, NEW st \in {"audio_ready", "queued_transcription", "transcribed"}, Update(i, st)
      PROVE  Moves
  BY <1>1, <1>7, UpdateMoves DEF Outside, ItemStatus
<1>8. CASE RetryInsert(a)
  <2>1. PICK i \in Items : i = admin[a].item  BY DEF Typed, TypeOK
  <2>2. i \in touched' /\ InsertJob(i) /\ item' = item
    BY <1>1, <1>8, <2>1 DEF RetryInsert, RetryInv
  <2>3. JobsKept  BY <1>1, <2>2, InsertKeeps DEF JobsKept
  <2> QED  BY <2>2, <2>3, StillMoves
<1>9. CASE CancelJobs(a)
  <2>1. item' = item  BY <1>9 DEF CancelJobs
  <2>2. JobsKept
    BY <1>1, <1>9 DEF CancelJobs, CancelRows, TablesTyped, JobsKept, Row, Running, JobsOf
  <2> QED  BY <2>1, <2>2, StillMoves
<1>10. CASE tjob' = tjob
  <2>1. JobsKept  BY <1>1, <1>10, StillJobs
  <2>2. ASSUME NEW i \in Items, RetryVideo(a, i)  PROVE Moves
    BY <1>1, <2>2 DEF RetryVideo, Update, Present, TablesTyped, Moves, MovesAt, Inside
  <2>3. RetryQueue(a) => Moves
    BY <1>7 DEF RetryQueue, Typed, TypeOK
  <2>4. item' = item => Moves  BY StillMoves
  <2>5. ASSUME NEW i \in Items, RetryDeposit(a, i) \/ RetryAudio(a, i)  PROVE Moves
    BY <1>7, <2>5 DEF RetryDeposit, RetryAudio, Ready
  <2> QED
    BY <1>2, <2>1, <2>2, <2>3, <2>4, <2>5, <1>8, <1>9
       DEF AdminStep, AdminRaises, RetryRead, CancelRead, CloseRead, RetryRefused, RetryEnds, CancelStatus,
           CloseWrite, tables
<1> QED
  BY <1>2, <1>8, <1>9, <1>10
     DEF AdminStep, AdminRaises, RetryRead, CancelRead, CloseRead, RetryRefused, RetryQueue, RetryEnds,
         CancelStatus, CloseWrite, RetryDeposit, RetryVideo, RetryAudio, tables

\* A restart loses the calls, the sweep and the extraction in progress.
LEMMA RestartKeeps ==
  ASSUME Typed, UploadInv, Restart
  PROVE  UploadInv'
<1>1. Moves /\ JobsKept /\ Grows /\ RawRemoved
  BY StillMoves, StillJobs DEF Restart, tables, Grows, RawRemoved, Typed, TypeOK
<1>2. \A u \in Uploaders : UploadStage(u)' = "idle"
  BY DEF Restart, NoUpload, UploadStage
<1>3. RetryInv' /\ SweepInv' /\ ExtractorInv' /\ Apart'
  BY <1>2 DEF Restart, NoCall, NoSweep, FreshExtractor, RetryInv, AdminAt, SweepInv, ExtractorInv,
              Extracting, Apart, EntryPC
<1>4. \A u \in Uploaders : UploaderInv(u)'  BY <1>2 DEF UploaderInv, EntryPC
<1> QED  BY <1>1, <1>3, <1>4, StepKeeps

-----------------------------------------------------------------------------
(* The theorems.                                                           *)

LEMMA InitUpload == Init => UploadInv
<1> SUFFICES ASSUME Init PROVE UploadInv  OBVIOUS
<1>1. \A j \in JobIds : ~Row(j) /\ tjob[j].status = "absent"  BY DEF Init, TablesInit, Row
<1>2. \A i \in Items : item[i] = "none"  BY DEF Init, TablesInit
<1>3. \A u \in Uploaders : UploadStage(u) = "idle"
  BY DEF Init, IntakeInit, NoUpload, UploadStage
<1>4. Apart /\ \A u \in Uploaders : UploaderInv(u)
  BY <1>3 DEF UploaderInv, Apart, EntryPC
<1>5. ExtractorInv /\ SweepInv /\ RetryInv
  BY DEF Init, IntakeInit, FreshExtractor, NoSweep, NoCall, ExtractorInv, Extracting, SweepInv,
         RetryInv, AdminAt
<1>6. RawInv  BY <1>2, ItemAssumption DEF RawInv, RawKept, Inside
<1>7. TableInv  BY <1>1 DEF TableInv, Free, Unjobbed
<1> QED  BY <1>4, <1>5, <1>6, <1>7 DEF UploadInv

LEMMA NextUpload == Typed /\ UploadInv /\ [Next]_vars => UploadInv'
<1> SUFFICES ASSUME Typed, UploadInv, [Next]_vars PROVE UploadInv'  OBVIOUS
<1>1. CASE UNCHANGED vars
  <2>1. Moves /\ JobsKept /\ Grows /\ RetryInv' /\ UNCHANGED intake
    BY <1>1, StillMoves, StillJobs
       DEF vars, tables, intake, Grows, UploadInv, RetryInv, AdminAt, Typed, TypeOK
  <2> QED  BY <2>1, QuietKeeps
<1> QED
  BY <1>1, IntakeKeeps, TranscriptionKeeps, DepositKeeps, AdminKeeps, RestartKeeps DEF Next

LEMMA UploadInvariant == Spec => [](TypeOK /\ UploadInv)
<1>1. TypeOK /\ UploadInv /\ TypeOK' /\ [Next]_vars => UploadInv'  BY NextUpload DEF Typed
<1> QED  BY InitUpload, <1>1, UploadTypeCorrect, PTL DEF Spec

\* As long as no retry touched it and it is not expired, a video that waits for
\* its extraction, or is in it, has its raw object: the extraction that starts
\* again after a crash finds it.
THEOREM RawVideoKept == Spec => []RawKept
<1>1. UploadInv => RawKept  BY DEF UploadInv, RawInv
<1> QED  BY <1>1, UploadInvariant, PTL

\* An upload has one transcription job at most, however many calls finalize it,
\* crash and start again, until a retry or a cancellation touches it.
THEOREM TranscribedOnce == Spec => []OneTranscription
<1>1. ASSUME TypeOK, UploadInv, NEW i \in Items \ touched  PROVE Cardinality(JobsOf(i)) <= 1
  <2>1. CASE JobsOf(i) = {}
    <3>1. Cardinality(JobsOf(i)) = 0  BY <2>1, FS_EmptySet
    <3> QED  BY <3>1
  <2>2. CASE JobsOf(i) # {}
    <3>1. PICK j \in JobsOf(i) : TRUE  BY <2>2
    <3>2. JobsOf(i) = {j}
      BY <1>1, <3>1 DEF JobsOf, UploadInv, TableInv
    <3>3. Cardinality(JobsOf(i)) = 1  BY <3>2, FS_Singleton
    <3> QED  BY <3>3
  <2> QED  BY <2>1, <2>2
<1>2. TypeOK /\ UploadInv => OneTranscription  BY <1>1 DEF OneTranscription
<1> QED  BY <1>2, UploadInvariant, PTL

-----------------------------------------------------------------------------
(* The slots that are deleted and the audio files that are ready.          *)

NoneReady == \A i \in Items : item'[i] = "audio_ready" => item[i] = "audio_ready"
DeletedInTime == \A i \in Items : item'[i] = "deleted" => item[i] = "deleted" \/ i \in expired

CallHolds(i) == \E u \in Uploaders : upload[u].pc \in EntryPC /\ UploadItem(u) = i
ExtractorHolds(i) == extractor.pc \in EntryPC /\ extractor.item = i
RetryHolds(i) == \E a \in Admins : admin[a].pc \in {"retry_insert", "retry_queue"} /\ admin[a].item = i

\* An audio file that is ready after a step of a component is held there, or was
\* ready and held elsewhere.
CallsKeep ==
  \A i \in Items : item'[i] = "audio_ready" => CallHolds(i)' \/ (item[i] = "audio_ready" /\ ~CallHolds(i))
ExtractorKeeps ==
  \A i \in Items : item'[i] = "audio_ready" => ExtractorHolds(i)' \/ (item[i] = "audio_ready" /\ ~ExtractorHolds(i))
RetriesKeep ==
  \A i \in Items : item'[i] = "audio_ready" => RetryHolds(i)' \/ (item[i] = "audio_ready" /\ ~RetryHolds(i))

\* The write of another status.
LEMMA UpdateReadies ==
  ASSUME TablesTyped, NEW i \in Items, NEW st \in ItemStatus \ {"deleted"}, Update(i, st)
  PROVE  /\ DeletedInTime
         /\ \A k \in Items : item'[k] = "audio_ready" => (k = i /\ st = "audio_ready") \/ (k # i /\ item[k] = "audio_ready")
BY DEF TablesTyped, Update, Present, DeletedInTime

\* A call that moves answers for its item, or the item is not ready any more.
LEMMA CallMoves ==
  ASSUME NEW u \in Uploaders, \A v \in Uploaders \ {u} : upload'[v] = upload[v],
         \A i \in Items : item'[i] = "audio_ready" =>
           \/ upload'[u].pc \in EntryPC /\ upload'[u].item = i
           \/ item[i] = "audio_ready" /\ (upload[u].pc \notin EntryPC \/ i # UploadItem(u))
  PROVE  CallsKeep
BY DEF CallsKeep, CallHolds, UploadItem

LEMMA CallReadies ==
  ASSUME Typed, UploadInv, NEW u \in Uploaders,
         UploadStep(u) \/ \E i \in Items : SlotRead(u, i) \/ FinalizeRead(u, i)
  PROVE  CallsKeep /\ DeletedInTime
<1>0. PICK i \in Items : i = UploadItem(u) /\ upload[u].item = i  BY TypedFacts DEF UploadItem
<1>1. TablesTyped /\ upload \in [Uploaders -> [pc : UploadPC, item : Items]]
  BY TypedFacts DEF Typed, TypeOK
<1>2. ASSUME NEW pc, UploadGoto(u, pc)
      PROVE  upload'[u].pc = pc /\ upload'[u].item = i /\ \A v \in Uploaders \ {u} : upload'[v] = upload[v]
  BY <1>0, <1>1, <1>2 DEF UploadGoto
<1>3. CASE \E k \in Items : SlotRead(u, k) \/ FinalizeRead(u, k)
  <2>1. item' = item /\ upload[u].pc \notin EntryPC /\ \A v \in Uploaders \ {u} : upload'[v] = upload[v]
    BY <1>1, <1>3 DEF SlotRead, FinalizeRead, UploadAt, EntryPC, tables
  <2> QED  BY <2>1, CallMoves DEF DeletedInTime
<1>4. CASE FinalizeProbe(u) \/ DropObject(u)
  <2>1. item' = item /\ upload[u].pc \notin EntryPC /\ \A v \in Uploaders \ {u} : upload'[v] = upload[v]
    BY <1>2, <1>4 DEF FinalizeProbe, DropObject, UploadAt, EntryPC, tables
  <2> QED  BY <2>1, CallMoves DEF DeletedInTime
<1>5. CASE SlotInsert(u)
  <2>1. /\ upload[u].pc \notin EntryPC /\ \A v \in Uploaders \ {u} : upload'[v] = upload[v]
        /\ item' = [item EXCEPT ![i] = "awaiting_upload"]
    BY <1>0, <1>2, <1>5 DEF SlotInsert, UploadAt, EntryPC
  <2> QED  BY <1>1, <2>1, CallMoves DEF DeletedInTime, TablesTyped
<1>6. CASE FinalizeClaim(u)
  <2>1. upload[u].pc \notin EntryPC  BY <1>6 DEF FinalizeClaim, UploadAt, EntryPC
  <2>2. CASE UNCHANGED item /\ UploadGoto(u, "idle")
    BY <1>2, <2>1, <2>2, CallMoves DEF DeletedInTime
  <2>3. ASSUME NEW st \in {"pending_extraction", "audio_ready"}, Update(i, st),
               UploadGoto(u, IF st = "audio_ready" THEN "ready" ELSE "idle")
        PROVE  CallsKeep /\ DeletedInTime
    <3>1. st \in ItemStatus \ {"deleted"}  BY DEF ItemStatus
    <3>2. DeletedInTime /\ \A k \in Items : item'[k] = "audio_ready" => (k = i /\ st = "audio_ready") \/ (k # i /\ item[k] = "audio_ready")
      BY <1>1, <2>3, <3>1, UpdateReadies
    <3>3. /\ \A v \in Uploaders \ {u} : upload'[v] = upload[v]
          /\ st = "audio_ready" => upload'[u].pc \in EntryPC /\ upload'[u].item = i
      BY <1>0, <1>1, <1>2, <2>3 DEF EntryPC
    <3> QED  BY <2>1, <3>2, <3>3, CallMoves
  <2> QED  BY <1>0, <1>6, <2>2, <2>3 DEF FinalizeClaim
<1>7. CASE FinalizeEnter(u)
  <2>1. PICK next \in EntryPC \cup {"entered"} :
          /\ Enter(i, upload[u].pc, next)
          /\ UploadGoto(u, IF next = "entered" THEN "idle" ELSE next)
    BY <1>0, <1>7 DEF FinalizeEnter
  <2>2. \A v \in Uploaders \ {u} : upload'[v] = upload[v]  BY <1>2, <2>1
  <2>3. next # "entered" => upload'[u].pc \in EntryPC /\ upload'[u].item = i
    BY <1>0, <1>1, <1>2, <2>1 DEF EntryPC
  <2>4. CASE item' = item /\ next # "entered"
    BY <1>0, <2>2, <2>3, <2>4, CallMoves DEF DeletedInTime
  <2>5. CASE Update(i, "audio_ready") /\ next # "entered"
    <3>1. "audio_ready" \in ItemStatus \ {"deleted"}  BY DEF ItemStatus
    <3>2. DeletedInTime /\ \A k \in Items : item'[k] = "audio_ready" => k = i \/ item[k] = "audio_ready"
      BY <1>1, <2>5, <3>1, UpdateReadies
    <3> QED  BY <1>0, <2>2, <2>3, <2>5, <3>2, CallMoves
  <2>6. CASE Update(i, "queued_transcription")
    <3>1. "queued_transcription" \in ItemStatus \ {"deleted", "audio_ready"}  BY DEF ItemStatus
    <3>2. DeletedInTime /\ \A k \in Items : item'[k] = "audio_ready" => k # i /\ item[k] = "audio_ready"
      BY <1>1, <2>6, <3>1, UpdateReadies
    <3> QED  BY <1>0, <2>2, <3>2, CallMoves
  <2> QED  BY <2>1, <2>4, <2>5, <2>6 DEF Enter, tables
<1>8. CASE FinalizeRefused(u)
  <2>1. item' = item /\ item[i] # "audio_ready" /\ \A v \in Uploaders \ {u} : upload'[v] = upload[v]
    BY <1>0, <1>2, <1>8 DEF FinalizeRefused, EntryRefused, Present, tables
  <2> QED  BY <1>0, <2>1, CallMoves DEF DeletedInTime
<1>9. CASE DropRow(u)
  <2>1. Update(i, "deleted") /\ i \in expired /\ upload[u].pc \notin EntryPC
    BY <1>0, <1>9 DEF DropRow, DeleteItem, UploadAt, EntryPC, UploadInv, UploaderInv, UploadStage
  <2>2. \A v \in Uploaders \ {u} : upload'[v] = upload[v]  BY <1>2, <1>9 DEF DropRow
  <2>3. \A k \in Items : item'[k] = item[k] \/ (k = i /\ item'[k] = "deleted")
    BY <1>1, <2>1 DEF Update, TablesTyped
  <2> QED  BY <2>1, <2>2, <2>3, CallMoves DEF DeletedInTime
<1> QED  BY <1>3, <1>4, <1>5, <1>6, <1>7, <1>8, <1>9 DEF UploadStep

\* The extraction worker.
LEMMA ExtractReadies ==
  ASSUME Typed, UploadInv, ExtractStep
  PROVE  ExtractorKeeps /\ DeletedInTime
<1>0. PICK i \in Items : i = extractor.item  BY TypedFacts
<1>1. TablesTyped /\ extractor \in [pc : ExtractorPC, item : Items, attempt : 1 .. ExtractAttempts]
  BY DEF Typed, TypeOK, IntakeTyped
<1> USE <1>0, <1>1 DEF ExtractorKeeps, ExtractorHolds, ExtractorAt, ExtractorGoto, EntryPC
<1>2. CASE ExtractRecover \/ ExtractClaim
  BY <1>2 DEF ExtractRecover, ExtractClaim, RequeueExtracting, Update, TablesTyped, DeletedInTime
<1>3. CASE ExtractSucceeds \/ ExtractAttemptFails \/ ExtractMissing \/ ExtractRemoveRaw
  BY <1>3 DEF ExtractSucceeds, ExtractAttemptFails, ExtractMissing, ExtractRemoveRaw, tables, DeletedInTime
<1>4. CASE ExtractMarkFailed
  BY <1>4 DEF ExtractMarkFailed, Update, TablesTyped, DeletedInTime
<1>5. CASE ExtractRefused
  BY <1>5 DEF ExtractRefused, EntryRefused, Present, tables, DeletedInTime
<1>6. CASE ExtractEnter
  <2>1. PICK next \in EntryPC \cup {"entered"} :
          Enter(i, extractor.pc, next) /\ ExtractorGoto(IF next = "entered" THEN "remove" ELSE next)
    BY <1>6 DEF ExtractEnter
  <2>2. next # "entered" => extractor'.pc \in EntryPC /\ extractor'.item = i  BY <2>1
  <2>3. CASE item' = item /\ next # "entered"  BY <2>2, <2>3 DEF DeletedInTime
  <2>4. CASE Update(i, "audio_ready") /\ next # "entered"
    BY <2>2, <2>4 DEF Update, TablesTyped, DeletedInTime
  <2>5. CASE Update(i, "queued_transcription")
    BY <2>5 DEF Update, Present, TablesTyped, DeletedInTime
  <2> QED  BY <2>1, <2>3, <2>4, <2>5 DEF Enter, tables
<1> QED  BY <1>2, <1>3, <1>4, <1>5, <1>6 DEF ExtractStep

\* The components that hold no audio file.
LEMMA QuietReadies ==
  ASSUME TypeOK, TranscriptionNext \/ DepositNext
  PROVE  NoneReady /\ DeletedInTime
<1>1. /\ item \in [Items -> ItemStatus] /\ depositor.item \in Items
      /\ \A w \in Workers : worker[w].item \in Items
  BY DEF TypeOK, TablesTyped, DepositTyped, WorkersTyped
<1>2. ASSUME NEW i \in Items, NEW st \in {"transcribed", "depositing", "deposited", "failed"}, Update(i, st)
      PROVE  NoneReady /\ DeletedInTime
  BY <1>1, <1>2 DEF Update, NoneReady, DeletedInTime
<1>3. CASE UNCHANGED item  BY <1>3 DEF NoneReady, DeletedInTime
<1>4. CASE Reconcile \/ DepositRecover
  BY <1>1, <1>4 DEF Reconcile, FailDeadItems, DepositRecover, RequeueDepositing, NoneReady, DeletedInTime
<1> QED
  BY <1>1, <1>2, <1>3, <1>4
     DEF TranscriptionNext, WorkerStep, WorkerClaim, WorkerTranscribes, WorkerMarksDone, WorkerMarksItem,
         WorkerMarksFailed, WorkerRaises, WorkerDies, Ready, tables, DepositNext, DepositStep, DepositClaim,
         DepositSucceeds, DepositAttemptFails, DepositMark, DepositMarkFailed, DepositRecoverRaises, DepositRaises

\* The bucket, the clock and the cleanup, whose slots have expired.
LEMMA CleanupReadies ==
  ASSUME Typed, UploadInv, NEW i \in Items,
         \/ PutObject(i) \/ Expire(i) \/ SweepObjectFails(i) \/ SweepList \/ SweepRaises
         \/ SweepObject(i) \/ SweepRow(i)
  PROVE  NoneReady /\ DeletedInTime
<1>1. CASE SweepRow(i)
  <2>1. Update(i, "deleted") /\ i \in expired
    BY <1>1 DEF SweepRow, DeleteItem, UploadInv, SweepInv
  <2> QED  BY <2>1, TypedFacts DEF Update, NoneReady, DeletedInTime
<1>2. CASE ~SweepRow(i)
  BY <1>2 DEF PutObject, Expire, SweepObjectFails, SweepList, SweepRaises, SweepObject, tables,
              NoneReady, DeletedInTime
<1> QED  BY <1>1, <1>2

\* The administration: a retry holds the audio file it makes ready.
LEMMA RetryReadies ==
  ASSUME Typed, UploadInv, AdminNext
  PROVE  DeletedInTime /\ (RetriesKeep \/ faults' # 0)
<1>1. /\ TablesTyped
      /\ admin \in [Admins -> [pc : AdminPC, todo : SUBSET Items, scripted : SUBSET Items, item : Items]]
  BY DEF Typed, TypeOK
<1>2. PICK a \in Admins : AdminStep(a) \/ AdminRaises(a) \/ RetryRead(a) \/ CancelRead(a) \/ CloseRead(a)
  BY DEF AdminNext
<1> DEFINE Had(i) == admin[a].pc \in {"retry_insert", "retry_queue"} /\ admin[a].item = i
           Holds(i) == admin'[a].pc \in {"retry_insert", "retry_queue"} /\ admin'[a].item = i
<1>3. ASSUME \A b \in Admins \ {a} : admin'[b] = admin[b],
             \A i \in Items : item'[i] = "audio_ready" => Holds(i) \/ (item[i] = "audio_ready" /\ ~Had(i))
      PROVE  RetriesKeep
  BY <1>3 DEF RetriesKeep, RetryHolds
<1>4. \A b \in Admins \ {a} : admin'[b] = admin[b]
  BY <1>1, <1>2 DEF AdminStep, AdminRaises, RetryRead, CancelRead, CloseRead, RetryInsert, RetryRefused,
     RetryQueue, RetryEnds, CancelJobs, CancelStatus, CloseWrite, RetryDeposit, RetryVideo, RetryAudio, AdminGoto
<1>5. CASE AdminRaises(a)
  <2>1. item' = item /\ faults' # 0  BY <1>1, <1>5, ItemAssumption DEF AdminRaises, Fault, TablesTyped, tables
  <2> QED  BY <2>1 DEF DeletedInTime
<1>6. CASE RetryInsert(a)
  <2>1. item' = item /\ \A i \in Items : Had(i) => Holds(i)
    BY <1>1, <1>6 DEF RetryInsert, AdminGoto
  <2> QED  BY <1>3, <1>4, <2>1 DEF DeletedInTime
<1>7. CASE RetryQueue(a)
  <2>1. PICK i \in Items : i = admin[a].item /\ Update(i, "queued_transcription")
    BY <1>1, <1>7 DEF RetryQueue
  <2>2. DeletedInTime /\ \A k \in Items : item'[k] = "audio_ready" => k # i /\ item[k] = "audio_ready"
    BY <1>1, <2>1, UpdateReadies DEF ItemStatus
  <2> QED  BY <1>3, <1>4, <2>1, <2>2
<1>8. ASSUME NEW i \in Items, RetryAudio(a, i)  PROVE RetriesKeep /\ DeletedInTime
  <2>1. Update(i, "audio_ready") /\ Holds(i) /\ \A k \in Items : ~Had(k)
    BY <1>1, <1>8 DEF RetryAudio, Handling, AdminAt
  <2>2. DeletedInTime /\ \A k \in Items : item'[k] = "audio_ready" => k = i \/ item[k] = "audio_ready"
    BY <1>1, <2>1, UpdateReadies DEF ItemStatus
  <2> QED  BY <1>3, <1>4, <2>1, <2>2
<1>9. ASSUME NEW i \in Items, RetryDeposit(a, i) \/ RetryVideo(a, i)
      PROVE  RetriesKeep /\ DeletedInTime
  <2>1. (Update(i, "transcribed") \/ Update(i, "pending_extraction")) /\ \A k \in Items : ~Had(k)
    BY <1>9 DEF RetryDeposit, RetryVideo, Ready, Handling, AdminAt
  <2>2. DeletedInTime /\ \A k \in Items : item'[k] = "audio_ready" => item[k] = "audio_ready"
    BY <1>1, <2>1, UpdateReadies DEF ItemStatus
  <2> QED  BY <1>3, <1>4, <2>1, <2>2
<1>10. CASE \/ RetryEnds(a) \/ CancelJobs(a) \/ CancelStatus(a) \/ CloseWrite(a)
            \/ RetryRead(a) \/ CancelRead(a) \/ CloseRead(a)
  <2>1. item' = item /\ \A i \in Items : ~Had(i)
    BY <1>10 DEF RetryEnds, CancelJobs, CancelStatus, CloseWrite, RetryRead, CancelRead, CloseRead,
                 AdminAt, tables
  <2> QED  BY <1>3, <1>4, <2>1 DEF DeletedInTime
\* What a refused insert lets go of is a row that is gone.
<1>11. CASE RetryRefused(a)
  <2>1. item' = item /\ \A i \in Items : item[i] = "audio_ready" => ~Had(i)
    BY <1>11 DEF RetryRefused, Present, tables
  <2> QED  BY <1>3, <1>4, <2>1 DEF DeletedInTime
<1> QED  BY <1>2, <1>5, <1>6, <1>7, <1>8, <1>9, <1>10, <1>11 DEF AdminStep

\* What a step leaves ready or deleted.
LEMMA NextReadies ==
  ASSUME Typed, UploadInv, [Next]_vars
  PROVE  /\ DeletedInTime
         /\ \/ NoneReady /\ UNCHANGED <<upload, extractor, admin>>
            \/ CallsKeep /\ UNCHANGED <<extractor, admin>>
            \/ ExtractorKeeps /\ UNCHANGED <<upload, admin>>
            \/ RetriesKeep /\ UNCHANGED <<upload, extractor>>
            \/ faults' # 0
            \/ restarts' # 0
<1>1. TypeOK /\ \E i \in Items : TRUE  BY ItemAssumption DEF Typed
<1>2. CASE InIntake(IntakeNext)
  <2>1. UNCHANGED admin  BY <1>2 DEF InIntake, Others
  <2>2. ASSUME NEW u \in Uploaders, UploadStep(u) \/ \E i \in Items : SlotRead(u, i) \/ FinalizeRead(u, i)
        PROVE  CallsKeep /\ DeletedInTime /\ UNCHANGED extractor
    <3>1. UNCHANGED extractor
      BY <2>2 DEF UploadStep, SlotInsert, FinalizeProbe, FinalizeClaim, FinalizeEnter, FinalizeRefused,
                  DropObject, DropRow, SlotRead, FinalizeRead
    <3> QED  BY <2>2, <3>1, CallReadies
  <2>3. ASSUME NEW u \in Uploaders, UploadRaises(u)  PROVE DeletedInTime /\ faults' # 0
    BY <1>1, <2>3, ItemAssumption DEF UploadRaises, Fault, TypeOK, TablesTyped, tables, DeletedInTime
  <2>4. ASSUME NEW i \in Items,
               \/ PutObject(i) \/ Expire(i) \/ SweepObjectFails(i) \/ SweepList \/ SweepRaises
               \/ SweepObject(i) \/ SweepRow(i)
        PROVE  DeletedInTime /\ NoneReady /\ UNCHANGED <<upload, extractor>>
    <3>1. UNCHANGED <<upload, extractor>>
      BY <2>4 DEF PutObject, Expire, SweepObjectFails, SweepList, SweepRaises, SweepObject, SweepRow
    <3> QED  BY <2>4, <3>1, CleanupReadies
  <2>5. CASE ExtractStep
    <3>1. UNCHANGED upload
      BY <2>5 DEF ExtractStep, ExtractRecover, ExtractClaim, ExtractSucceeds, ExtractAttemptFails,
                  ExtractMissing, ExtractMarkFailed, ExtractEnter, ExtractRefused, ExtractRemoveRaw
    <3> QED  BY <2>1, <2>5, <3>1, ExtractReadies
  <2>6. CASE ExtractRecoverRaises \/ ExtractRaises
    BY <1>1, <2>6, ItemAssumption
       DEF ExtractRecoverRaises, ExtractRaises, Fault, TypeOK, TablesTyped, tables, DeletedInTime
  <2> QED  BY <1>1, <1>2, <2>1, <2>2, <2>3, <2>4, <2>5, <2>6 DEF InIntake, IntakeNext, SweepStep
<1>3. CASE InTranscription(TranscriptionNext) \/ InDeposit(DepositNext)
  BY <1>1, <1>3, QuietReadies DEF InTranscription, InDeposit, intake, Others
<1>4. CASE AdminNext
  <2>1. UNCHANGED <<upload, extractor>>
    BY <1>4 DEF AdminNext, AdminStep, AdminRaises, RetryRead, CancelRead, CloseRead, RetryInsert, RetryRefused,
        RetryQueue, RetryEnds, CancelJobs, CancelStatus, CloseWrite, RetryDeposit, RetryVideo,
       RetryAudio, OutsideAdmin, intake
  <2> QED  BY <1>4, <2>1, RetryReadies
<1>5. CASE Restart
  BY <1>1, <1>5, PipelineAssumption DEF Restart, TypeOK, tables, DeletedInTime
<1>6. CASE UNCHANGED vars
  BY <1>6 DEF vars, tables, intake, NoneReady, DeletedInTime
<1> QED  BY <1>2, <1>3, <1>4, <1>5, <1>6 DEF Next

\* Whatever the calls and the cleanup remove, and however long they take, it is
\* a slot that had expired.
THEOREM DeletedHadExpired == Spec => []DeletedExpired
<1>1. Init => DeletedExpired  BY DEF Init, TablesInit, DeletedExpired
<1>2. Typed /\ UploadInv /\ DeletedExpired /\ [Next]_vars => DeletedExpired'
  <2> SUFFICES ASSUME Typed, UploadInv, DeletedExpired, [Next]_vars PROVE DeletedExpired'  OBVIOUS
  <2>1. DeletedInTime  BY NextReadies
  <2>2. expired \subseteq expired'
    BY DEF Next, InIntake, IntakeNext, UploadStep, UploadRaises, SlotInsert, FinalizeProbe, FinalizeClaim,
       FinalizeEnter, FinalizeRefused, DropObject, DropRow, SlotRead, FinalizeRead, PutObject, Expire,
       SweepObjectFails, SweepStep, SweepList, SweepObject, SweepRow, SweepRaises, ExtractStep,
       ExtractRecover, ExtractClaim, ExtractSucceeds, ExtractAttemptFails, ExtractMissing,
       ExtractMarkFailed, ExtractEnter, ExtractRefused, ExtractRemoveRaw, ExtractRecoverRaises,
       ExtractRaises, InTranscription, InDeposit, AdminNext, AdminStep, AdminRaises, RetryRead,
       CancelRead, CloseRead, RetryInsert, RetryRefused,
       RetryQueue, RetryEnds, CancelJobs, CancelStatus, CloseWrite, RetryDeposit, RetryVideo,
       RetryAudio, OutsideAdmin, Restart, vars, intake
  <2> QED  BY <2>1, <2>2 DEF DeletedInTime, DeletedExpired
<1>3. TypeOK /\ UploadInv /\ TypeOK' /\ DeletedExpired /\ [Next]_vars => DeletedExpired'
  BY <1>2 DEF Typed
<1> QED  BY <1>1, <1>3, UploadInvariant, PTL DEF Spec

\* As long as nothing raised and the backend was not restarted, an audio file
\* that is ready and not queued is in the hands of the call, of the worker or of
\* the retry that made it ready.
THEOREM ReadyAudioOwned == Spec => []AudioOwned
<1>1. Init => AudioOwned  BY DEF Init, TablesInit, AudioOwned
<1>2. AudioOwned <=>
        (faults = 0 /\ restarts = 0 =>
           \A i \in Items : item[i] = "audio_ready" => CallHolds(i) \/ ExtractorHolds(i) \/ RetryHolds(i))
  BY DEF AudioOwned, CallHolds, ExtractorHolds, RetryHolds
<1>3. AudioOwned' <=>
        (faults' = 0 /\ restarts' = 0 =>
           \A i \in Items : item'[i] = "audio_ready" => CallHolds(i)' \/ ExtractorHolds(i)' \/ RetryHolds(i)')
  BY DEF AudioOwned, CallHolds, ExtractorHolds, RetryHolds
<1>4. /\ \A i \in Items : UNCHANGED upload => (CallHolds(i)' <=> CallHolds(i))
      /\ \A i \in Items : UNCHANGED extractor => (ExtractorHolds(i)' <=> ExtractorHolds(i))
      /\ \A i \in Items : UNCHANGED admin => (RetryHolds(i)' <=> RetryHolds(i))
  BY DEF CallHolds, ExtractorHolds, RetryHolds, UploadItem
<1>5. ASSUME Typed, UploadInv, AudioOwned, [Next]_vars  PROVE AudioOwned'
  <2>1. faults' = 0 => faults = 0  BY <1>5, FaultsGrow DEF Typed
  <2>2. restarts' = 0 => restarts = 0
    BY <1>5, PipelineAssumption
       DEF Typed, TypeOK, Next, InIntake, InTranscription, InDeposit, Others, AdminNext, AdminStep,
           AdminRaises, RetryRead, CancelRead, CloseRead, RetryInsert, RetryRefused,
           RetryQueue, RetryEnds, CancelJobs, CancelStatus, CloseWrite, RetryDeposit, RetryVideo,
       RetryAudio, OutsideAdmin, Restart, vars
  <2> HIDE DEF AudioOwned
  <2> QED
    BY <1>2, <1>3, <1>4, <1>5, <2>1, <2>2, NextReadies DEF NoneReady, CallsKeep, ExtractorKeeps, RetriesKeep
<1>6. TypeOK /\ UploadInv /\ TypeOK' /\ AudioOwned /\ [Next]_vars => AudioOwned'
  BY <1>5 DEF Typed
<1> QED  BY <1>1, <1>6, UploadInvariant, PTL DEF Spec

=============================================================================
