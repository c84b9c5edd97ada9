--------------------------- MODULE ItemTableProofs ---------------------------
(***************************************************************************)
(* Lemmas about the tables of the items and the two components that both   *)
(* pipelines share, the transcription workers and the deposit worker: what *)
(* their statements leave in the tables, for every set of items, jobs and  *)
(* workers.                                                                *)
(***************************************************************************)
EXTENDS Transcription, Deposit, FiniteSetTheorems, TLAPS

-----------------------------------------------------------------------------
(* What the statements of ItemTable leave in the tables.                   *)

ItemsTyped == item \in [Items -> ItemStatus]
JobRow == [status : JobStatus, item : Items]
JobsTyped == tjob \in [JobIds -> JobRow]

\* An UPDATE writes its status to its row and leaves the others alone.
LEMMA UpdateType ==
  ASSUME ItemsTyped, NEW i \in Items, NEW st \in ItemStatus, Update(i, st)
  PROVE  /\ ItemsTyped'
         /\ \A k \in Items : item'[k] = item[k] \/ item'[k] = st
BY DEF ItemsTyped, Update

\* Making an item ready changes no other item and counts the passage.
LEMMA ReadyType ==
  ASSUME ItemsTyped, entries \in [Items -> Nat], NEW i \in Items, Ready(i)
  PROVE  /\ ItemsTyped'
         /\ entries' \in [Items -> Nat]
         /\ \A k \in Items : \/ item'[k] = item[k] /\ entries'[k] = entries[k]
                             \/ item'[k] = "transcribed" /\ entries'[k] = entries[k] + 1
BY DEF ItemsTyped, Ready, Update, Present, ItemStatus

\* The insert of a job.
LEMMA InsertJobType ==
  ASSUME JobsTyped, NEW i \in Items, InsertJob(i)
  PROVE  JobsTyped'
BY DEF JobsTyped, JobRow, InsertJob, JobStatus

\* The new status of a job.
LEMMA SetJobType ==
  ASSUME JobsTyped, NEW j, NEW st \in JobStatus, SetJob(j, st)
  PROVE  JobsTyped'
BY DEF JobsTyped, JobRow, SetJob

\* The cancellation of the jobs of a request.
LEMMA CancelRowsType ==
  ASSUME JobsTyped, CancelRows
  PROVE  JobsTyped'
BY DEF JobsTyped, JobRow, CancelRows, JobStatus

\* The deletion of an item and of its jobs.
LEMMA DeleteItemType ==
  ASSUME ItemsTyped, JobsTyped, NEW i \in Items, DeleteItem(i)
  PROVE  /\ ItemsTyped'
         /\ JobsTyped'
         /\ \A k \in Items : item'[k] = item[k] \/ item'[k] = "deleted"
<1>1. Update(i, "deleted") /\ "deleted" \in ItemStatus  BY DEF DeleteItem, ItemStatus
<1>2. JobsTyped'  BY DEF DeleteItem, JobsTyped, JobRow, JobStatus
<1> QED  BY <1>1, <1>2, UpdateType

-----------------------------------------------------------------------------
(* A step outside the deposit worker makes no item "depositing" and no item *)
(* "transcribed" without counting its passage.                             *)

NewPassage(k) == IF item'[k] = "transcribed" /\ item[k] # "transcribed" THEN 1 ELSE 0

Passage ==
  \A k \in Items :
    /\ item'[k] = "depositing" => item[k] = "depositing"
    /\ entries'[k] >= entries[k] + NewPassage(k)

TypedPassage == TablesTyped' /\ Passage

\* A step that leaves the items and the count of the passages alone.
LEMMA StillPassage ==
  ASSUME TablesTyped, UNCHANGED <<item, entries>>
  PROVE  Passage
BY DEF TablesTyped, Passage, NewPassage

\* A step that writes to some items a status that is none of the deposit.
LEMMA UpdatePassage ==
  ASSUME TablesTyped, entries' = entries, NEW st \in ItemStatus \ {"transcribed", "depositing"},
         \A k \in Items : item'[k] = item[k] \/ item'[k] = st
  PROVE  Passage
BY DEF TablesTyped, Passage, NewPassage

\* A step that makes an item ready.
LEMMA ReadyPassage ==
  ASSUME TablesTyped, NEW i \in Items, Ready(i)
  PROVE  ItemsTyped' /\ entries' \in [Items -> Nat] /\ Passage
<1>1. ItemsTyped /\ entries \in [Items -> Nat]  BY DEF TablesTyped, ItemsTyped
<1> QED  BY <1>1, ReadyType DEF Passage, NewPassage

\* The entry in the transcription queue.
LEMMA EnterPassage ==
  ASSUME TablesTyped, NEW i \in Items, NEW pc, NEW next, Enter(i, pc, next), faults' = faults
  PROVE  TypedPassage
<1>1. ItemsTyped /\ JobsTyped  BY DEF TablesTyped, ItemsTyped, JobsTyped, JobRow
<1>2. ASSUME NEW st \in {"audio_ready", "queued_transcription"}, Update(i, st),
             UNCHANGED <<transcript, tjob, request, entries>>
      PROVE  TypedPassage
  <2>1. st \in ItemStatus \ {"transcribed", "depositing"}  BY DEF ItemStatus
  <2>2. ItemsTyped' /\ \A k \in Items : item'[k] = item[k] \/ item'[k] = st
    BY <1>1, <1>2, <2>1, UpdateType
  <2>3. Passage  BY <1>2, <2>1, <2>2, UpdatePassage
  <2> QED  BY <1>2, <2>2, <2>3 DEF TypedPassage, TablesTyped, ItemsTyped, JobIds
<1>3. CASE UNCHANGED tables
  BY <1>3, StillPassage DEF tables, TypedPassage, TablesTyped, JobIds
<1>4. ASSUME InsertJob(i), UNCHANGED <<item, transcript, request, entries>>  PROVE TypedPassage
  <2>1. JobsTyped'  BY <1>1, <1>4, InsertJobType
  <2> QED  BY <1>4, <2>1, StillPassage DEF TypedPassage, TablesTyped, JobsTyped, JobRow
<1> QED  BY <1>2, <1>3, <1>4 DEF Enter

-----------------------------------------------------------------------------
(* The steps that the components share.                                    *)

\* An item is updated and nothing else in the tables.
ItemUpdated(i, st) == Update(i, st) /\ UNCHANGED <<transcript, tjob, request, entries, faults>>

LEMMA UpdatedPassage ==
  ASSUME TablesTyped, NEW i \in Items, NEW st \in ItemStatus \ {"transcribed", "depositing"},
         ItemUpdated(i, st)
  PROVE  TypedPassage
<1>1. ItemsTyped' /\ \A k \in Items : item'[k] = item[k] \/ item'[k] = st
  BY UpdateType DEF TablesTyped, ItemsTyped, ItemUpdated
<1>2. Passage  BY <1>1, UpdatePassage DEF ItemUpdated
<1> QED  BY <1>1, <1>2 DEF ItemUpdated, TypedPassage, TablesTyped, ItemsTyped, JobIds

\* The tables are left alone.
LEMMA StillTables ==
  ASSUME TablesTyped, UNCHANGED tables, faults' = faults \/ Fault
  PROVE  TypedPassage
<1>1. faults' \in 0 .. MaxFaults  BY ItemAssumption DEF TablesTyped, Fault
<1> QED  BY <1>1, StillPassage DEF tables, TypedPassage, TablesTyped, JobIds

\* The deletion of an item.
LEMMA DeletedPassage ==
  ASSUME TablesTyped, NEW i \in Items, DeleteItem(i), UNCHANGED <<transcript, request, entries, faults>>
  PROVE  TypedPassage
<1>1. /\ ItemsTyped' /\ JobsTyped'
      /\ \A k \in Items : item'[k] = item[k] \/ item'[k] = "deleted"
  BY DeleteItemType DEF TablesTyped, ItemsTyped, JobsTyped, JobRow
<1>2. Passage  BY <1>1, UpdatePassage DEF ItemStatus
<1> QED  BY <1>1, <1>2 DEF TypedPassage, TablesTyped, ItemsTyped, JobsTyped, JobRow

\* A step that writes to the jobs alone.
LEMMA JobsPassage ==
  ASSUME TablesTyped, JobsTyped', UNCHANGED <<item, transcript, request, entries, faults>>
  PROVE  TypedPassage
BY StillPassage DEF TypedPassage, TablesTyped, JobsTyped, JobRow

\* The transcription workers and the reconciliation.
LEMMA TranscriptionTypes ==
  ASSUME TablesTyped, WorkersTyped, TranscriptionNext
  PROVE  TypedPassage /\ WorkersTyped'
<1> USE DEF WorkersTyped
<1>1. JobsTyped  BY DEF TablesTyped, JobsTyped, JobRow
<1>2. ASSUME NEW w \in Workers, WorkerRests(w)
      PROVE  WorkersTyped'
  <2>1. NoWork \in [pc : WorkerPC, job : JobIds \cup {0}, item : Items]
    BY ItemAssumption DEF NoWork, WorkerPC, AnyItem
  <2> QED  BY <1>2, <2>1 DEF WorkerRests
<1>3. ASSUME NEW w \in Workers, NEW pc \in WorkerPC, WorkerGoto(w, pc)
      PROVE  WorkersTyped'
  BY <1>3 DEF WorkerGoto
<1>4. ASSUME NEW w \in Workers, WorkerClaim(w)
      PROVE  TypedPassage /\ WorkersTyped'
  <2>1. PICK j \in JobIds :
          /\ SetJob(j, "claimed")
          /\ worker' = [worker EXCEPT ![w] = [pc |-> "transcribe", job |-> j, item |-> tjob[j].item]]
    BY <1>4 DEF WorkerClaim
  <2>2. JobsTyped'  BY <1>1, <2>1, SetJobType DEF JobStatus
  <2>3. TypedPassage  BY <1>4, <2>2, JobsPassage DEF WorkerClaim
  <2>4. tjob[j].item \in Items  BY <1>1 DEF JobsTyped, JobRow
  <2> QED  BY <2>1, <2>3, <2>4 DEF WorkerPC
<1>5. ASSUME NEW w \in Workers, WorkerTranscribes(w)
      PROVE  TypedPassage /\ WorkersTyped'
  BY <1>3, <1>5, StillTables DEF WorkerTranscribes, WorkerPC
<1>6. ASSUME NEW w \in Workers, WorkerMarksDone(w)
      PROVE  TypedPassage /\ WorkersTyped'
  <2>1. JobsTyped'  BY <1>1, <1>6, SetJobType DEF WorkerMarksDone, JobStatus
  <2> QED  BY <1>3, <1>6, <2>1, JobsPassage DEF WorkerMarksDone, WorkerPC
<1>7. ASSUME NEW w \in Workers, WorkerMarksItem(w)
      PROVE  TypedPassage /\ WorkersTyped'
  <2>1. worker[w].item \in Items  OBVIOUS
  <2>2. ItemsTyped' /\ entries' \in [Items -> Nat] /\ Passage
    BY <1>7, <2>1, ReadyPassage DEF WorkerMarksItem
  <2>3. TablesTyped'
    BY <1>7, <2>1, <2>2 DEF WorkerMarksItem, TablesTyped, ItemsTyped, JobIds
  <2> QED  BY <1>2, <1>7, <2>2, <2>3 DEF WorkerMarksItem, TypedPassage
<1>8. ASSUME NEW w \in Workers, WorkerMarksFailed(w)
      PROVE  TypedPassage /\ WorkersTyped'
  <2>1. JobsTyped'  BY <1>1, <1>8, SetJobType DEF WorkerMarksFailed, JobStatus
  <2> QED  BY <1>2, <1>8, <2>1, JobsPassage DEF WorkerMarksFailed
<1>9. ASSUME NEW w \in Workers, WorkerRaises(w) \/ WorkerDies(w)
      PROVE  TypedPassage /\ WorkersTyped'
  BY <1>2, <1>3, <1>9, StillTables DEF WorkerRaises, WorkerDies, WorkerPC
<1>10. CASE Reconcile
  <2>1. ItemsTyped' /\ \A k \in Items : item'[k] = item[k] \/ item'[k] = "failed"
    BY <1>10 DEF Reconcile, FailDeadItems, TablesTyped, ItemsTyped, ItemStatus
  <2>2. Passage  BY <1>10, <2>1, UpdatePassage DEF Reconcile, ItemStatus
  <2> QED  BY <1>10, <2>1, <2>2 DEF Reconcile, TypedPassage, TablesTyped, ItemsTyped, JobIds
<1> QED
  BY <1>4, <1>5, <1>6, <1>7, <1>8, <1>9, <1>10 DEF TranscriptionNext, WorkerStep

\* The deposit worker: its steps write to the tables what it holds.
LEMMA DepositTypes ==
  ASSUME TablesTyped, DepositTyped, DepositNext
  PROVE  TablesTyped' /\ DepositTyped'
<1> USE DepositAssumption, ItemAssumption DEF DepositTyped
<1>1. depositor.item \in Items /\ ItemsTyped  BY DEF TablesTyped, ItemsTyped
<1>2. ASSUME NEW pc \in DepositorPC, DepositorGoto(pc)
      PROVE  depositor' \in [pc : DepositorPC, item : Items, attempt : 1 .. DepositAttempts]
  BY <1>2 DEF DepositorGoto
<1>3. ASSUME UNCHANGED tables, faults' = faults \/ Fault  PROVE TablesTyped'
  BY <1>3, StillTables DEF TypedPassage
<1>4. ASSUME NEW i \in Items, NEW st \in ItemStatus, ItemUpdated(i, st)  PROVE TablesTyped'
  BY <1>1, <1>4, UpdateType DEF ItemUpdated, TablesTyped, ItemsTyped, JobIds
<1>5. CASE DepositRecover
  <2>1. item' \in [Items -> ItemStatus] /\ entries' \in [Items -> Nat]
    BY <1>5 DEF DepositRecover, RequeueDepositing, TablesTyped, ItemStatus
  <2>2. TablesTyped'  BY <1>5, <2>1 DEF DepositRecover, TablesTyped, JobIds
  <2> QED  BY <1>2, <1>5, <2>2 DEF DepositRecover, DepositorPC
<1>6. CASE DepositClaim
  <2>1. PICK i \in Items :
          /\ Update(i, "depositing")
          /\ depositor' = [pc |-> "deposit", item |-> i, attempt |-> 1]
    BY <1>6 DEF DepositClaim
  <2>2. TablesTyped'  BY <1>4, <1>6, <2>1 DEF DepositClaim, ItemUpdated, ItemStatus
  <2> QED  BY <1>6, <2>1, <2>2 DEF DepositClaim, DepositorPC
<1>7. CASE DepositSucceeds
  BY <1>1, <1>2, <1>3, <1>7 DEF DepositSucceeds, DepositorPC
<1>8. CASE DepositAttemptFails
  <2>1. depositor' \in [pc : DepositorPC, item : Items, attempt : 1 .. DepositAttempts]
    BY <1>8 DEF DepositAttemptFails, DepositorPC
  <2> QED  BY <1>3, <1>8, <2>1 DEF DepositAttemptFails
<1>9. CASE DepositMark
  <2>1. TablesTyped'  BY <1>1, <1>4, <1>9 DEF DepositMark, ItemUpdated, ItemStatus
  <2> QED  BY <1>2, <1>9, <2>1 DEF DepositMark, DepositorPC
<1>10. CASE DepositMarkFailed
  <2>1. TablesTyped'  BY <1>1, <1>4, <1>10 DEF DepositMarkFailed, ItemUpdated, ItemStatus
  <2> QED  BY <1>2, <1>10, <2>1 DEF DepositMarkFailed, DepositorPC
<1>11. CASE DepositRecoverRaises \/ DepositRaises
  BY <1>2, <1>3, <1>11 DEF DepositRecoverRaises, DepositRaises, DepositorPC
<1> QED
  BY <1>5, <1>6, <1>7, <1>8, <1>9, <1>10, <1>11 DEF DepositNext, DepositStep
-----------------------------------------------------------------------------
(* The account of the documents.  The passages of an item cover its        *)
(* documents, the deposit in progress and the passage not yet claimed.     *)

Waiting(i) == IF item[i] = "transcribed" THEN 1 ELSE 0
Depositing(i) == IF DepositorAt("deposit") /\ depositor.item = i THEN 1 ELSE 0
Accounted == \A i \in Items : docs[i] + Depositing(i) + Waiting(i) <= entries[i]

\* The account covers the documents.
LEMMA AccountedBounds ==
  ASSUME TablesTyped, DepositTyped, Accounted
  PROVE  DocumentsAccounted
BY DEF TablesTyped, DepositTyped, Accounted, Waiting, Depositing, DocumentsAccounted

\* No document, no deposit and no passage at the start.
LEMMA InitAccounted ==
  ASSUME depositor = FreshDepositor, docs = [i \in Items |-> 0], entries = [i \in Items |-> 0],
         \A i \in Items : item[i] # "transcribed"
  PROVE  Accounted
BY DEF FreshDepositor, Accounted, Waiting, Depositing, DepositorAt

\* Elsewhere than in the deposit, a new wait is a new passage.
LEMMA PassageAccounted ==
  ASSUME TablesTyped, DepositTyped, TablesTyped', Accounted, Passage, UNCHANGED <<depositor, docs>>
  PROVE  Accounted'
<1> SUFFICES ASSUME NEW i \in Items
             PROVE  docs'[i] + Depositing(i)' + Waiting(i)' <= entries'[i]
  BY DEF Accounted
<1>1. entries'[i] >= entries[i] + NewPassage(i)  BY DEF Passage
<1>2. Depositing(i)' = Depositing(i)  BY DEF Depositing, DepositorAt
<1>3. docs[i] + Depositing(i) + Waiting(i) <= entries[i]  BY DEF Accounted
<1>4. docs[i] \in Nat /\ entries[i] \in Nat /\ entries'[i] \in Nat
  BY DEF TablesTyped, DepositTyped
<1> QED
  BY <1>1, <1>2, <1>3, <1>4 DEF Waiting, Depositing, NewPassage

\* In the deposit, a claim turns the wait into a deposit in progress, a
\* success turns that into a document, the recovery pays for what it requeues.
LEMMA DepositAccounted ==
  ASSUME TablesTyped, DepositTyped, Accounted, DepositNext
  PROVE  Accounted'
<1> SUFFICES ASSUME NEW i \in Items
             PROVE  docs'[i] + Depositing(i)' + Waiting(i)' <= entries'[i]
  BY DEF Accounted
<1>1. docs[i] + Depositing(i) + Waiting(i) <= entries[i]  BY DEF Accounted
<1>2. /\ docs[i] \in Nat /\ entries[i] \in Nat
      /\ docs \in [Items -> Nat] /\ entries \in [Items -> Nat] /\ item \in [Items -> ItemStatus]
      /\ depositor \in [pc : DepositorPC, item : Items, attempt : 1 .. DepositAttempts]
  BY DEF TablesTyped, DepositTyped
<1> USE <1>1, <1>2 DEF Waiting, Depositing, DepositorAt
<1>3. CASE DepositRecover
  BY <1>3 DEF DepositRecover, DepositorGoto, RequeueDepositing
<1>4. CASE DepositClaim
  BY <1>4 DEF DepositClaim, Update, Present
<1>5. CASE DepositSucceeds
  BY <1>5 DEF DepositSucceeds, DepositorGoto, tables
<1>6. CASE DepositAttemptFails
  BY <1>6 DEF DepositAttemptFails, tables
<1>7. CASE DepositMark \/ DepositMarkFailed
  BY <1>7 DEF DepositMark, DepositMarkFailed, DepositorGoto, Update
<1>8. CASE DepositRecoverRaises \/ DepositRaises
  BY <1>8 DEF DepositRecoverRaises, DepositRaises, DepositorGoto, tables
<1> QED  BY <1>3, <1>4, <1>5, <1>6, <1>7, <1>8 DEF DepositNext, DepositStep

\* A restart loses the deposit in progress.
LEMMA RestartAccounted ==
  ASSUME TablesTyped, DepositTyped, Accounted, depositor' = FreshDepositor, UNCHANGED <<item, entries, docs>>
  PROVE  Accounted'
<1>1. \A i \in Items : Depositing(i)' = 0 /\ docs[i] \in Nat /\ entries[i] \in Nat
  BY DEF Depositing, DepositorAt, FreshDepositor, TablesTyped, DepositTyped
<1> QED  BY <1>1 DEF Accounted, Waiting, Depositing

-----------------------------------------------------------------------------
(* The ownership of the deposits.                                          *)

\* Elsewhere than in the deposit no item becomes "depositing".
LEMMA PassageOwned ==
  ASSUME DepositOwned, Passage, UNCHANGED depositor, faults' = 0 => faults = 0
  PROVE  DepositOwned'
BY DEF DepositOwned, DepositorAt, Passage

\* The deposit worker lets go of an item when it has written it.
LEMMA DepositKeepsOwned ==
  ASSUME TablesTyped, DepositTyped, DepositOwned, DepositNext
  PROVE  DepositOwned'
<1> SUFFICES ASSUME faults' = 0, NEW i \in Items, item'[i] = "depositing"
             PROVE  \/ depositor'.pc = "recover"
                    \/ depositor'.pc \in {"deposit", "mark", "fail"} /\ depositor'.item = i
  BY DEF DepositOwned, DepositorAt
<1>1. item \in [Items -> ItemStatus] /\ faults \in Nat
      /\ depositor \in [pc : DepositorPC, item : Items, attempt : 1 .. DepositAttempts]
  BY DEF TablesTyped, DepositTyped, ItemAssumption
<1>2. CASE DepositRecoverRaises \/ DepositRaises
  BY <1>1, <1>2 DEF DepositRecoverRaises, DepositRaises, Fault
<1>3. CASE DepositStep
  <2>1. faults = 0
    BY <1>3 DEF DepositStep, DepositRecover, DepositClaim, DepositSucceeds, DepositAttemptFails,
                DepositMark, DepositMarkFailed
  <2>2. item[i] = "depositing" =>
          \/ depositor.pc = "recover"
          \/ depositor.pc \in {"deposit", "mark", "fail"} /\ depositor.item = i
    BY <2>1 DEF DepositOwned, DepositorAt
  <2> USE <1>1, <2>2 DEF DepositorAt, DepositorGoto
  <2>3. CASE DepositRecover  BY <2>3 DEF DepositRecover, RequeueDepositing
  <2>4. CASE DepositClaim  BY <2>4 DEF DepositClaim, Update
  <2>5. CASE DepositSucceeds  BY <2>5 DEF DepositSucceeds, tables
  <2>6. CASE DepositAttemptFails  BY <2>6 DEF DepositAttemptFails, tables
  <2>7. CASE DepositMark \/ DepositMarkFailed
    BY <2>7 DEF DepositMark, DepositMarkFailed, Update, Present
  <2> QED  BY <1>3, <2>3, <2>4, <2>5, <2>6, <2>7 DEF DepositStep
<1> QED  BY <1>2, <1>3 DEF DepositNext
-----------------------------------------------------------------------------
(* The pool of the workers.                                                *)

\* A worker holds, alone, a row that was claimed, and that is not claimed any
\* more once the worker has marked it done.
PoolInv ==
  /\ \A w \in Workers : ~WorkerAt(w, "idle") =>
       /\ worker[w].job \in JobIds
       /\ tjob[worker[w].job].status \notin {"absent", "pending"}
       /\ WorkerAt(w, "mark_item") => tjob[worker[w].job].status # "claimed"
  /\ \A v, w \in Workers :
       ~WorkerAt(v, "idle") /\ ~WorkerAt(w, "idle") /\ worker[v].job = worker[w].job => v = w

\* What the other components do to the rows: they insert one, or they end some.
RowsEnd ==
  \A j \in JobIds :
    \/ tjob'[j] = tjob[j]
    \/ tjob[j].status # "absent" /\ tjob'[j].status \notin {"absent", "pending", "claimed"}

RowStep == RowsEnd \/ \E i \in Items : InsertJob(i)

LEMMA StillRowStep == UNCHANGED tjob => RowStep
BY DEF RowStep, RowsEnd

LEMMA CancelRowStep ==
  ASSUME TablesTyped, CancelRows
  PROVE  RowStep
BY DEF TablesTyped, CancelRows, RowStep, RowsEnd

LEMMA DeleteRowStep ==
  ASSUME TablesTyped, NEW i \in Items, DeleteItem(i)
  PROVE  RowStep
BY DEF TablesTyped, DeleteItem, JobsOf, Row, RowStep, RowsEnd

LEMMA EnterRowStep ==
  ASSUME NEW i \in Items, NEW pc, NEW next, Enter(i, pc, next)
  PROVE  RowStep
BY StillRowStep DEF Enter, RowStep, tables

LEMMA OthersKeepPool ==
  ASSUME TablesTyped, PoolInv, UNCHANGED worker, RowStep
  PROVE  PoolInv'
<1>1. ASSUME NEW w \in Workers, ~WorkerAt(w, "idle")
      PROVE  /\ tjob'[worker[w].job].status \notin {"absent", "pending"}
             /\ WorkerAt(w, "mark_item") => tjob'[worker[w].job].status # "claimed"
  <2>1. PICK j \in JobIds :
          /\ j = worker[w].job
          /\ tjob[j].status \notin {"absent", "pending"}
          /\ WorkerAt(w, "mark_item") => tjob[j].status # "claimed"
    BY <1>1 DEF PoolInv
  <2>2. CASE RowsEnd  BY <2>1, <2>2 DEF RowsEnd
  <2>3. ASSUME NEW i \in Items, InsertJob(i)  PROVE tjob'[j] = tjob[j]
    BY <2>1, <2>3 DEF InsertJob, TablesTyped
  <2> QED  BY <2>1, <2>2, <2>3 DEF RowStep
<1>2. \A w \in Workers : worker'[w] = worker[w]  OBVIOUS
<1> QED  BY <1>1, <1>2 DEF PoolInv, WorkerAt, JobIds

\* A claim takes a row that no worker holds.
LEMMA TranscriptionKeepsPool ==
  ASSUME TablesTyped, WorkersTyped, PoolInv, TranscriptionNext
  PROVE  PoolInv'
<1>1. /\ tjob \in [JobIds -> [status : JobStatus, item : Items]] /\ JobIds' = JobIds
      /\ worker \in [Workers -> [pc : WorkerPC, job : JobIds \cup {0}, item : Items]]
  BY DEF TablesTyped, WorkersTyped, JobIds
<1> USE <1>1 DEF PoolInv, WorkerAt
<1>2. ASSUME NEW w \in Workers, WorkerClaim(w)  PROVE PoolInv'
  <2>1. PICK j \in JobIds :
          /\ tjob[j].status = "pending"
          /\ SetJob(j, "claimed")
          /\ worker' = [worker EXCEPT ![w] = [pc |-> "transcribe", job |-> j, item |-> tjob[j].item]]
    BY <1>2 DEF WorkerClaim
  <2>2. /\ tjob'[j].status = "claimed"
        /\ \A k \in JobIds \ {j} : tjob'[k] = tjob[k]
    BY <2>1 DEF SetJob, Row
  <2>3. /\ worker'[w].pc = "transcribe" /\ worker'[w].job = j
        /\ \A v \in Workers \ {w} : worker'[v] = worker[v]
    BY <2>1
  <2>4. \A v \in Workers : worker[v].pc # "idle" => worker[v].job # j  BY <2>1
  <2> QED  BY <2>2, <2>3, <2>4
<1>3. ASSUME NEW w \in Workers, NEW pc \in {"mark_done", "mark_failed"}, WorkerGoto(w, pc),
             ~WorkerAt(w, "idle"), UNCHANGED tjob
      PROVE  PoolInv'
  BY <1>3 DEF WorkerGoto
<1>4. ASSUME NEW w \in Workers, WorkerMarksDone(w)  PROVE PoolInv'
  <2>1. PICK j \in JobIds : j = worker[w].job /\ SetJob(j, "done") /\ tjob[j].status \notin {"absent", "pending"}
    BY <1>4 DEF WorkerMarksDone
  <2>2. /\ tjob'[j].status \notin {"absent", "pending", "claimed"}
        /\ \A k \in JobIds \ {j} : tjob'[k] = tjob[k]
    BY <2>1 DEF SetJob, Row
  <2>3. /\ worker'[w].pc = "mark_item" /\ worker'[w].job = j
        /\ \A v \in Workers \ {w} : worker'[v] = worker[v]
    BY <1>4, <2>1 DEF WorkerMarksDone, WorkerGoto
  <2>4. worker[w].pc # "idle"  BY <1>4 DEF WorkerMarksDone
  <2>5. \A v \in Workers : worker'[v].job = worker[v].job /\ (worker'[v].pc # "idle" => worker[v].pc # "idle")
    BY <2>1, <2>3, <2>4
  <2>6. \A v, u \in Workers : worker'[v].pc # "idle" /\ worker'[u].pc # "idle" /\ worker'[v].job = worker'[u].job => v = u
    BY <2>5
  <2>7. \A v \in Workers \ {w} : worker[v].pc # "idle" => worker[v].job # j  BY <2>1, <2>4
  <2> QED  BY <2>1, <2>2, <2>3, <2>5, <2>6, <2>7
<1>5. ASSUME NEW w \in Workers, WorkerRests(w),
             UNCHANGED tjob \/ (WorkerAt(w, "mark_failed") /\ SetJob(worker[w].job, "failed"))
      PROVE  PoolInv'
  <2>1. worker'[w].pc = "idle" /\ \A v \in Workers \ {w} : worker'[v] = worker[v]
    BY <1>5 DEF WorkerRests, NoWork
  <2>2. \A v \in Workers \ {w} : worker[v].pc # "idle" => tjob'[worker[v].job] = tjob[worker[v].job]
    BY <1>5 DEF SetJob
  <2> QED  BY <2>1, <2>2
<1>6. CASE Reconcile  BY <1>6 DEF Reconcile
<1> QED
  BY <1>2, <1>3, <1>4, <1>5, <1>6
     DEF TranscriptionNext, WorkerStep, WorkerTranscribes, WorkerMarksItem, WorkerMarksFailed,
         WorkerRaises, WorkerDies, tables
\* A worker that lets go of its job without an exception has ended its claim.
LEMMA OthersHoldClaims ==
  ASSUME TablesTyped, ClaimsHeld, UNCHANGED worker, RowStep, faults' = 0 => faults = 0
  PROVE  ClaimsHeld'
<1> SUFFICES ASSUME faults' = 0, NEW j \in JobIds, tjob'[j].status = "claimed"
             PROVE  Held(j)'
  BY DEF ClaimsHeld, JobIds
<1>1. tjob[j].status = "claimed"
  <2>1. CASE RowsEnd  BY <2>1 DEF RowsEnd
  <2>2. ASSUME NEW i \in Items, InsertJob(i)  PROVE tjob[j].status = "claimed"
    BY <2>2 DEF InsertJob, TablesTyped
  <2> QED  BY <2>1, <2>2 DEF RowStep
<1> QED  BY <1>1 DEF ClaimsHeld, Held, Holders, WorkerAt

LEMMA TranscriptionHoldsClaims ==
  ASSUME TablesTyped, WorkersTyped, PoolInv, ClaimsHeld, TranscriptionNext
  PROVE  ClaimsHeld'
<1> SUFFICES ASSUME faults' = 0, NEW j \in JobIds, tjob'[j].status = "claimed"
             PROVE  \E w \in Workers : worker'[w].pc # "idle" /\ worker'[w].job = j
  BY DEF ClaimsHeld, Held, Holders, WorkerAt, JobIds
<1>1. /\ tjob \in [JobIds -> [status : JobStatus, item : Items]] /\ faults \in Nat
      /\ worker \in [Workers -> [pc : WorkerPC, job : JobIds \cup {0}, item : Items]]
  BY DEF TablesTyped, WorkersTyped
<1>2. faults = 0 => (tjob[j].status = "claimed" => \E w \in Workers : worker[w].pc # "idle" /\ worker[w].job = j)
  BY DEF ClaimsHeld, Held, Holders, WorkerAt
<1> USE <1>1, <1>2 DEF WorkerAt
<1>3. ASSUME NEW w \in Workers, WorkerRaises(w) \/ WorkerDies(w)  PROVE FALSE
  BY <1>3 DEF WorkerRaises, WorkerDies, Fault
<1>4. ASSUME NEW w \in Workers, WorkerClaim(w)
      PROVE  \E v \in Workers : worker'[v].pc # "idle" /\ worker'[v].job = j
  <2>1. PICK k \in JobIds :
          /\ SetJob(k, "claimed")
          /\ worker' = [worker EXCEPT ![w] = [pc |-> "transcribe", job |-> k, item |-> tjob[k].item]]
    BY <1>4 DEF WorkerClaim
  <2>2. k # j => tjob[j].status = "claimed"  BY <2>1 DEF SetJob
  <2> QED  BY <1>4, <2>1, <2>2 DEF WorkerClaim
<1>5. ASSUME NEW w \in Workers, NEW pc \in WorkerPC \ {"idle"}, WorkerGoto(w, pc), worker[w].pc # "idle",
             faults' = faults, UNCHANGED tjob \/ SetJob(worker[w].job, "done")
      PROVE  \E v \in Workers : worker'[v].pc # "idle" /\ worker'[v].job = j
  <2>1. tjob[j].status = "claimed"  BY <1>5 DEF SetJob
  <2>2. \A v \in Workers : worker'[v].job = worker[v].job /\ (worker[v].pc # "idle" => worker'[v].pc # "idle")
    BY <1>5 DEF WorkerGoto
  <2> QED  BY <1>5, <2>1, <2>2
<1>6. ASSUME NEW w \in Workers, WorkerRests(w), faults' = faults,
             \/ UNCHANGED tjob /\ WorkerAt(w, "mark_item")
             \/ SetJob(worker[w].job, "failed") /\ WorkerAt(w, "mark_failed")
      PROVE  \E v \in Workers : worker'[v].pc # "idle" /\ worker'[v].job = j
  <2>1. tjob[j].status = "claimed" /\ worker[w].job # j  BY <1>6 DEF SetJob, PoolInv, Row
  <2>2. \A v \in Workers \ {w} : worker'[v] = worker[v]  BY <1>6 DEF WorkerRests
  <2> QED  BY <1>6, <2>1, <2>2
<1>7. CASE Reconcile  BY <1>7 DEF Reconcile
<1> QED
  BY <1>3, <1>4, <1>5, <1>6, <1>7
     DEF TranscriptionNext, WorkerStep, WorkerTranscribes, WorkerMarksDone, WorkerMarksItem,
         WorkerMarksFailed, WorkerPC, tables

-----------------------------------------------------------------------------
(* The board of the transcription jobs: what the workers hold and the rows *)
(* show, read off the rows that no worker holds.                           *)

PoolMap == [j \in JobIds |-> Stage(j)]

RowStage(st) == IF st = "absent" THEN "absent" ELSE IF st = "pending" THEN "waiting" ELSE "settled"

PoolRead == PoolMap = [j \in JobIds |-> IF Held(j) THEN "running" ELSE RowStage(tjob[j].status)]

LEMMA PoolReads == PoolInv => PoolRead
<1> SUFFICES ASSUME PoolInv PROVE PoolRead  OBVIOUS
<1>1. \A j \in JobIds : Stage(j) = IF Held(j) THEN "running" ELSE RowStage(tjob[j].status)
  BY DEF PoolInv, Stage, Holders, RowStage
<1> QED  BY <1>1 DEF PoolRead, PoolMap

\* A step that moves the jobs of one set from one stage to another.
LEMMA PoolMoves ==
  ASSUME PoolRead, PoolRead', NEW J \in SUBSET JobIds, NEW from, NEW to, J # {},
         \A j \in J : PoolMap[j] = from /\ PoolMap'[j] = to,
         \A j \in JobIds \ J : PoolMap'[j] = PoolMap[j]
  PROVE  Pool!Move(J, from, to) /\ J \subseteq Pool!In(from)
<1>1. PoolMap' = [j \in JobIds |-> IF j \in J THEN to ELSE PoolMap[j]]
  <2>1. PoolMap' = [j \in JobIds |-> PoolMap'[j]]  BY DEF PoolMap, JobIds
  <2> QED  BY <2>1
<1>2. J \subseteq {j \in JobIds : PoolMap[j] = from}  OBVIOUS
<1> QED  BY <1>1, <1>2 DEF PoolMap, Pool!Move, Pool!In

\* A step that no job of the board notices.
LEMMA PoolStutters ==
  ASSUME PoolRead, PoolRead', \A j \in JobIds : PoolMap'[j] = PoolMap[j]
  PROVE  PoolMap' = PoolMap
BY DEF PoolRead, JobIds

\* Rows that end: those that no worker holds leave the board.
LEMMA EndsWithdraw ==
  ASSUME PoolRead, PoolRead', UNCHANGED worker, RowsEnd
  PROVE  [Pool!Next]_PoolMap
<1> DEFINE J == {j \in JobIds : PoolMap[j] = "waiting" /\ PoolMap'[j] = "settled"}
<1>1. \A j \in JobIds : (Held(j)' <=> Held(j))  BY DEF Held, Holders, WorkerAt
<1>2. \A j \in JobIds \ J : PoolMap'[j] = PoolMap[j]
  <2> TAKE j \in JobIds \ J
  <2>1. /\ PoolMap[j] = IF Held(j) THEN "running" ELSE RowStage(tjob[j].status)
        /\ PoolMap'[j] = IF Held(j) THEN "running" ELSE RowStage(tjob'[j].status)
    BY <1>1 DEF PoolRead, JobIds
  <2>2. \/ RowStage(tjob'[j].status) = RowStage(tjob[j].status)
        \/ RowStage(tjob[j].status) = "waiting" /\ RowStage(tjob'[j].status) = "settled"
    BY DEF RowsEnd, RowStage
  <2> QED  BY <2>1, <2>2
<1>3. CASE J = {}  BY <1>2, <1>3, PoolStutters
<1>4. CASE J # {}
  <2>1. \A j \in J : PoolMap[j] = "waiting" /\ PoolMap'[j] = "settled"  OBVIOUS
  <2>2. J \in SUBSET JobIds  OBVIOUS
  <2> HIDE DEF J
  <2>3. Pool!Move(J, "waiting", "settled") /\ J \in SUBSET Pool!In("waiting")
    BY <1>2, <1>4, <2>1, <2>2, PoolMoves
  <2> QED  BY <2>3 DEF Pool!Next, Pool!Withdraw
<1> QED  BY <1>3, <1>4

\* The insert of a row puts one absent job on the board.
LEMMA InsertEnters ==
  ASSUME TablesTyped, PoolInv, PoolRead, PoolRead', UNCHANGED worker, NEW i \in Items, InsertJob(i)
  PROVE  Pool!Next
<1>1. PICK j \in JobIds :
        /\ tjob[j].status = "absent"
        /\ tjob'[j].status = "pending"
        /\ \A k \in JobIds \ {j} : tjob'[k] = tjob[k]
  BY DEF InsertJob, TablesTyped
<1>2. \A k \in JobIds : (Held(k)' <=> Held(k))  BY DEF Held, Holders, WorkerAt
<1>3. ~Held(j)  BY <1>1 DEF PoolInv, Held, Holders
<1>4. PoolMap[j] = "absent" /\ PoolMap'[j] = "waiting"
  BY <1>1, <1>2, <1>3 DEF PoolRead, RowStage, JobIds
<1>5. \A k \in JobIds \ {j} : PoolMap'[k] = PoolMap[k]
  BY <1>1, <1>2 DEF PoolRead, JobIds
<1>6. Pool!Move({j}, "absent", "waiting")  BY <1>4, <1>5, PoolMoves
<1> QED  BY <1>6 DEF Pool!Next, Pool!Enqueue

LEMMA OthersKeepBoard ==
  ASSUME TablesTyped, PoolInv, PoolRead, PoolRead', UNCHANGED worker, RowStep
  PROVE  [Pool!Next]_PoolMap
BY EndsWithdraw, InsertEnters DEF RowStep

\* An idle worker leaves room on the board: each running job has its worker.
LEMMA RoomInPool ==
  ASSUME WorkersTyped, PoolRead, NEW w \in Workers, WorkerAt(w, "idle")
  PROVE  Pool!Cardinality(Pool!In("running")) < Cardinality(Workers)
<1> DEFINE R == {j \in JobIds : Held(j)}
           V == Workers \ {w}
           f == [j \in R |-> CHOOSE v \in Workers : v \in Holders(j)]
<1>1. /\ IsFiniteSet(V) /\ Cardinality(V) = Cardinality(Workers) - 1
      /\ Cardinality(Workers) \in Nat /\ Cardinality(V) \in Nat
  BY WorkersAssumption, FS_RemoveElement, FS_CardinalityType
<1>2. IsFiniteSet(R) /\ Cardinality(R) \in Nat
  <2>1. IsFiniteSet(JobIds)  BY ItemAssumption, FS_Interval DEF JobIds
  <2>2. R \in SUBSET JobIds  OBVIOUS
  <2>3. IsFiniteSet(R)  BY <2>1, <2>2, FS_Subset
  <2> QED  BY <2>3, FS_CardinalityType
<1>3. \A j \in R : f[j] \in Workers /\ ~WorkerAt(f[j], "idle") /\ worker[f[j]].job = j
  BY DEF Held, Holders
<1>4. f \in [R -> V]  BY <1>3
<1>5. ~ \E i, j \in R : i # j /\ f[i] = f[j]  BY <1>3
<1>6. Pool!In("running") = R
  <2>1. Pool!In("running") = {j \in JobIds : PoolMap[j] = "running"}  BY DEF Pool!In, PoolMap
  <2>2. \A j \in JobIds : PoolMap[j] = "running" <=> Held(j)  BY DEF PoolRead, RowStage
  <2> QED  BY <2>1, <2>2
<1>7. Pool!Cardinality(Pool!In("running")) = Cardinality(R)
  BY <1>6 DEF Pool!Cardinality, Cardinality
<1> HIDE DEF R, V, f
<1>8. ~ (Cardinality(V) < Cardinality(R))  BY <1>1, <1>2, <1>4, <1>5, FS_PigeonHole
<1> QED  BY <1>1, <1>2, <1>7, <1>8

\* A worker runs one job at a time, and what it lets go of is settled.
LEMMA TranscriptionKeepsBoard ==
  ASSUME TablesTyped, WorkersTyped, PoolInv, PoolRead, PoolRead', TranscriptionNext
  PROVE  [Pool!Next]_PoolMap
<1>1. /\ tjob \in [JobIds -> [status : JobStatus, item : Items]] /\ JobIds' = JobIds
      /\ worker \in [Workers -> [pc : WorkerPC, job : JobIds \cup {0}, item : Items]]
  BY DEF TablesTyped, WorkersTyped, JobIds
<1>2. \A j \in JobIds :
        /\ PoolMap[j] = IF Held(j) THEN "running" ELSE RowStage(tjob[j].status)
        /\ PoolMap'[j] = IF Held(j)' THEN "running" ELSE RowStage(tjob'[j].status)
  BY DEF PoolRead, JobIds
<1>3. /\ \A j \in JobIds : Held(j) <=> \E v \in Workers : worker[v].pc # "idle" /\ worker[v].job = j
      /\ \A j \in JobIds : Held(j)' <=> \E v \in Workers : worker'[v].pc # "idle" /\ worker'[v].job = j
  BY DEF Held, Holders, WorkerAt
<1> USE <1>1 DEF WorkerAt
<1>4. ASSUME NEW w \in Workers, WorkerClaim(w)  PROVE Pool!Next
  <2>1. PICK j \in JobIds :
          /\ tjob[j].status = "pending"
          /\ SetJob(j, "claimed")
          /\ worker' = [worker EXCEPT ![w] = [pc |-> "transcribe", job |-> j, item |-> tjob[j].item]]
    BY <1>4 DEF WorkerClaim
  <2>2. worker[w].pc = "idle"  BY <1>4 DEF WorkerClaim
  <2>3. /\ worker'[w].pc = "transcribe" /\ worker'[w].job = j
        /\ \A v \in Workers \ {w} : worker'[v] = worker[v]
    BY <2>1
  <2>4. ~Held(j) /\ Held(j)'  BY <1>3, <2>1, <2>3 DEF PoolInv
  <2>5. PoolMap[j] = "waiting" /\ PoolMap'[j] = "running"  BY <1>2, <2>1, <2>4 DEF RowStage
  <2>6. \A k \in JobIds \ {j} : (Held(k)' <=> Held(k)) /\ tjob'[k] = tjob[k]
    <3>1. \A k \in JobIds \ {j} : Held(k)' <=> Held(k)  BY <1>3, <2>2, <2>3
    <3>2. \A k \in JobIds \ {j} : tjob'[k] = tjob[k]  BY <2>1 DEF SetJob
    <3> QED  BY <3>1, <3>2
  <2>7. \A k \in JobIds \ {j} : PoolMap'[k] = PoolMap[k]  BY <1>2, <2>6
  <2>8. Pool!Move({j}, "waiting", "running")  BY <2>5, <2>7, PoolMoves
  <2> QED  BY <2>2, <2>8, RoomInPool DEF Pool!Next, Pool!Begin
<1>5. ASSUME NEW w \in Workers, NEW pc \in WorkerPC \ {"idle"}, WorkerGoto(w, pc), worker[w].pc # "idle",
             UNCHANGED tjob \/ SetJob(worker[w].job, "done")
      PROVE  PoolMap' = PoolMap
  <2>1. \A v \in Workers : worker'[v].job = worker[v].job /\ (worker'[v].pc # "idle" <=> worker[v].pc # "idle")
    BY <1>5 DEF WorkerGoto
  <2>2. \A k \in JobIds : Held(k)' <=> Held(k)  BY <1>3, <2>1
  <2>3. \A k \in JobIds : Held(k) \/ tjob'[k] = tjob[k]  BY <1>3, <1>5 DEF SetJob
  <2> QED  BY <1>2, <2>2, <2>3, PoolStutters
<1>6. ASSUME NEW w \in Workers, WorkerRests(w), worker[w].pc # "idle",
             UNCHANGED tjob \/ SetJob(worker[w].job, "failed")
      PROVE  Pool!Next
  <2>1. PICK j \in JobIds : j = worker[w].job  BY <1>6 DEF PoolInv
  <2>2. worker'[w].pc = "idle" /\ \A v \in Workers \ {w} : worker'[v] = worker[v]
    BY <1>6 DEF WorkerRests, NoWork
  <2>3. Held(j) /\ ~Held(j)'
    <3>1. \A v \in Workers : worker[v].pc # "idle" /\ worker[v].job = j => v = w
      BY <1>6, <2>1 DEF PoolInv
    <3> QED  BY <1>3, <1>6, <2>1, <2>2, <3>1
  <2>4. tjob'[j].status \notin {"absent", "pending"}  BY <1>6, <2>1 DEF PoolInv, SetJob, Row
  <2>5. PoolMap[j] = "running" /\ PoolMap'[j] = "settled"  BY <1>2, <2>3, <2>4 DEF RowStage
  <2>6. \A k \in JobIds \ {j} : (Held(k)' <=> Held(k)) /\ tjob'[k] = tjob[k]
    <3>1. \A k \in JobIds \ {j} : Held(k)' <=> Held(k)  BY <1>3, <2>1, <2>2
    <3>2. \A k \in JobIds \ {j} : tjob'[k] = tjob[k]  BY <1>6, <2>1 DEF SetJob
    <3> QED  BY <3>1, <3>2
  <2>7. \A k \in JobIds \ {j} : PoolMap'[k] = PoolMap[k]  BY <1>2, <2>6
  <2>8. Pool!Move({j}, "running", "settled")  BY <2>5, <2>7, PoolMoves
  <2> QED  BY <2>8 DEF Pool!Next, Pool!Settle
<1>7. CASE Reconcile
  <2>1. worker' = worker /\ tjob' = tjob  BY <1>7 DEF Reconcile
  <2>2. \A k \in JobIds : Held(k)' <=> Held(k)  BY <1>3, <2>1
  <2> QED  BY <1>2, <2>1, <2>2, PoolStutters
<1>8. ASSUME NEW w \in Workers, WorkerStep(w) \/ WorkerRaises(w) \/ WorkerDies(w)
      PROVE  [Pool!Next]_PoolMap
  BY <1>4, <1>5, <1>6, <1>8
     DEF WorkerStep, WorkerTranscribes, WorkerMarksDone, WorkerMarksItem, WorkerMarksFailed,
         WorkerRaises, WorkerDies, WorkerPC, tables
<1> QED  BY <1>7, <1>8 DEF TranscriptionNext

=============================================================================
