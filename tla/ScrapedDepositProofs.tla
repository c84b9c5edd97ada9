------------------------- MODULE ScrapedDepositProofs -------------------------
(***************************************************************************)
(* A deposited document is not taken back (DepositKept), for every set of  *)
(* items, tasks, workers and clients, and for every bound.                 *)
(***************************************************************************)
EXTENDS ScrapedPipelineProofs

-----------------------------------------------------------------------------
(* The life of an item that nothing has raced with.  From its selection to *)
(* its deposit it is in the hands of one actor at a time: a call about to  *)
(* insert its download, the one download of the item, the one job of its   *)
(* transcription, the deposit worker.                                      *)

Plain(i) == i \notin raced /\ i \notin overtaken

Busy(w, i) == ~WorkerAt(w, "idle") /\ worker[w].item = i
AtWork(i) == Running(i) # {} \/ \E w \in Workers : Busy(w, i)
OnRun(r, i) == run[r].pc # "idle" /\ run[r].item = i
Chosen(i) == \E c \in Callers : call[c].pc \in Choosing /\ call[c].item = i
Holding(i) == depositor.pc \in {"deposit", "mark", "fail"} /\ depositor.item = i

\* A download that has yet to hand the item over, or a call that will insert one.
RowComing(i) == \E j \in DownloadIds : djob[j].item = i /\ djob[j].status = "pending"
RunComing(i) == \E r \in Runs : run[r].pc \in {"start", "container", "insert", "fail_item"} /\ run[r].item = i
CallComing(i) == \E c \in Callers : call[c].pc \in {"enqueue", "requeue"} /\ call[c].item = i
Coming(i) == RowComing(i) \/ RunComing(i) \/ CallComing(i)

\* Nothing will be heard of the item any more from its download.
Over(i) == ~Active(i) \/ \E r \in Runs : run[r].pc = "finish" /\ run[r].item = i

OneDownload(i) ==
  \A j, k \in DownloadIds : djob[j].item = i /\ InFlight(j) /\ djob[k].item = i /\ InFlight(k) => j = k
HeldRows(i) == \A r \in Runs : OnRun(r, i) => djob[run[r].job].status \in {"claimed", "processing"}
OneJob(i) ==
  /\ \A j, k \in Running(i) : j = k
  /\ \A j \in Running(i), w \in Workers : Busy(w, i) => worker[w].job = j
  /\ \A w, v \in Workers : Busy(w, i) /\ Busy(v, i) => w = v

OneHand(i) == OneDownload(i) /\ HeldRows(i) /\ OneJob(i) /\ (Chosen(i) => ~Active(i))
InOrder(i) ==
  /\ Coming(i) => item[i] = "pending_download" /\ ~AtWork(i)
  /\ item[i] = "pending_download" /\ Over(i) => ~AtWork(i)
  /\ item[i] \in {"transcribed", "depositing", "deposited"} => ~AtWork(i)
  /\ item[i] = "failed" => Running(i) = {}
  /\ Holding(i) => item[i] = "depositing"

Cycle(i) == Plain(i) => OneHand(i) /\ InOrder(i)

\* A claimed job is never pending again, and is done before its item is written.
WorkerKeeps(w) ==
  worker[w].pc # "idle" =>
    /\ tjob[worker[w].job].status # "pending"
    /\ worker[w].pc = "mark_item" => tjob[worker[w].job].status = "done"

\* A job is claimed by one worker.
Distinct == \A w, v \in Workers : worker[w].pc # "idle" /\ worker[v].pc # "idle" /\ worker[w].job = worker[v].job => w = v

WorkersKeep == Distinct /\ \A w \in Workers : WorkerKeeps(w)
Orderly == (\A i \in Items : Cycle(i)) /\ WorkersKeep

\* The invariants of the other proofs.
Base == TypeInv /\ Known /\ Queued

-----------------------------------------------------------------------------
(* What a step leaves alone.                                               *)

LEMMA SameWork ==
  ASSUME NEW i, UNCHANGED <<tjob, worker>>
  PROVE  Running(i)' = Running(i) /\ (AtWork(i)' <=> AtWork(i)) /\ (OneJob(i)' <=> OneJob(i))
<1>1. Running(i)' = Running(i) /\ \A w \in Workers : Busy(w, i)' <=> Busy(w, i)
  BY DEF Running, JobsOf, Row, Busy, WorkerAt
<1> QED  BY <1>1 DEF AtWork, OneJob

LEMMA SameDownload ==
  ASSUME NEW i, UNCHANGED <<djob, run>>
  PROVE  /\ (OneDownload(i)' <=> OneDownload(i)) /\ (HeldRows(i)' <=> HeldRows(i)) /\ (Over(i)' <=> Over(i))
         /\ (RowComing(i)' <=> RowComing(i)) /\ (RunComing(i)' <=> RunComing(i)) /\ (Active(i)' <=> Active(i))
BY DEF OneDownload, HeldRows, Over, RowComing, RunComing, Active, InFlight, OnRun

LEMMA SameCalls ==
  ASSUME NEW i, UNCHANGED call
  PROVE  (Chosen(i)' <=> Chosen(i)) /\ (CallComing(i)' <=> CallComing(i))
BY DEF Chosen, CallComing

LEMMA SameHolding ==
  ASSUME NEW i, UNCHANGED depositor
  PROVE  Holding(i)' <=> Holding(i)
BY DEF Holding

\* The item stays where it is and nothing more is done for it.
LEMMA CycleStays ==
  ASSUME NEW i \in Items, Cycle(i), Plain(i)' => Plain(i),
         Plain(i)' =>
           /\ OneDownload(i)' /\ HeldRows(i)' /\ OneJob(i)'
           /\ Chosen(i)' => Chosen(i) \/ ~Active(i)'
           /\ Active(i)' => Active(i) \/ ~Chosen(i)'
           /\ AtWork(i)' => AtWork(i)
           /\ Running(i) = {} => Running(i)' = {}
           /\ Coming(i)' => Coming(i)
           /\ Over(i)' => Over(i) \/ ~AtWork(i)'
           /\ Holding(i)' => Holding(i)
           /\ item'[i] = item[i]
  PROVE  Cycle(i)'
BY DEF Cycle, OneHand, InOrder

\* No job of the item and no worker on it.
LEMMA NoneRunning == \A i : ~AtWork(i) => Running(i) = {}
BY DEF AtWork
-----------------------------------------------------------------------------
(* The transcription workers.                                              *)

\* What is done for an item: no step of the workers adds to it.
Eases(i) ==
  /\ AtWork(i)' => AtWork(i)
  /\ Running(i) = {} => Running(i)' = {}
  /\ OneJob(i) => OneJob(i)'

LEMMA WorkEases ==
  ASSUME NEW i, \A j \in JobIds : j \in Running(i)' => j \in Running(i),
         \A w \in Workers : Busy(w, i)' => Busy(w, i) /\ worker'[w].job = worker[w].job
  PROVE  Eases(i)
<1>1. Running(i)' \subseteq Running(i)  BY DEF Running, JobsOf
<1> QED  BY <1>1 DEF Eases, AtWork, OneJob

LEMMA SetJobRuns ==
  ASSUME TablesTyped, NEW j, NEW st \in {"done", "failed"}, SetJob(j, st), NEW i
  PROVE  \A k \in JobIds : k \in Running(i)' => k \in Running(i)
BY DEF TablesTyped, SetJob, Running, JobsOf, Row

\* A worker moves with its job or leaves it, and its row is not pending again.
LEMMA KeepsOn ==
  ASSUME WorkersKeep, NEW w \in Workers, \A v \in Workers \ {w} : worker'[v] = worker[v],
         worker[w].pc # "idle",
         worker'[w].pc # "idle" =>
           /\ worker'[w].job = worker[w].job
           /\ worker'[w].pc = "mark_item" => tjob'[worker[w].job].status = "done",
         tjob'[worker[w].job].status # "pending",
         \A v \in Workers \ {w} : worker[v].pc # "idle" => tjob'[worker[v].job] = tjob[worker[v].job]
  PROVE  WorkersKeep'
BY DEF WorkersKeep, Distinct, WorkerKeeps

LEMMA WorkersEase ==
  ASSUME Base, WorkersKeep, TranscriptionNext
  PROVE  WorkersKeep' /\ \A i \in Items : Eases(i)
<1>1. /\ TablesTyped /\ worker \in [Workers -> [pc : WorkerPC, job : JobIds \cup {0}, item : Items]]
      /\ \A w \in Workers : WorkerOwns(w)
  BY TypeParts DEF Base, CallState, DownloadState, WorkersTyped, Queued
<1>2. ASSUME NEW w \in Workers, WorkerClaim(w)  PROVE WorkersKeep' /\ \A i \in Items : Eases(i)
  <2>1. PICK j \in JobIds :
          /\ tjob[j].status = "pending"
          /\ SetJob(j, "claimed")
          /\ worker' = [worker EXCEPT ![w] = [pc |-> "transcribe", job |-> j, item |-> tjob[j].item]]
    BY <1>2 DEF WorkerClaim
  <2>2. /\ worker[w].pc = "idle" /\ worker'[w].pc = "transcribe" /\ worker'[w].job = j
        /\ worker'[w].item = tjob[j].item /\ \A v \in Workers \ {w} : worker'[v] = worker[v]
    BY <1>1, <1>2, <2>1 DEF WorkerClaim, WorkerAt
  <2>3. /\ tjob'[j].status = "claimed" /\ tjob'[j].item = tjob[j].item
        /\ \A k \in JobIds \ {j} : tjob'[k] = tjob[k]
    BY <1>1, <2>1 DEF SetJob, Row, TablesTyped
  <2>4. ASSUME NEW v \in Workers \ {w}, worker[v].pc # "idle"
        PROVE  worker[v].job # j /\ worker[v].job \in JobIds
    BY <1>1, <2>1, <2>4 DEF WorkersKeep, WorkerKeeps, WorkerOwns
  <2>5. WorkersKeep'
    BY <2>2, <2>3, <2>4 DEF WorkersKeep, Distinct, WorkerKeeps
  <2>6. ASSUME NEW i \in Items  PROVE Eases(i)
    <3>1. Running(i)' = Running(i)  BY <2>1, <2>3 DEF Running, JobsOf, Row
    <3>2. \A v \in Workers \ {w} : (Busy(v, i)' <=> Busy(v, i)) /\ worker'[v].job = worker[v].job
      BY <2>2 DEF Busy, WorkerAt
    <3>3. CASE tjob[j].item # i
      <4>1. ~Busy(w, i)'  BY <2>2, <3>3 DEF Busy
      <4> QED  BY <3>1, <3>2, <4>1, WorkEases
    <3>4. CASE tjob[j].item = i
      <4>1. j \in Running(i)  BY <2>1, <3>4 DEF Running, JobsOf, Row
      <4>2. ASSUME OneJob(i), NEW v \in Workers \ {w}  PROVE ~Busy(v, i)
        BY <2>4, <4>1, <4>2 DEF OneJob, Busy, WorkerAt
      <4>3. OneJob(i) => OneJob(i)'  BY <2>2, <3>1, <3>2, <4>1, <4>2 DEF OneJob
      <4> QED  BY <3>1, <4>1, <4>3 DEF Eases, AtWork
    <3> QED  BY <3>3, <3>4
  <2> QED  BY <2>5, <2>6
<1>3. ASSUME NEW w \in Workers, WorkerTranscribes(w) \/ WorkerRaises(w) \/ WorkerDies(w) \/ WorkerMarksItem(w)
      PROVE  WorkersKeep' /\ \A i \in Items : Eases(i)
  <2>1. /\ UNCHANGED tjob /\ worker[w].pc # "idle" /\ \A v \in Workers \ {w} : worker'[v] = worker[v]
        /\ worker'[w].pc # "idle" => /\ worker'[w].job = worker[w].job /\ worker'[w].item = worker[w].item
                                     /\ worker'[w].pc # "mark_item"
    BY <1>1, <1>3 DEF WorkerTranscribes, WorkerRaises, WorkerDies, WorkerMarksItem, WorkerAt, WorkerGoto,
                      WorkerRests, NoWork, tables
  <2>2. WorkersKeep'  BY <2>1, KeepsOn DEF WorkersKeep, WorkerKeeps
  <2>3. ASSUME NEW i \in Items  PROVE Eases(i)
    <3>1. Running(i)' = Running(i)  BY <2>1 DEF Running, JobsOf, Row
    <3>2. \A v \in Workers : Busy(v, i)' => Busy(v, i) /\ worker'[v].job = worker[v].job
      BY <2>1 DEF Busy, WorkerAt
    <3> QED  BY <3>1, <3>2, WorkEases
  <2> QED  BY <2>2, <2>3
<1>4. ASSUME NEW w \in Workers, WorkerMarksDone(w) \/ WorkerMarksFailed(w)
      PROVE  WorkersKeep' /\ \A i \in Items : Eases(i)
  <2>1. PICK st \in {"done", "failed"} :
          /\ SetJob(worker[w].job, st)
          /\ worker[w].pc # "idle" /\ \A v \in Workers \ {w} : worker'[v] = worker[v]
          /\ worker'[w].pc # "idle" => /\ worker'[w].job = worker[w].job /\ worker'[w].item = worker[w].item
                                       /\ st = "done"
    BY <1>1, <1>4 DEF WorkerMarksDone, WorkerMarksFailed, WorkerAt, WorkerGoto, WorkerRests, NoWork
  <2>2. PICK j \in JobIds : j = worker[w].job /\ Row(j)  BY <1>1, <2>1 DEF WorkerOwns
  <2>3. tjob'[j].status = st /\ \A k \in JobIds \ {j} : tjob'[k] = tjob[k]
    BY <1>1, <2>1, <2>2 DEF SetJob, TablesTyped
  <2>4. \A v \in Workers \ {w} : worker[v].pc # "idle" => worker[v].job \in JobIds \ {j}
    BY <1>1, <2>1, <2>2 DEF WorkersKeep, Distinct, WorkerOwns
  <2>5. WorkersKeep'  BY <2>1, <2>2, <2>3, <2>4, KeepsOn
  <2>6. ASSUME NEW i \in Items  PROVE Eases(i)
    <3>1. \A k \in JobIds : k \in Running(i)' => k \in Running(i)  BY <1>1, <2>1, SetJobRuns
    <3>2. \A v \in Workers : Busy(v, i)' => Busy(v, i) /\ worker'[v].job = worker[v].job
      BY <2>1 DEF Busy, WorkerAt
    <3> QED  BY <3>1, <3>2, WorkEases
  <2> QED  BY <2>5, <2>6
<1>5. CASE Reconcile
  <2>1. UNCHANGED <<tjob, worker>>  BY <1>5 DEF Reconcile
  <2>2. WorkersKeep'  BY <2>1 DEF WorkersKeep, Distinct, WorkerKeeps
  <2> QED  BY <2>1, <2>2, SameWork DEF Eases
<1> QED  BY <1>2, <1>3, <1>4, <1>5 DEF TranscriptionNext, WorkerStep

\* A worker that writes its item leaves nobody at work on it.
LEMMA LastAtWork ==
  ASSUME Base, WorkersKeep, NEW w \in Workers, WorkerMarksItem(w), NEW i \in Items, OneJob(i), worker[w].item = i
  PROVE  ~AtWork(i)'
<1>1. worker[w].pc = "mark_item" /\ Busy(w, i)  BY DEF WorkerMarksItem, WorkerAt, Busy
<1>2. tjob[worker[w].job].status = "done"  BY <1>1 DEF WorkersKeep, WorkerKeeps
<1>3. Running(i) = {}  BY <1>1, <1>2 DEF OneJob, Running
<1>4. UNCHANGED tjob /\ worker'[w].pc = "idle" /\ \A v \in Workers \ {w} : worker'[v] = worker[v]
  BY TypeParts DEF Base, WorkersTyped, WorkerMarksItem, WorkerRests, NoWork
<1>5. \A v \in Workers : ~Busy(v, i)'  BY <1>1, <1>4 DEF OneJob, Busy, WorkerAt
<1>6. Running(i)' = {}  BY <1>3, <1>4 DEF Running, JobsOf, Row
<1> QED  BY <1>5, <1>6 DEF AtWork

LEMMA TranscriptionOrderly ==
  ASSUME Base, Orderly, TranscriptionNext, UNCHANGED <<downloads, depositor, call>>
  PROVE  Orderly'
<1>1. WorkersKeep' /\ \A i \in Items : Eases(i)  BY WorkersEase DEF Orderly
<1>2. TablesTyped /\ \A w \in Workers : worker[w].item \in Items
  BY TypeParts DEF Base, CallState, DownloadState, WorkersTyped
<1> SUFFICES ASSUME NEW i \in Items  PROVE Cycle(i)'  BY <1>1 DEF Orderly
<1>3. Cycle(i) /\ (Plain(i)' <=> Plain(i)) /\ UNCHANGED <<djob, run>>  BY DEF Orderly, Plain, downloads
<1>4. /\ (OneDownload(i)' <=> OneDownload(i)) /\ (HeldRows(i)' <=> HeldRows(i)) /\ (Over(i)' <=> Over(i))
      /\ (Coming(i)' <=> Coming(i)) /\ (Active(i)' <=> Active(i)) /\ (Chosen(i)' <=> Chosen(i))
      /\ (Holding(i)' <=> Holding(i))
  BY <1>3, SameDownload, SameCalls, SameHolding DEF Coming
<1>5. CASE item'[i] = item[i]
  BY <1>1, <1>3, <1>4, <1>5, CycleStays DEF Eases, Cycle, OneHand
<1>6. ASSUME NEW w \in Workers, WorkerMarksItem(w), worker[w].item = i, Plain(i)
      PROVE  Cycle(i)'
  <2>1. OneHand(i) /\ InOrder(i)  BY <1>3, <1>6 DEF Cycle
  <2>2. ~AtWork(i)'  BY <1>6, <2>1, LastAtWork DEF Orderly, OneHand
  <2>3. AtWork(i)  BY <1>6 DEF AtWork, Busy, WorkerMarksItem, WorkerAt
  <2>4. ~Coming(i) /\ ~Holding(i)  BY <2>1, <2>3 DEF InOrder
  <2>5. item'[i] \in {item[i], "transcribed"}
    BY <1>2, <1>6 DEF WorkerMarksItem, Ready, Update, TablesTyped
  <2>6. OneHand(i)'  BY <1>1, <1>4, <2>1 DEF OneHand, Eases
  <2>7. Running(i)' = {}  BY <2>2 DEF AtWork
  <2>8. InOrder(i)'  BY <1>4, <2>2, <2>4, <2>7 DEF InOrder
  <2> QED  BY <2>6, <2>8 DEF Cycle
<1>7. CASE Reconcile /\ item'[i] # item[i]
  <2>1. Running(i) = {} /\ item[i] = "queued_transcription" /\ item'[i] = "failed"
    BY <1>2, <1>7 DEF Reconcile, FailDeadItems, Dead, TablesTyped
  <2>2. Running(i)' = {}  BY <1>1, <2>1 DEF Eases
  <2> QED  BY <1>1, <1>3, <1>4, <2>1, <2>2 DEF Cycle, OneHand, InOrder, Eases
<1>8. ASSUME NEW w \in Workers, WorkerMarksItem(w), worker[w].item # i
      PROVE  item'[i] = item[i]
  BY <1>2, <1>8 DEF WorkerMarksItem, Ready, Update, TablesTyped
<1>9. CASE ~Plain(i)  BY <1>3, <1>9 DEF Cycle
<1>10. \/ item'[i] = item[i]
       \/ Reconcile
       \/ \E w \in Workers : WorkerMarksItem(w)
  BY DEF TranscriptionNext, WorkerStep, WorkerClaim, WorkerTranscribes, WorkerMarksDone, WorkerMarksFailed,
         WorkerRaises, WorkerDies, tables
<1> QED  BY <1>5, <1>6, <1>7, <1>8, <1>9, <1>10
-----------------------------------------------------------------------------
(* The deposit worker.                                                     *)

LEMMA DepositOrderly ==
  ASSUME Base, Orderly, DepositNext, UNCHANGED <<downloads, worker, call>>
  PROVE  Orderly'
<1>1. TablesTyped /\ DepositTyped /\ depositor.item \in Items
  BY TypeParts DEF Base, CallState, DownloadState, DepositTyped
<1>2. UNCHANGED tjob
  BY DEF DepositNext, DepositStep, DepositRecover, DepositClaim, DepositSucceeds, DepositAttemptFails,
         DepositMark, DepositMarkFailed, DepositRecoverRaises, DepositRaises, tables
<1>3. WorkersKeep'  BY <1>2 DEF Orderly, WorkersKeep, Distinct, WorkerKeeps
<1> SUFFICES ASSUME NEW i \in Items, Plain(i)'  PROVE OneHand(i)' /\ InOrder(i)'
  BY <1>3 DEF Orderly, Cycle
<1>4. UNCHANGED <<djob, run>> /\ Plain(i)  BY DEF Plain, downloads
<1>5. OneHand(i) /\ InOrder(i)  BY <1>4 DEF Orderly, Cycle
<1>6. /\ (OneDownload(i)' <=> OneDownload(i)) /\ (HeldRows(i)' <=> HeldRows(i)) /\ (Over(i)' <=> Over(i))
      /\ (Coming(i)' <=> Coming(i)) /\ (Active(i)' <=> Active(i)) /\ (Chosen(i)' <=> Chosen(i))
      /\ Running(i)' = Running(i) /\ (AtWork(i)' <=> AtWork(i)) /\ (OneJob(i)' <=> OneJob(i))
  BY <1>2, <1>4, SameDownload, SameCalls, SameWork DEF Coming
<1>7. OneHand(i)'  BY <1>5, <1>6 DEF OneHand
<1>8. \/ item'[i] = item[i] /\ (Holding(i)' => Holding(i))
      \/ /\ item[i] \in {"transcribed", "depositing"}
         /\ item'[i] \in {"transcribed", "depositing", "deposited", "failed"}
         /\ Holding(i)' => item'[i] = "depositing"
  <2>1. CASE DepositRecover
    BY <1>1, <2>1 DEF DepositRecover, RequeueDepositing, DepositorGoto, DepositTyped, Holding
  <2>2. CASE DepositClaim
    <3>1. PICK k \in Items : /\ item[k] = "transcribed" /\ Update(k, "depositing")
                             /\ depositor' = [pc |-> "deposit", item |-> k, attempt |-> 1]
      BY <2>2 DEF DepositClaim
    <3> QED  BY <1>1, <3>1 DEF Update, Present, TablesTyped, Holding
  <2>3. CASE DepositSucceeds \/ DepositAttemptFails
    BY <1>1, <2>3 DEF DepositSucceeds, DepositAttemptFails, DepositorAt, DepositorGoto, DepositTyped, Holding, tables
  <2>4. CASE DepositRecoverRaises \/ DepositRaises
    BY <1>1, <2>4 DEF DepositRecoverRaises, DepositRaises, DepositorGoto, DepositTyped, Holding, tables
  <2>5. CASE DepositMark \/ DepositMarkFailed
    <3>1. PICK st \in {"deposited", "failed"} :
            Update(depositor.item, st) /\ depositor.pc \in {"mark", "fail"} /\ depositor'.pc = "poll"
      BY <1>1, <2>5 DEF DepositMark, DepositMarkFailed, DepositorAt, DepositorGoto, DepositTyped
    <3>2. ~Holding(i)'  BY <3>1 DEF Holding
    <3>3. depositor.item = i => item[i] = "depositing"  BY <1>5, <3>1 DEF InOrder, Holding
    <3> QED  BY <1>1, <3>1, <3>2, <3>3 DEF Update, Present, TablesTyped
  <2> QED  BY <2>1, <2>2, <2>3, <2>4, <2>5 DEF DepositNext, DepositStep
<1>9. InOrder(i)'
  <2>1. CASE item'[i] = item[i] /\ (Holding(i)' => Holding(i))  BY <1>5, <1>6, <2>1 DEF InOrder
  <2>2. CASE /\ item[i] \in {"transcribed", "depositing"}
             /\ item'[i] \in {"transcribed", "depositing", "deposited", "failed"}
             /\ Holding(i)' => item'[i] = "depositing"
    <3>1. ~AtWork(i) /\ ~Coming(i)  BY <1>5, <2>2 DEF InOrder
    <3> QED  BY <1>6, <2>2, <3>1, NoneRunning DEF InOrder
  <2> QED  BY <1>8, <2>1, <2>2
<1> QED  BY <1>7, <1>9
-----------------------------------------------------------------------------
(* The downloads and their tasks.                                          *)

\* The task on an item is alone with it.
LEMMA Alone ==
  ASSUME Base, NEW i, OneHand(i), NEW r \in Runs, OnRun(r, i)
  PROVE  /\ run[r].job \in DownloadIds /\ djob[run[r].job].item = i /\ InFlight(run[r].job)
         /\ djob[run[r].job].status \in {"claimed", "processing"}
         /\ \A j \in DownloadIds : djob[j].item = i /\ InFlight(j) => j = run[r].job
         /\ \A s \in Runs : OnRun(s, i) => s = r
         /\ Active(i) /\ ~Chosen(i) /\ ~RowComing(i) /\ ~CallComing(i)
<1>1. RunOwns(r) /\ \A s \in Runs : RunOwns(s)  BY DEF Base, TypeInv, RunsOwn
<1>2. \A s \in Runs : run[r].pc # "idle" /\ run[r].job = run[s].job => r = s
  BY DEF Base, TypeInv, TypeOK, DownloadsTyped
<1>3. /\ run[r].job \in DownloadIds /\ djob[run[r].job].item = i /\ InFlight(run[r].job)
      /\ djob[run[r].job].status \in {"claimed", "processing"}
  BY <1>1 DEF OneHand, HeldRows, OnRun, RunOwns, InFlight
<1>4. \A j \in DownloadIds : djob[j].item = i /\ InFlight(j) => j = run[r].job
  BY <1>3 DEF OneHand, OneDownload
<1>5. ASSUME NEW s \in Runs, OnRun(s, i)  PROVE s = r
  <2>1. /\ run[s].job \in DownloadIds /\ djob[run[s].job].item = i /\ InFlight(run[s].job)
    BY <1>1, <1>5 DEF OneHand, HeldRows, OnRun, RunOwns, InFlight
  <2> QED  BY <1>2, <1>4, <2>1 DEF OnRun
<1>6. Active(i)  BY <1>3 DEF Active, InFlight
<1>7. ~Chosen(i)  BY <1>6 DEF OneHand
<1>8. ~CallComing(i)  BY <1>7 DEF Chosen, CallComing, Choosing
<1>9. ~RowComing(i)  BY <1>3, <1>4 DEF RowComing, InFlight
<1> QED  BY <1>3, <1>4, <1>5, <1>6, <1>7, <1>8, <1>9

\* A step that leaves alone the rows of the item and the task on it.
LEMMA SameRows ==
  ASSUME Base, NEW i,
         \A j \in DownloadIds : djob'[j].item = djob[j].item /\ (djob[j].item = i => djob'[j] = djob[j]),
         \A s \in Runs : run'[s] = run[s] \/ (~OnRun(s, i) /\ ~OnRun(s, i)')
  PROVE  /\ (OneDownload(i)' <=> OneDownload(i)) /\ (HeldRows(i)' <=> HeldRows(i)) /\ (Over(i)' <=> Over(i))
         /\ (RowComing(i)' <=> RowComing(i)) /\ (RunComing(i)' <=> RunComing(i)) /\ (Active(i)' <=> Active(i))
<1>1. /\ (OneDownload(i)' <=> OneDownload(i)) /\ (RowComing(i)' <=> RowComing(i)) /\ (Active(i)' <=> Active(i))
  BY DEF OneDownload, RowComing, Active, InFlight
<1>2. (RunComing(i)' <=> RunComing(i)) /\ (Over(i)' <=> Over(i))
  BY <1>1 DEF RunComing, Over, OnRun
<1>3. \A s \in Runs : OnRun(s, i) => run[s].job \in DownloadIds /\ djob[run[s].job].item = i
  BY DEF Base, TypeInv, RunsOwn, RunOwns, OnRun
<1>4. HeldRows(i)' <=> HeldRows(i)  BY <1>3 DEF HeldRows, OnRun
<1> QED  BY <1>1, <1>2, <1>4

\* The item waits for its download and nobody works on it.
LEMMA QuietCycle ==
  ASSUME NEW i, Plain(i)' => OneHand(i)' /\ item'[i] = "pending_download" /\ ~AtWork(i)' /\ ~Holding(i)'
  PROVE  Cycle(i)'
BY DEF Cycle, InOrder

LEMMA ComingIsQuiet ==
  ASSUME NEW i, OneHand(i), InOrder(i), Coming(i)
  PROVE  item[i] = "pending_download" /\ ~AtWork(i) /\ ~Holding(i) /\ Running(i) = {}
BY NoneRunning DEF InOrder
\* A step of a task on other items.
LEMMA OtherCycle ==
  ASSUME Base, NEW i \in Items, Cycle(i), UNCHANGED <<worker, depositor, call>>, Plain(i)' => Plain(i),
         \A j \in DownloadIds : djob'[j].item = djob[j].item /\ (djob[j].item = i => djob'[j] = djob[j]),
         \A s \in Runs : run'[s] = run[s] \/ (~OnRun(s, i) /\ ~OnRun(s, i)'),
         item'[i] = item[i], Running(i)' = Running(i)
  PROVE  Cycle(i)'
<1>1. /\ (OneDownload(i)' <=> OneDownload(i)) /\ (HeldRows(i)' <=> HeldRows(i)) /\ (Over(i)' <=> Over(i))
      /\ (RowComing(i)' <=> RowComing(i)) /\ (RunComing(i)' <=> RunComing(i)) /\ (Active(i)' <=> Active(i))
  BY SameRows
<1>2. (Chosen(i)' <=> Chosen(i)) /\ (CallComing(i)' <=> CallComing(i)) /\ (Holding(i)' <=> Holding(i))
  BY SameCalls, SameHolding
<1>3. \A w \in Workers : (Busy(w, i)' <=> Busy(w, i)) /\ worker'[w] = worker[w]  BY DEF Busy, WorkerAt
<1>4. (AtWork(i)' <=> AtWork(i)) /\ (OneJob(i)' <=> OneJob(i))  BY <1>3 DEF AtWork, OneJob
<1> QED  BY <1>1, <1>2, <1>4 DEF Cycle, OneHand, InOrder, Coming

LEMMA ClaimOrderly ==
  ASSUME Base, NEW r \in Runs, RunClaim(r), NEW i \in Items, Cycle(i), UNCHANGED <<worker, depositor, call>>
  PROVE  Cycle(i)'
<1>1. DownloadState  BY TypeParts DEF Base, CallState
<1>2. PICK j \in DownloadIds :
        /\ djob[j].status = "pending" /\ SetDownload(j, "claimed")
        /\ run' = [run EXCEPT ![r] = [pc |-> "start", job |-> j, item |-> djob[j].item]]
  BY DEF RunClaim, NextDownload
<1>3. /\ \A k \in DownloadIds : djob'[k].item = djob[k].item
      /\ \A k \in DownloadIds : IF k = j THEN djob'[k].status = "claimed" ELSE djob'[k] = djob[k]
  BY <1>1, <1>2, RowMoves
<1>4. /\ run[r].pc = "idle" /\ run'[r].pc = "start" /\ run'[r].job = j /\ run'[r].item = djob[j].item
      /\ \A s \in Runs \ {r} : run'[s] = run[s]
  BY <1>1, <1>2 DEF RunClaim, RunAt, DownloadState, DownloadsTyped
<1>5. UNCHANGED <<item, tjob>> /\ (Plain(i)' <=> Plain(i))  BY DEF RunClaim, tables, Plain
<1>6. Running(i)' = Running(i)  BY <1>5, SameWork
<1>7. CASE djob[j].item # i
  BY <1>3, <1>4, <1>5, <1>6, <1>7, OtherCycle DEF OnRun
<1>8. CASE djob[j].item = i /\ Plain(i)
  <2>1. OneHand(i) /\ InOrder(i)  BY <1>8 DEF Cycle
  <2>2. Coming(i)  BY <1>2, <1>8 DEF Coming, RowComing
  <2>3. \A k \in DownloadIds : InFlight(k)' <=> InFlight(k)  BY <1>2, <1>3 DEF InFlight
  <2>4. OneDownload(i)' /\ (Active(i)' <=> Active(i))
    BY <1>3, <2>1, <2>3 DEF OneHand, OneDownload, Active, InFlight
  <2>5. HeldRows(i)'  BY <1>3, <1>4, <2>1 DEF OneHand, HeldRows, OnRun, Base, TypeInv, RunsOwn, RunOwns
  <2>6. OneHand(i)'  BY <1>5, <2>1, <2>4, <2>5, SameWork, SameCalls DEF OneHand
  <2> QED  BY <1>5, <2>1, <2>2, <2>6, ComingIsQuiet, QuietCycle, SameWork, SameHolding
<1>9. CASE ~Plain(i)  BY <1>5, <1>9 DEF Cycle
<1> QED  BY <1>7, <1>8, <1>9

\* A task that moves on with its row in flight.
LEMMA StillAlone ==
  ASSUME Base, NEW i, OneHand(i), NEW r \in Runs, OnRun(r, i),
         \A j \in DownloadIds : djob'[j].item = djob[j].item /\ (j # run[r].job => djob'[j] = djob[j]),
         djob'[run[r].job].status \in {"claimed", "processing"},
         \A s \in Runs \ {r} : run'[s] = run[s],
         run'[r].pc # "idle" => run'[r].job = run[r].job,
         UNCHANGED <<worker, call>>, OneJob(i)'
  PROVE  OneHand(i)' /\ Active(i)' /\ ~RowComing(i)' /\ ~CallComing(i)' /\ \A s \in Runs \ {r} : ~OnRun(s, i)'
<1>1. /\ run[r].job \in DownloadIds /\ djob[run[r].job].item = i /\ InFlight(run[r].job)
      /\ \A j \in DownloadIds : djob[j].item = i /\ InFlight(j) => j = run[r].job
      /\ \A s \in Runs : OnRun(s, i) => s = r
      /\ ~Chosen(i) /\ ~CallComing(i) /\ ~RowComing(i)
  BY Alone
<1>2. \A j \in DownloadIds : djob'[j].item = i /\ InFlight(j)' => j = run[r].job  BY <1>1 DEF InFlight
<1>3. OneDownload(i)' /\ ~RowComing(i)' /\ Active(i)'
  BY <1>1, <1>2 DEF OneDownload, RowComing, Active, InFlight
<1>4. \A s \in Runs \ {r} : ~OnRun(s, i)'  BY <1>1 DEF OnRun
<1>5. HeldRows(i)'  BY <1>1, <1>4 DEF HeldRows, OnRun
<1>6. ~Chosen(i)' /\ ~CallComing(i)'  BY <1>1, SameCalls
<1> QED  BY <1>3, <1>4, <1>5, <1>6 DEF OneHand
\* The steps of a task before it hands its item over.
LEMMA EarlyOrderly ==
  ASSUME Base, NEW r \in Runs, RunStart(r) \/ RunEvent(r), NEW i \in Items, Cycle(i),
         UNCHANGED <<worker, depositor, call>>
  PROVE  Cycle(i)'
<1>1. DownloadState /\ run[r].job \in DownloadIds /\ djob[run[r].job].item = run[r].item
      /\ run[r].pc \in {"start", "container"}
      /\ (run[r].pc = "container" => RunEvent(r))
  BY TypeParts DEF Base, CallState, TypeInv, RunsOwn, RunOwns, RunStart, RunEvent, RunAt
<1>2. PICK pc \in {"container", "insert", "fail_item", "finish"} : RunGoto(r, pc)
  BY DEF RunStart, RunEvent
<1>3. /\ run'[r].job = run[r].job /\ run'[r].item = run[r].item /\ run'[r].pc = pc
      /\ \A s \in Runs \ {r} : run'[s] = run[s]
  BY <1>1, <1>2, RunMoves DEF RunAt, RunPC
<1>4. \A j \in DownloadIds : djob'[j].item = djob[j].item /\ (j # run[r].job => djob'[j] = djob[j])
  <2>1. CASE RunStart(r)
    <3>1. PICK j \in DownloadIds : j = run[r].job  BY <1>1
    <3> QED  BY <1>1, <2>1, <3>1, RowMoves DEF RunStart
  <2>2. CASE RunEvent(r)  BY <2>2 DEF RunEvent
  <2> QED  BY <2>1, <2>2
<1>5. UNCHANGED <<item, tjob>> /\ (Plain(i)' <=> Plain(i))  BY DEF RunStart, RunEvent, tables, Plain
<1>6. Running(i)' = Running(i)  BY <1>5, SameWork
<1>7. CASE run[r].item # i
  BY <1>1, <1>3, <1>4, <1>5, <1>6, <1>7, OtherCycle DEF OnRun
<1>8. CASE run[r].item = i /\ Plain(i)
  <2>1. OneHand(i) /\ InOrder(i) /\ OnRun(r, i)  BY <1>1, <1>8 DEF Cycle, OnRun
  <2>2. Coming(i)  BY <1>1, <1>8 DEF Coming, RunComing
  <2>3. djob'[run[r].job].status \in {"claimed", "processing"}
    <3>1. CASE RunStart(r)
      <4>1. PICK j \in DownloadIds : j = run[r].job  BY <1>1
      <4> QED  BY <1>1, <3>1, <4>1, RowMoves DEF RunStart
    <3>2. CASE RunEvent(r)
      BY <2>1, <3>2, Alone DEF RunEvent
    <3> QED  BY <3>1, <3>2
  <2>4. OneJob(i)'  BY <1>5, <2>1, SameWork DEF OneHand
  <2>5. OneHand(i)'  BY <1>3, <1>4, <2>1, <2>3, <2>4, StillAlone
  <2> QED  BY <1>5, <2>1, <2>2, <2>5, ComingIsQuiet, QuietCycle, SameWork, SameHolding
<1>9. CASE ~Plain(i)  BY <1>5, <1>9 DEF Cycle
<1> QED  BY <1>7, <1>8, <1>9

\* The task hands its item over: a job, then the item; or fails it.
LEMMA HandOrderly ==
  ASSUME Base, NEW r \in Runs, RunInsertJob(r) \/ RunQueue(r) \/ RunFailItem(r), NEW i \in Items, Cycle(i),
         UNCHANGED <<worker, depositor, call>>
  PROVE  Cycle(i)'
<1>1. DownloadState /\ run[r].job \in DownloadIds /\ djob[run[r].job].item = run[r].item
      /\ run[r].pc \in {"insert", "queue", "fail_item"} /\ run[r].item \in Items /\ TablesTyped
  BY TypeParts DEF Base, CallState, DownloadState, DownloadsTyped, TypeInv, RunsOwn, RunOwns, RunInsertJob, RunQueue,
                   RunFailItem, RunAt
<1>2. PICK pc \in {"queue", "finish"} : RunGoto(r, pc)
  BY DEF RunInsertJob, RunQueue, RunFailItem
<1>3. /\ run'[r].job = run[r].job /\ run'[r].item = run[r].item /\ run'[r].pc = pc
      /\ \A s \in Runs \ {r} : run'[s] = run[s]
  BY <1>1, <1>2, RunMoves DEF RunAt, RunPC
<1>4. UNCHANGED djob  BY DEF RunInsertJob, RunQueue, RunFailItem
<1>5. Plain(i)' => Plain(i)  BY DEF RunInsertJob, RunQueue, RunFailItem, Plain
<1>6. CASE run[r].item # i
  <2>1. item'[i] = item[i]
    BY <1>1, <1>6 DEF RunInsertJob, RunQueue, RunFailItem, Update, TablesTyped, RunItem
  <2>2. Running(i)' = Running(i)
    <3>1. CASE RunInsertJob(r)
      BY <1>1, <1>6, <3>1 DEF RunInsertJob, InsertJob, TablesTyped, RunItem, Running, JobsOf, Row
    <3>2. CASE UNCHANGED tjob  BY <3>2, SameWork
    <3> QED  BY <3>1, <3>2 DEF RunQueue, RunFailItem
  <2> QED  BY <1>3, <1>4, <1>5, <1>6, <2>1, <2>2, OtherCycle DEF OnRun
<1>7. CASE run[r].item = i /\ Plain(i)'
  <2>1. OneHand(i) /\ InOrder(i) /\ OnRun(r, i)  BY <1>1, <1>5, <1>7 DEF Cycle, OnRun
  <2>2. OneJob(i)' => OneHand(i)' /\ Active(i)' /\ ~RowComing(i)' /\ ~CallComing(i)' /\ \A s \in Runs \ {r} : ~OnRun(s, i)'
    BY <1>3, <1>4, <2>1, Alone, StillAlone
  <2>3. OneJob(i)' => ~Coming(i)'
    BY <1>3, <2>2 DEF Coming, RunComing, OnRun
  <2>4. Present(i)
    BY <1>1, <1>7, <2>1, Alone DEF Base, Known, NoneDeleted, DownloadsKnown, Listed, Present
  <2>5. CASE RunInsertJob(r)
    <3>1. item[i] = "pending_download" /\ ~AtWork(i) /\ ~Holding(i) /\ Running(i) = {} /\ pc = "queue"
      <4>1. Coming(i)  BY <1>7, <2>5 DEF Coming, RunComing, RunInsertJob, RunAt
      <4> QED  BY <1>1, <1>2, <1>3, <2>1, <2>5, <4>1, ComingIsQuiet DEF RunInsertJob, RunGoto, DownloadState, DownloadsTyped
    <3>2. PICK j \in JobIds : tjob' = [tjob EXCEPT ![j] = [status |-> "pending", item |-> i]]
      BY <1>7, <2>5 DEF RunInsertJob, InsertJob, RunItem
    <3>3. \A k \in Running(i)' : k = j
      BY <1>1, <3>1, <3>2 DEF Running, JobsOf, Row, TablesTyped
    <3>4. \A w \in Workers : ~Busy(w, i)'  BY <3>1 DEF AtWork, Busy, WorkerAt
    <3>5. OneJob(i)'  BY <3>3, <3>4 DEF OneJob
    <3>6. ~Over(i)'  BY <1>3, <2>2, <3>1, <3>5 DEF Over, OnRun
    <3>7. item'[i] = "pending_download" /\ ~Holding(i)'  BY <2>5, <3>1, SameHolding DEF RunInsertJob
    <3> QED  BY <2>2, <2>3, <3>5, <3>6, <3>7 DEF Cycle, InOrder
  <2>6. CASE RunQueue(r)
    <3>1. UNCHANGED tjob /\ item' = [item EXCEPT ![i] = "queued_transcription"]
      BY <1>7, <2>4, <2>6 DEF RunQueue, Update, RunItem
    <3>2. OneJob(i)'  BY <2>1, <3>1, SameWork DEF OneHand
    <3>3. JobsOf(i) # {}  BY <1>7, <2>6 DEF Base, Queued, RunQueues, RunQueue, RunAt, RunItem
    <3>4. Running(i) # {}  BY <1>7, <2>6, <3>3 DEF Plain, RunQueue, RunItem
    <3>5. ~Holding(i)'  BY <2>1, <3>4, NoneRunning, SameHolding DEF InOrder
    <3> QED  BY <1>1, <2>2, <2>3, <3>1, <3>2, <3>5 DEF Cycle, InOrder, TablesTyped
  <2>7. CASE RunFailItem(r)
    <3>1. UNCHANGED tjob /\ item' = [item EXCEPT ![i] = "failed"]
      BY <1>7, <2>4, <2>7 DEF RunFailItem, Update, RunItem
    <3>2. OneJob(i)'  BY <2>1, <3>1, SameWork DEF OneHand
    <3>3. Coming(i)  BY <1>7, <2>7 DEF Coming, RunComing, RunFailItem, RunAt
    <3>4. Running(i)' = {} /\ ~Holding(i)'  BY <2>1, <3>1, <3>3, ComingIsQuiet, SameWork, SameHolding
    <3> QED  BY <1>1, <2>2, <2>3, <3>1, <3>2, <3>4 DEF Cycle, InOrder, TablesTyped
  <2> QED  BY <2>5, <2>6, <2>7
<1>8. CASE ~Plain(i)'  BY <1>8 DEF Cycle
<1> QED  BY <1>6, <1>7, <1>8
\* A task that ends well leaves nothing behind but the job.
LEMMA FinishOrderly ==
  ASSUME Base, NEW r \in Runs, RunFinish(r), NEW i \in Items, Cycle(i), UNCHANGED <<worker, depositor, call>>
  PROVE  Cycle(i)'
<1>1. DownloadState /\ run[r].job \in DownloadIds /\ djob[run[r].job].item = run[r].item /\ run[r].pc = "finish"
  BY TypeParts DEF Base, CallState, TypeInv, RunsOwn, RunOwns, RunFinish, RunAt
<1>2. run'[r].pc = "idle" /\ \A s \in Runs \ {r} : run'[s] = run[s]
  BY <1>1, RunEnds DEF RunFinish
<1>3. PICK j \in DownloadIds : j = run[r].job  BY <1>1
<1>4. /\ \A k \in DownloadIds : djob'[k].item = djob[k].item
      /\ djob'[j].status = "over" /\ \A k \in DownloadIds \ {j} : djob'[k] = djob[k]
  BY <1>1, <1>3, RowMoves DEF RunFinish
<1>5. UNCHANGED <<item, tjob>> /\ (Plain(i)' <=> Plain(i))  BY DEF RunFinish, tables, Plain
<1>6. Running(i)' = Running(i) /\ (AtWork(i)' <=> AtWork(i)) /\ (OneJob(i)' <=> OneJob(i))  BY <1>5, SameWork
<1>7. CASE run[r].item # i
  BY <1>1, <1>2, <1>3, <1>4, <1>5, <1>6, <1>7, OtherCycle DEF OnRun
<1>8. CASE run[r].item = i /\ Plain(i)
  <2>1. OneHand(i) /\ InOrder(i) /\ OnRun(r, i)  BY <1>1, <1>8 DEF Cycle, OnRun
  <2>2. /\ \A k \in DownloadIds : djob[k].item = i /\ InFlight(k) => k = j
        /\ \A s \in Runs : OnRun(s, i) => s = r
        /\ ~Chosen(i) /\ ~CallComing(i)
    BY <1>3, <2>1, Alone
  <2>3. \A k \in DownloadIds : djob'[k].item = i => ~InFlight(k)'
    BY <1>4, <2>2 DEF InFlight
  <2>4. OneDownload(i)' /\ ~Active(i)' /\ ~RowComing(i)'
    BY <2>3 DEF OneDownload, Active, RowComing, InFlight
  <2>5. \A s \in Runs : ~OnRun(s, i)'  BY <1>2, <2>2 DEF OnRun
  <2>6. HeldRows(i)' /\ ~Coming(i)'  BY <2>2, <2>4, <2>5, SameCalls DEF HeldRows, Coming, RunComing, OnRun
  <2>7. Over(i)  BY <1>1, <1>8 DEF Over
  <2> QED  BY <1>5, <1>6, <1>8, <2>1, <2>4, <2>6, <2>7, CycleStays, SameHolding DEF OneHand
<1>9. CASE ~Plain(i)  BY <1>5, <1>9 DEF Cycle
<1> QED  BY <1>7, <1>8, <1>9

\* A task that an exception interrupts leaves its row as it is, or goes on to fail it.
LEMMA RaisesOrderly ==
  ASSUME Base, NEW r \in Runs, RunRaises(r), NEW i \in Items, Cycle(i), UNCHANGED <<worker, depositor, call>>
  PROVE  Cycle(i)'
<1>1. DownloadState /\ run[r].pc # "idle" /\ run[r].job \in DownloadIds /\ djob[run[r].job].item = run[r].item
  BY TypeParts DEF Base, CallState, TypeInv, RunsOwn, RunOwns, RunRaises, RunAt
<1>2. /\ \A s \in Runs \ {r} : run'[s] = run[s]
      /\ \/ run'[r].pc = "idle"
         \/ /\ run'[r].pc = "finish" /\ run'[r].job = run[r].job /\ run'[r].item = run[r].item
            /\ run[r].pc \in {"container", "insert", "queue", "fail_item"}
  <2>1. CASE RunRests(r)  BY <1>1, <2>1, RunEnds
  <2>2. CASE run[r].pc \in {"container", "insert", "queue", "fail_item"} /\ RunGoto(r, "finish")
    BY <1>1, <2>2, RunMoves DEF RunAt, RunPC
  <2> QED  BY <2>1, <2>2 DEF RunRaises
<1>3. UNCHANGED <<item, tjob, djob>> /\ (Plain(i)' => Plain(i))  BY DEF RunRaises, tables, Plain
<1>4. Running(i)' = Running(i) /\ (AtWork(i)' <=> AtWork(i)) /\ (OneJob(i)' <=> OneJob(i))  BY <1>3, SameWork
<1>5. CASE run[r].item # i
  BY <1>1, <1>2, <1>3, <1>4, <1>5, OtherCycle DEF OnRun
<1>6. CASE run[r].item = i /\ Plain(i)'
  <2>1. OneHand(i) /\ InOrder(i) /\ OnRun(r, i)  BY <1>1, <1>3, <1>6 DEF Cycle, OnRun
  <2>2. run[r].pc # "queue"  BY <1>6 DEF RunRaises, Plain, RunAt, RunItem
  <2>3. djob[run[r].job].status \in {"claimed", "processing"} /\ Active(i)
    BY <2>1, Alone
  <2>4. OneHand(i)' /\ ~RowComing(i)' /\ ~CallComing(i)' /\ \A s \in Runs \ {r} : ~OnRun(s, i)'
    BY <1>2, <1>3, <1>4, <2>1, <2>3, StillAlone DEF OneHand
  <2>5. ~Coming(i)'  BY <1>2, <2>4 DEF Coming, RunComing, OnRun
  <2>6. Active(i)' <=> Active(i)  BY <1>3 DEF Active
  <2>7. Over(i)' => Over(i) \/ ~AtWork(i)'
    <3>1. CASE run'[r].pc = "idle"
      <4>1. ~Over(i)'  BY <2>3, <2>4, <2>6, <3>1 DEF Over, OnRun
      <4> QED  BY <4>1
    <3>2. CASE run[r].pc \in {"container", "insert", "fail_item"}
      <4>1. Coming(i)  BY <1>6, <3>2 DEF Coming, RunComing
      <4> QED  BY <1>4, <2>1, <4>1 DEF InOrder
    <3> QED  BY <1>2, <2>2, <3>1, <3>2
  <2> QED  BY <1>3, <1>4, <1>6, <2>4, <2>5, <2>6, <2>7, CycleStays, SameHolding DEF OneHand
<1>7. CASE ~Plain(i)'  BY <1>7 DEF Cycle
<1> QED  BY <1>5, <1>6, <1>7

\* The recovery puts the rows that were claimed back, and these items are raced.
LEMMA RecoverOrderly ==
  ASSUME Base, RecoverDownloads \/ RecoverDownloadsRaises, NEW i \in Items, Cycle(i),
         UNCHANGED <<worker, depositor, call>>
  PROVE  Cycle(i)'
<1>1. DownloadState /\ djob \in [DownloadIds -> DownloadRow]
  BY TypeParts DEF Base, CallState, DownloadState, DownloadsTyped, DownloadRow
<1>2. UNCHANGED <<item, tjob, run>> /\ (Plain(i)' => Plain(i))
  BY DEF RecoverDownloads, RecoverDownloadsRaises, tables, Plain
<1>3. \A j \in DownloadIds : djob'[j].item = djob[j].item
  BY <1>1 DEF RecoverDownloads, RecoverDownloadsRaises, SetDownloads, RowsIn, DownloadRow
<1>4. ASSUME Plain(i)', NEW j \in DownloadIds, djob[j].item = i  PROVE djob'[j] = djob[j]
  BY <1>1, <1>4 DEF RecoverDownloads, RecoverDownloadsRaises, SetDownloads, RowsIn, ItemsIn, Plain
<1>5. CASE Plain(i)'  BY <1>2, <1>3, <1>4, <1>5, OtherCycle, SameWork
<1>6. CASE ~Plain(i)'  BY <1>6 DEF Cycle
<1> QED  BY <1>5, <1>6

\* The rows of the jobs only grow under the downloads.
LEMMA DownloadsKeep ==
  ASSUME Base, WorkersKeep, DownloadsNext, UNCHANGED worker
  PROVE  WorkersKeep'
<1>1. TablesTyped /\ \A w \in Workers : WorkerOwns(w)
  BY TypeParts DEF Base, CallState, DownloadState, Queued
<1>2. UNCHANGED tjob \/ \E i : InsertJob(i)
  BY DEF DownloadsNext, RecoverDownloads, RecoverDownloadsRaises, RunClaim, RunStart, RunEvent, RunInsertJob,
         RunQueue, RunFailItem, RunFinish, RunRaises, tables
<1>3. \A j \in JobIds : Row(j) => tjob'[j] = tjob[j]
  BY <1>1, <1>2 DEF InsertJob, Row, TablesTyped
<1> QED  BY <1>1, <1>3 DEF WorkersKeep, Distinct, WorkerKeeps, WorkerOwns

LEMMA DownloadsOrderly ==
  ASSUME Base, Orderly, DownloadsNext, UNCHANGED <<worker, depositor, call>>
  PROVE  Orderly'
<1>1. WorkersKeep'  BY DownloadsKeep DEF Orderly
<1>2. ASSUME NEW i \in Items  PROVE Cycle(i)'
  <2>1. Cycle(i)  BY DEF Orderly
  <2> QED  BY <2>1, ClaimOrderly, EarlyOrderly, HandOrderly, FinishOrderly, RaisesOrderly, RecoverOrderly
           DEF DownloadsNext
<1> QED  BY <1>1, <1>2 DEF Orderly
-----------------------------------------------------------------------------
(* The calls.                                                              *)

\* A call that ends up with no item in hand, the others being where they were.
LEMMA LetsGo ==
  ASSUME NEW i, NEW c \in Callers, \A o \in Callers \ {c} : call'[o] = call[o], call'[c].pc \notin Choosing
  PROVE  (Chosen(i)' => Chosen(i)) /\ (CallComing(i)' => CallComing(i))
BY DEF Chosen, CallComing, Choosing

\* Only the calls move, and a download that comes finds the item waiting.
LEMMA CallCycle ==
  ASSUME NEW i \in Items, Cycle(i), UNCHANGED <<djob, run, tjob, worker, depositor>>, Plain(i)' => Plain(i),
         Plain(i)' =>
           /\ item'[i] = item[i]
           /\ Chosen(i)' => Chosen(i) \/ ~Active(i)
           /\ CallComing(i)' => CallComing(i) \/ (item[i] = "pending_download" /\ ~AtWork(i))
  PROVE  Cycle(i)'
<1>1. /\ (OneDownload(i)' <=> OneDownload(i)) /\ (HeldRows(i)' <=> HeldRows(i)) /\ (Over(i)' <=> Over(i))
      /\ (RowComing(i)' <=> RowComing(i)) /\ (RunComing(i)' <=> RunComing(i)) /\ (Active(i)' <=> Active(i))
      /\ Running(i)' = Running(i) /\ (AtWork(i)' <=> AtWork(i)) /\ (OneJob(i)' <=> OneJob(i))
      /\ (Holding(i)' <=> Holding(i))
  BY SameDownload, SameWork, SameHolding
<1> QED  BY <1>1 DEF Cycle, OneHand, InOrder, Coming

\* The item is given back to the selection: it waits, and nobody works on it.
LEMMA BackCycle ==
  ASSUME NEW i \in Items, Cycle(i), UNCHANGED <<djob, run, tjob, worker, depositor>>, Plain(i)' => Plain(i),
         Chosen(i)' => Chosen(i),
         Plain(i)' => item[i] \in {"none", "failed"} /\ item'[i] = "pending_download" /\ ~AtWork(i)
  PROVE  Cycle(i)'
<1>1. /\ (OneDownload(i)' <=> OneDownload(i)) /\ (HeldRows(i)' <=> HeldRows(i)) /\ (Active(i)' <=> Active(i))
      /\ (AtWork(i)' <=> AtWork(i)) /\ (OneJob(i)' <=> OneJob(i)) /\ (Holding(i)' <=> Holding(i))
  BY SameDownload, SameWork, SameHolding
<1>2. Plain(i)' => OneHand(i)' /\ ~Holding(i)'  BY <1>1 DEF Cycle, OneHand, InOrder
<1> QED  BY <1>1, <1>2, QuietCycle

\* A failed item that no worker has in hand.
LEMMA FreshIsIdle ==
  ASSUME NEW i, InOrder(i), Stale(i), Plain(i)'
  PROVE  item[i] = "failed" /\ ~AtWork(i) /\ ~Coming(i) /\ ~Holding(i)
<1>1. item[i] = "failed" /\ \A w \in Workers : ~Busy(w, i)  BY DEF Stale, Plain, Busy
<1> QED  BY <1>1 DEF InOrder, AtWork

\* The calls that look for no download.
LEMMA PlainCalls ==
  ASSUME Base, NEW i \in Items, Cycle(i), UNCHANGED <<worker, depositor>>,
         \/ DiscoveryRead \/ DiscoveryManual \/ DiscoveryList \/ DiscoveryAcquires
         \/ \E c \in Clients : SelectRead(c) \/ RetryRead(c) \/ CancelRead(c)
         \/ \E c \in Callers : SelectMark(c) \/ SelectDone(c) \/ SelectStatus(c) \/ RetryEnds(c)
                               \/ CancelStatus(c) \/ CallRaises(c)
  PROVE  Cycle(i)'
<1>1. call \in [Callers -> CallRecord] /\ Discoverer \in Callers /\ Clients \subseteq Callers
  BY TypeParts DEF Base, CallState, CallsTyped, Callers
<1>2. ASSUME NEW c \in Callers, CallEnds(c)  PROVE (Chosen(i)' => Chosen(i)) /\ (CallComing(i)' => CallComing(i))
  BY <1>1, <1>2, LetsGo DEF CallEnds, NoCall, Choosing
<1>3. ASSUME NEW c \in Callers, NEW pc \in CallPC \ Choosing, CallGoto(c, pc)
      PROVE  (Chosen(i)' => Chosen(i)) /\ (CallComing(i)' => CallComing(i))
  BY <1>1, <1>3, LetsGo DEF CallGoto, CallRecord
<1>4. CASE DiscoveryRead \/ DiscoveryManual \/ DiscoveryAcquires
  <2>1. UNCHANGED <<item, tjob, downloads>>  BY <1>4 DEF DiscoveryRead, DiscoveryManual, DiscoveryAcquires, tables
  <2>2. (Chosen(i)' => Chosen(i)) /\ (CallComing(i)' => CallComing(i))
    BY <1>1, <1>2, <1>3, <1>4 DEF DiscoveryRead, DiscoveryManual, DiscoveryAcquires, CallPC, Choosing
  <2> QED  BY <2>1, <2>2, CallCycle DEF downloads, Plain
<1>5. CASE DiscoveryList \/ \E c \in Clients : SelectRead(c) \/ RetryRead(c) \/ CancelRead(c)
  <2>1. UNCHANGED <<item, tjob, downloads>>
    BY <1>5 DEF DiscoveryList, SelectRead, RetryRead, CancelRead, OnlyCalls, tables
  <2>2. PICK c \in Callers : call'[c].pc \notin Choosing /\ \A o \in Callers \ {c} : call'[o] = call[o]
    <3>1. ASSUME DiscoveryList
          PROVE  call'[Discoverer].pc \notin Choosing /\ \A o \in Callers \ {Discoverer} : call'[o] = call[o]
      BY <1>1, <3>1 DEF DiscoveryList, Choosing, CallRecord
    <3>2. ASSUME NEW c \in Clients, SelectRead(c)
          PROVE  call'[c].pc \notin Choosing /\ \A o \in Callers \ {c} : call'[o] = call[o]
      BY <1>1, <3>2 DEF SelectRead, NoCall, Choosing
    <3>3. ASSUME NEW c \in Clients, RetryRead(c)
          PROVE  call'[c].pc \notin Choosing /\ \A o \in Callers \ {c} : call'[o] = call[o]
      BY <1>1, <3>3 DEF RetryRead, NoCall, Choosing
    <3>4. ASSUME NEW c \in Clients, CancelRead(c)
          PROVE  call'[c].pc \notin Choosing /\ \A o \in Callers \ {c} : call'[o] = call[o]
      BY <1>1, <3>4 DEF CancelRead, CallGoto, CallRecord, Choosing
    <3> QED  BY <1>1, <1>5, <3>1, <3>2, <3>3, <3>4
  <2>3. (Chosen(i)' => Chosen(i)) /\ (CallComing(i)' => CallComing(i))  BY <2>2, LetsGo
  <2> QED  BY <2>1, <2>3, CallCycle DEF downloads, Plain
<1>6. ASSUME NEW c \in Callers,
             SelectMark(c) \/ SelectDone(c) \/ SelectStatus(c) \/ RetryEnds(c) \/ CancelStatus(c) \/ CallRaises(c)
      PROVE  Cycle(i)'
  <2>1. UNCHANGED <<item, tjob, djob, run, raced, overtaken>>
    BY <1>6 DEF SelectMark, SelectDone, SelectStatus, RetryEnds, CancelStatus, CallRaises, OnlyCalls, tables, downloads
  <2>2. (Chosen(i)' => Chosen(i)) /\ (CallComing(i)' => CallComing(i))
    BY <1>2, <1>3, <1>6 DEF SelectMark, SelectDone, SelectStatus, RetryEnds, CancelStatus, CallRaises, CallPC, Choosing
  <2> QED  BY <2>1, <2>2, CallCycle DEF Plain
<1> QED  BY <1>4, <1>5, <1>6
\* The call takes the next item, and looks no further when it has a download.
LEMMA LookingOrderly ==
  ASSUME Base, NEW i \in Items, Cycle(i), UNCHANGED <<worker, depositor>>, NEW c \in Callers, NEW k \in Items,
         SelectActive(c, k) \/ RetryActive(c, k)
  PROVE  Cycle(i)'
<1>1. call \in [Callers -> CallRecord]  BY TypeParts DEF Base, CallState, CallsTyped
<1>2. UNCHANGED <<item, tjob, downloads>>  BY DEF SelectActive, RetryActive, OnlyCalls, tables
<1>3. /\ call'[c].pc \notin {"enqueue", "requeue"} /\ call'[c].item = k
      /\ call'[c].pc \in Choosing => ~Active(k)
      /\ \A o \in Callers \ {c} : call'[o] = call[o]
  BY <1>1 DEF SelectActive, RetryActive, CallRecord, Choosing
<1>4. (Chosen(i)' => Chosen(i) \/ ~Active(i)) /\ (CallComing(i)' => CallComing(i))
  BY <1>3 DEF Chosen, CallComing
<1> QED  BY <1>2, <1>4, CallCycle DEF downloads, Plain

\* get_by_id finds the item waiting: nothing is done for it any more.
LEMMA CheckOrderly ==
  ASSUME Base, NEW i \in Items, Cycle(i), UNCHANGED <<worker, depositor>>, NEW c \in Callers, SelectCheck(c)
  PROVE  Cycle(i)'
<1>1. call \in [Callers -> CallRecord]  BY TypeParts DEF Base, CallState, CallsTyped
<1>2. UNCHANGED <<item, tjob, downloads>> /\ call[c].pc = "check"
  BY DEF SelectCheck, OnlyCalls, tables, CallAt
<1>3. /\ call'[c].item = call[c].item /\ call'[c].pc = (IF item[call[c].item] = "pending_download" THEN "enqueue" ELSE "next")
      /\ \A o \in Callers \ {c} : call'[o] = call[o]
  BY <1>1 DEF SelectCheck, CallGoto, CallRecord
<1>4. Chosen(i)' => Chosen(i)  BY <1>2, <1>3 DEF Chosen, Choosing
<1>5. ASSUME Plain(i), CallComing(i)', ~CallComing(i)  PROVE item[i] = "pending_download" /\ ~AtWork(i)
  <2>1. call[c].item = i /\ item[i] = "pending_download"  BY <1>2, <1>3, <1>5 DEF CallComing
  <2>2. Over(i)  BY <1>2, <1>5, <2>1 DEF Cycle, OneHand, Chosen, Choosing, Over
  <2> QED  BY <1>5, <2>1, <2>2 DEF Cycle, InOrder
<1> QED  BY <1>2, <1>4, <1>5, CallCycle DEF downloads, Plain

\* A download is inserted for an item that has none.
LEMMA EnqueueOrderly ==
  ASSUME Base, NEW i \in Items, Cycle(i), UNCHANGED <<worker, depositor>>, NEW c \in Callers,
         SelectEnqueue(c) \/ RetryInsert(c)
  PROVE  Cycle(i)'
<1>1. call \in [Callers -> CallRecord] /\ DownloadState /\ call[c].item \in Items
  BY TypeParts DEF Base, CallState, CallsTyped, CallRecord
<1>2. PICK k \in Items : k = call[c].item  BY <1>1
<1>3. UNCHANGED <<item, tjob, run, recovered, overtaken>> /\ Enqueue(c, k) /\ call[c].pc \in {"enqueue", "requeue"}
  BY <1>2 DEF SelectEnqueue, RetryInsert, tables, CallAt
<1>4. GhostsTyped'
  BY <1>1, <1>3 DEF Enqueue, GhostsTyped, DownloadState, DownloadsTyped
<1>5. PICK j \in DownloadIds :
        /\ djob[j].status = "absent"
        /\ djob'[j].status = "pending" /\ djob'[j].item = k
        /\ \A n \in DownloadIds \ {j} : djob'[n] = djob[n]
        /\ \A r \in Runs : run[r].job # j
  BY <1>1, <1>3, <1>4, InsertState DEF Enqueue
<1>6. call'[c].pc \notin Choosing /\ \A o \in Callers \ {c} : call'[o] = call[o]
  BY <1>1 DEF SelectEnqueue, RetryInsert, CallGoto, CallRecord, Choosing
<1>7. (Chosen(i)' => Chosen(i)) /\ (CallComing(i)' => CallComing(i))  BY <1>6, LetsGo
<1>8. Plain(i)' => Plain(i)  BY <1>3 DEF Enqueue, Plain
<1>9. (Holding(i)' <=> Holding(i)) /\ (AtWork(i)' <=> AtWork(i)) /\ (OneJob(i)' <=> OneJob(i)) /\ Running(i)' = Running(i)
  BY <1>3, SameHolding, SameWork
<1>10. ASSUME HeldRows(i)  PROVE HeldRows(i)'
  BY <1>3, <1>5, <1>10 DEF HeldRows, OnRun, Base, TypeInv, RunsOwn, RunOwns
<1>11. CASE k # i
  <2>1. \A n \in DownloadIds : djob'[n].item = i /\ InFlight(n)' <=> djob[n].item = i /\ InFlight(n)
    BY <1>5, <1>11 DEF InFlight
  <2>2. \A n \in DownloadIds : djob'[n].item = i /\ djob'[n].status = "pending" <=> djob[n].item = i /\ djob[n].status = "pending"
    BY <1>5, <1>11
  <2>3. (OneDownload(i)' <=> OneDownload(i)) /\ (Active(i)' <=> Active(i))
    BY <2>1 DEF OneDownload, Active, InFlight
  <2>4. (RowComing(i)' <=> RowComing(i)) /\ (RunComing(i)' <=> RunComing(i)) /\ (Over(i)' <=> Over(i))
    BY <1>3, <2>2, <2>3 DEF RowComing, RunComing, Over
  <2> QED  BY <1>3, <1>7, <1>8, <1>9, <1>10, <2>3, <2>4, CycleStays DEF Cycle, OneHand, Coming
<1>12. CASE k = i /\ Plain(i)'
  <2>1. OneHand(i) /\ InOrder(i) /\ Coming(i)  BY <1>2, <1>3, <1>8, <1>12 DEF Cycle, Coming, CallComing
  <2>2. ~Active(i) /\ ~Considered(c, i)  BY <1>3, <1>12 DEF Enqueue, Plain
  <2>3. OneDownload(i)'  BY <1>5, <2>2 DEF OneDownload, InFlight, Active
  <2>4. ~Chosen(i)'  BY <1>6, <2>2 DEF Chosen, Considered, Choosing
  <2>5. OneHand(i)'  BY <1>9, <1>10, <2>1, <2>3, <2>4 DEF OneHand
  <2> QED  BY <1>3, <1>9, <2>1, <2>5, ComingIsQuiet, QuietCycle
<1>13. CASE ~Plain(i)'  BY <1>13 DEF Cycle
<1> QED  BY <1>11, <1>12, <1>13
\* Nothing was done for an item that was not known.
LEMMA DiscoveredOrderly ==
  ASSUME Base, NEW i \in Items, Cycle(i), UNCHANGED <<worker, depositor>>, Discovered
  PROVE  Cycle(i)'
<1>1. call \in [Callers -> CallRecord] /\ Discoverer \in Callers
  BY TypeParts DEF Base, CallState, CallsTyped, Callers
<1>2. UNCHANGED <<tjob, djob, run>> /\ (Plain(i)' => Plain(i))  BY DEF Discovered, downloads, Plain
<1>3. call'[Discoverer].pc = "read" /\ \A o \in Callers \ {Discoverer} : call'[o] = call[o]
  BY <1>1 DEF Discovered, CallGoto, CallRecord
<1>4. (Chosen(i)' => Chosen(i)) /\ (CallComing(i)' => CallComing(i))  BY <1>1, <1>3, LetsGo DEF Choosing
<1>5. CASE item[i] # "none"
  <2>1. item'[i] = item[i]  BY <1>5 DEF Discovered
  <2> QED  BY <1>2, <1>4, <2>1, CallCycle
<1>6. CASE item[i] = "none"
  <2>1. item'[i] = "pending_download"  BY <1>6 DEF Discovered
  <2>2. \A j \in JobIds : ~(Row(j) /\ tjob[j].item = i)
    BY <1>6 DEF Base, Known, RowsKnown, Listed, Row
  <2>3. Running(i) = {}  BY <2>2 DEF Running, JobsOf
  <2>4. \A w \in Workers : ~Busy(w, i)  BY <2>2 DEF Base, Queued, WorkerOwns, Busy, WorkerAt
  <2> QED  BY <1>2, <1>4, <1>6, <2>1, <2>3, <2>4, BackCycle DEF AtWork
<1> QED  BY <1>5, <1>6

\* reset_for_retry, for an item that has failed and that no worker has in hand.
LEMMA ResetOrderly ==
  ASSUME Base, NEW i \in Items, Cycle(i), UNCHANGED <<worker, depositor>>, NEW c \in Callers, RetryReset(c)
  PROVE  Cycle(i)'
<1>1. call \in [Callers -> CallRecord] /\ TablesTyped /\ call[c].item \in Items
  BY TypeParts DEF Base, CallState, DownloadState, CallsTyped, CallRecord
<1>2. UNCHANGED <<tjob, djob, run, overtaken>> /\ call[c].pc = "reset" /\ Update(call[c].item, "pending_download")
      /\ Stale(call[c].item)
  BY DEF RetryReset, CallAt
<1>3. call'[c].pc = "requeue" /\ call'[c].item = call[c].item /\ \A o \in Callers \ {c} : call'[o] = call[o]
  BY <1>1 DEF RetryReset, CallGoto, CallRecord
<1>4. Plain(i)' => Plain(i)  BY <1>2 DEF Stale, Plain
<1>5. Chosen(i)' => Chosen(i)  BY <1>2, <1>3 DEF Chosen, Choosing
<1>6. CASE call[c].item # i
  <2>1. item'[i] = item[i]  BY <1>1, <1>2, <1>6 DEF Update, TablesTyped
  <2>2. CallComing(i)' => CallComing(i)  BY <1>3, <1>6 DEF CallComing
  <2> QED  BY <1>2, <1>4, <1>5, <2>1, <2>2, CallCycle
<1>7. CASE call[c].item = i /\ Plain(i)'
  <2>1. item[i] = "failed" /\ ~AtWork(i)  BY <1>2, <1>4, <1>7, FreshIsIdle DEF Cycle
  <2>2. item'[i] = "pending_download"  BY <1>1, <1>2, <1>7, <2>1 DEF Update, Present, TablesTyped
  <2> QED  BY <1>2, <1>4, <1>5, <2>1, <2>2, BackCycle
<1>8. CASE ~Plain(i)'  BY <1>8 DEF Cycle
<1> QED  BY <1>6, <1>7, <1>8

\* reset_failed_deposit.
LEMMA RedepositOrderly ==
  ASSUME Base, NEW i \in Items, Cycle(i), UNCHANGED <<worker, depositor>>, NEW c \in Callers, NEW k \in Items,
         RetryDeposit(c, k)
  PROVE  Cycle(i)'
<1>1. call \in [Callers -> CallRecord] /\ TablesTyped
  BY TypeParts DEF Base, CallState, DownloadState, CallsTyped
<1>2. UNCHANGED <<tjob, djob, run, overtaken>> /\ Update(k, "transcribed") /\ Stale(k)
  BY DEF RetryDeposit, Ready
<1>3. call'[c].pc \notin Choosing /\ \A o \in Callers \ {c} : call'[o] = call[o]
  BY <1>1 DEF RetryDeposit, CallAt, CallRecord, Choosing
<1>4. Plain(i)' => Plain(i)  BY <1>2 DEF Stale, Plain
<1>5. (Chosen(i)' => Chosen(i)) /\ (CallComing(i)' => CallComing(i))  BY <1>3, LetsGo
<1>6. CASE k # i
  <2>1. item'[i] = item[i]  BY <1>1, <1>2, <1>6 DEF Update, TablesTyped
  <2> QED  BY <1>2, <1>4, <1>5, <2>1, CallCycle
<1>7. CASE k = i /\ Plain(i)'
  <2>1. item[i] = "failed" /\ ~AtWork(i) /\ ~Coming(i) /\ ~Holding(i)
    BY <1>2, <1>4, <1>7, FreshIsIdle DEF Cycle
  <2>2. item'[i] = "transcribed"  BY <1>1, <1>2, <1>7, <2>1 DEF Update, Present, TablesTyped
  <2>3. ~AtWork(i)' /\ ~Coming(i)' /\ ~Holding(i)' /\ OneJob(i)' /\ OneDownload(i)' /\ HeldRows(i)'
        /\ (Active(i)' <=> Active(i))
    BY <1>2, <1>4, <1>5, <1>7, <2>1, SameWork, SameDownload, SameHolding DEF Coming, Cycle, OneHand
  <2> QED  BY <1>4, <1>5, <1>7, <2>2, <2>3 DEF Cycle, OneHand, InOrder
<1>8. CASE ~Plain(i)'  BY <1>8 DEF Cycle
<1> QED  BY <1>6, <1>7, <1>8

\* The cancelled downloads: the pending ones had nobody at work on their item.
LEMMA CancelOrderly ==
  ASSUME Base, NEW i \in Items, Cycle(i), UNCHANGED <<worker, depositor>>, NEW c \in Callers, CancelDownloads(c)
  PROVE  Cycle(i)'
<1>1. call \in [Callers -> CallRecord] /\ DownloadState
  BY TypeParts DEF Base, CallState, CallsTyped
<1>2. UNCHANGED <<item, tjob, run, recovered, overtaken>> /\ raced' = raced \cup ItemsIn({"claimed"})
  BY DEF CancelDownloads, tables
<1>3. GhostsTyped'
  BY <1>1 DEF CancelDownloads, GhostsTyped, DownloadState, DownloadsTyped, ItemsIn, RowsIn
<1>4. \A j \in DownloadIds :
        /\ djob'[j].item = djob[j].item
        /\ djob'[j].status = IF djob[j].status \in {"pending", "claimed"} THEN "over" ELSE djob[j].status
  BY <1>1, <1>2, <1>3, CancelState DEF CancelDownloads
<1>5. call'[c].pc \notin Choosing /\ \A o \in Callers \ {c} : call'[o] = call[o]
  BY <1>1 DEF CancelDownloads, CallGoto, CallRecord, Choosing
<1>6. (Chosen(i)' => Chosen(i)) /\ (CallComing(i)' => CallComing(i))  BY <1>5, LetsGo
<1>7. (AtWork(i)' <=> AtWork(i)) /\ (OneJob(i)' <=> OneJob(i)) /\ Running(i)' = Running(i) /\ (Holding(i)' <=> Holding(i))
  BY <1>2, SameWork, SameHolding
<1>8. CASE Plain(i)'
  <2>1. Plain(i) /\ OneHand(i) /\ InOrder(i)  BY <1>2, <1>8 DEF Plain, Cycle
  <2>2. \A j \in DownloadIds : djob[j].item = i => djob[j].status # "claimed"
    BY <1>2, <1>8 DEF Plain, ItemsIn, RowsIn
  <2>3. \A j \in DownloadIds : djob'[j].item = i /\ InFlight(j)' => djob[j].item = i /\ djob[j].status = "processing" /\ djob'[j].status = "processing"
    BY <1>4 DEF InFlight
  <2>4. OneDownload(i)' /\ (Active(i)' => Active(i)) /\ ~RowComing(i)'
    BY <1>4, <2>1, <2>3 DEF OneHand, OneDownload, Active, InFlight, RowComing
  <2>5. HeldRows(i)'
    BY <1>2, <1>4, <2>1, <2>2 DEF OneHand, HeldRows, OnRun, Base, TypeInv, RunsOwn, RunOwns
  <2>6. (RunComing(i)' <=> RunComing(i)) /\ (Coming(i)' => Coming(i))
    BY <1>2, <1>6, <2>4 DEF RunComing, Coming
  <2>7. ASSUME Over(i)', ~Over(i)  PROVE ~AtWork(i)'
    <3>1. Active(i) /\ ~Active(i)'  BY <1>2, <2>7 DEF Over
    <3>2. RowComing(i)  BY <1>4, <2>2, <3>1 DEF Active, RowComing
    <3> QED  BY <1>7, <2>1, <3>2 DEF Coming, InOrder
  <2> QED  BY <1>2, <1>6, <1>7, <2>1, <2>4, <2>5, <2>6, <2>7, CycleStays DEF OneHand
<1>9. CASE ~Plain(i)'  BY <1>9 DEF Cycle
<1> QED  BY <1>8, <1>9
\* The cancelled jobs; the worker that has one goes on.
LEMMA CancelJobsOrderly ==
  ASSUME Base, Orderly, UNCHANGED <<worker, depositor>>, NEW c \in Callers, CancelJobs(c)
  PROVE  Orderly'
<1>1. call \in [Callers -> CallRecord] /\ TablesTyped /\ \A w \in Workers : WorkerOwns(w)
  BY TypeParts DEF Base, CallState, DownloadState, CallsTyped, Queued
<1>2. UNCHANGED <<item, downloads>> /\ CancelRows  BY DEF CancelJobs
<1>3. \A j \in JobIds : /\ tjob'[j].status # "pending"
                        /\ tjob[j].status = "done" => tjob'[j].status = "done"
  BY <1>1, <1>2 DEF CancelRows, TablesTyped
<1>4. WorkersKeep'  BY <1>1, <1>3 DEF Orderly, WorkersKeep, Distinct, WorkerKeeps, WorkerOwns
<1>5. call'[c].pc \notin Choosing /\ \A o \in Callers \ {c} : call'[o] = call[o]
  BY <1>1 DEF CancelJobs, CallGoto, CallRecord, Choosing
<1>6. ASSUME NEW i \in Items  PROVE Cycle(i)'
  <2>1. Cycle(i) /\ UNCHANGED <<djob, run>> /\ (Plain(i)' <=> Plain(i))  BY <1>2 DEF Orderly, downloads, Plain
  <2>2. (Chosen(i)' => Chosen(i)) /\ (CallComing(i)' => CallComing(i))  BY <1>5, LetsGo
  <2>3. \A j \in JobIds : j \in Running(i)' => j \in Running(i)
    BY <1>1, <1>2 DEF CancelRows, TablesTyped, Running, JobsOf, Row
  <2>4. \A w \in Workers : Busy(w, i)' => Busy(w, i) /\ worker'[w].job = worker[w].job  BY DEF Busy, WorkerAt
  <2>5. Eases(i)  BY <2>3, <2>4, WorkEases
  <2>6. /\ (OneDownload(i)' <=> OneDownload(i)) /\ (HeldRows(i)' <=> HeldRows(i)) /\ (Over(i)' <=> Over(i))
        /\ (RowComing(i)' <=> RowComing(i)) /\ (RunComing(i)' <=> RunComing(i)) /\ (Active(i)' <=> Active(i))
        /\ (Holding(i)' <=> Holding(i))
    BY <2>1, SameDownload, SameHolding
  <2> QED  BY <1>2, <2>1, <2>2, <2>5, <2>6, CycleStays DEF Eases, Cycle, OneHand, Coming
<1> QED  BY <1>4, <1>6 DEF Orderly

LEMMA CallsOrderly ==
  ASSUME Base, Orderly, CallNext
  PROVE  Orderly'
<1>1. UNCHANGED <<worker, depositor>>  BY CallTypes, TypeParts DEF Base
<1>2. ASSUME NEW c \in Callers, CancelJobs(c)  PROVE Orderly'  BY <1>1, <1>2, CancelJobsOrderly
<1>3. ASSUME UNCHANGED tjob, \A i \in Items : Cycle(i)'  PROVE Orderly'
  BY <1>1, <1>3 DEF Orderly, WorkersKeep, Distinct, WorkerKeeps
<1>4. \A i \in Items : Cycle(i)  BY DEF Orderly
<1>5. CASE \/ DiscoveryRead \/ DiscoveryManual \/ DiscoveryList \/ DiscoveryAcquires
           \/ \E c \in Clients : SelectRead(c) \/ RetryRead(c) \/ CancelRead(c)
           \/ \E c \in Callers : SelectMark(c) \/ SelectDone(c) \/ SelectStatus(c) \/ RetryEnds(c)
                                 \/ CancelStatus(c) \/ CallRaises(c)
  <2>1. UNCHANGED tjob
    BY <1>5 DEF DiscoveryRead, DiscoveryManual, DiscoveryList, DiscoveryAcquires, SelectRead, RetryRead, CancelRead,
                SelectMark, SelectDone, SelectStatus, RetryEnds, CancelStatus, CallRaises, OnlyCalls, tables
  <2> QED  BY <1>1, <1>3, <1>4, <1>5, <2>1, PlainCalls
<1>6. CASE Discovered  BY <1>1, <1>3, <1>4, <1>6, DiscoveredOrderly DEF Discovered
<1>7. ASSUME NEW c \in Callers, SelectCheck(c) \/ SelectEnqueue(c) \/ RetryInsert(c) \/ RetryReset(c) \/ CancelDownloads(c)
      PROVE  Orderly'
  <2>1. UNCHANGED tjob
    BY <1>7 DEF SelectCheck, SelectEnqueue, RetryInsert, RetryReset, CancelDownloads, OnlyCalls, tables
  <2> QED  BY <1>1, <1>3, <1>4, <1>7, <2>1, CheckOrderly, EnqueueOrderly, ResetOrderly, CancelOrderly
<1>8. ASSUME NEW c \in Callers, NEW k \in Items, SelectActive(c, k) \/ RetryActive(c, k) \/ RetryDeposit(c, k)
      PROVE  Orderly'
  <2>1. UNCHANGED tjob
    BY <1>8 DEF SelectActive, RetryActive, RetryDeposit, OnlyCalls, tables
  <2> QED  BY <1>1, <1>3, <1>4, <1>8, <2>1, LookingOrderly, RedepositOrderly
<1> QED  BY <1>2, <1>5, <1>6, <1>7, <1>8 DEF CallNext

-----------------------------------------------------------------------------
(* The composition.                                                        *)

LEMMA RestartOrderly ==
  ASSUME Orderly, Restart
  PROVE  Orderly'
<1>1. UNCHANGED <<item, djob, tjob, worker, raced, overtaken>>  BY DEF Restart, tables
<1>2. WorkersKeep'  BY <1>1 DEF Orderly, WorkersKeep, Distinct, WorkerKeeps
<1>3. /\ \A r \in Runs : run'[r].pc = "idle"
      /\ \A c \in Callers : call'[c].pc = "idle"
      /\ depositor'.pc = "recover"
  BY DEF Restart, Resting, NoCall, FreshDepositor
<1>4. ASSUME NEW i \in Items  PROVE Cycle(i)'
  <2>1. Cycle(i) /\ (Plain(i)' <=> Plain(i))  BY <1>1 DEF Orderly, Plain
  <2>2. HeldRows(i)' /\ ~RunComing(i)' /\ (Over(i)' => ~Active(i)')  BY <1>3 DEF HeldRows, OnRun, RunComing, Over
  <2>3. ~Chosen(i)' /\ ~CallComing(i)' /\ ~Holding(i)'  BY <1>3 DEF Chosen, CallComing, Holding, Choosing
  <2>4. (OneDownload(i)' <=> OneDownload(i)) /\ (Active(i)' <=> Active(i)) /\ (RowComing(i)' <=> RowComing(i))
    BY <1>1 DEF OneDownload, Active, RowComing, InFlight
  <2> QED  BY <1>1, <2>1, <2>2, <2>3, <2>4, SameWork, CycleStays DEF Cycle, OneHand, Coming, Over
<1> QED  BY <1>2, <1>4 DEF Orderly

LEMMA OrderlyNext == Base /\ Orderly /\ [Next]_vars => Orderly'
<1> SUFFICES ASSUME Base, Orderly, [Next]_vars PROVE Orderly'  OBVIOUS
<1>1. CASE DownloadsNext /\ UNCHANGED <<worker, depositor, docs, Others>>
  BY <1>1, DownloadsOrderly DEF Others
<1>2. CASE TranscriptionNext /\ UNCHANGED <<downloads, depositor, docs, Others>>
  BY <1>2, TranscriptionOrderly DEF Others
<1>3. CASE DepositNext /\ UNCHANGED <<downloads, worker, Others>>
  BY <1>3, DepositOrderly DEF Others
<1>4. CASE CallNext  BY <1>4, CallsOrderly
<1>5. CASE Restart  BY <1>5, RestartOrderly
<1>6. CASE UNCHANGED vars
  <2>1. UNCHANGED <<item, djob, run, tjob, worker, depositor, call, raced, overtaken>>
    BY <1>6 DEF vars, tables, downloads
  <2>2. WorkersKeep'  BY <2>1 DEF Orderly, WorkersKeep, Distinct, WorkerKeeps
  <2>3. \A i \in Items : Cycle(i)'  BY <2>1, SameCalls, CallCycle DEF Orderly, Plain
  <2> QED  BY <2>2, <2>3 DEF Orderly
<1> QED  BY <1>1, <1>2, <1>3, <1>4, <1>5, <1>6 DEF Next

LEMMA InitOrderly == Init => Orderly
<1> SUFFICES ASSUME Init PROVE Orderly  OBVIOUS
<1>1. /\ \A r \in Runs : run[r].pc = "idle"
      /\ \A c \in Callers : call[c].pc = "idle"
      /\ \A w \in Workers : worker[w].pc = "idle"
      /\ \A j \in DownloadIds : djob[j].status = "absent"
      /\ \A j \in JobIds : tjob[j].status = "absent"
      /\ depositor.pc = "recover"
      /\ \A i \in Items : item[i] = "none"
  BY DEF Init, DownloadsInit, WorkersInit, DepositInit, Resting, NoCall, NoWork, FreshDepositor
<1>2. WorkersKeep  BY <1>1 DEF WorkersKeep, Distinct, WorkerKeeps
<1>3. ASSUME NEW i \in Items  PROVE Cycle(i)
  <2>1. ~AtWork(i) /\ OneJob(i)
    BY <1>1 DEF AtWork, OneJob, Busy, WorkerAt, Running, JobsOf, Row
  <2>2. OneDownload(i) /\ HeldRows(i) /\ ~Chosen(i) /\ ~Coming(i) /\ ~Holding(i)
    BY <1>1 DEF OneDownload, InFlight, HeldRows, OnRun, Chosen, Choosing, Coming, RowComing, RunComing, CallComing, Holding
  <2> QED  BY <1>1, <2>1, <2>2 DEF Cycle, OneHand, InOrder
<1> QED  BY <1>2, <1>3 DEF Orderly
-----------------------------------------------------------------------------
(* A deposited document is kept.                                           *)

\* A race is not forgotten.
LEMMA StaysPlain ==
  ASSUME [Next]_vars, NEW i, Plain(i)'
  PROVE  Plain(i)
<1>1. CASE DownloadsNext
  <2>1. CASE RecoverDownloads \/ RecoverDownloadsRaises
    BY <2>1 DEF RecoverDownloads, RecoverDownloadsRaises, Plain
  <2>2. ASSUME NEW r \in Runs, \/ RunClaim(r) \/ RunStart(r) \/ RunEvent(r) \/ RunInsertJob(r) \/ RunQueue(r)
                               \/ RunFailItem(r) \/ RunFinish(r) \/ RunRaises(r)
        PROVE  Plain(i)
    BY <2>2 DEF RunClaim, RunStart, RunEvent, RunInsertJob, RunQueue, RunFailItem, RunFinish, RunRaises, Plain
  <2> QED  BY <1>1, <2>1, <2>2 DEF DownloadsNext
<1>2. CASE CallNext
  <2>1. CASE \/ Discovered \/ DiscoveryRead \/ DiscoveryManual \/ DiscoveryList \/ DiscoveryAcquires
             \/ \E c \in Clients : SelectRead(c) \/ RetryRead(c) \/ CancelRead(c)
    BY <2>1 DEF Discovered, DiscoveryRead, DiscoveryManual, DiscoveryList, DiscoveryAcquires, SelectRead, RetryRead,
                CancelRead, OnlyCalls, downloads, Plain
  <2>2. ASSUME NEW c \in Callers,
               \/ SelectMark(c) \/ SelectCheck(c) \/ SelectDone(c) \/ SelectStatus(c) \/ RetryEnds(c)
               \/ CancelDownloads(c) \/ CancelJobs(c) \/ CancelStatus(c) \/ CallRaises(c)
               \/ \E k \in Items : SelectActive(c, k) \/ RetryActive(c, k)
        PROVE  Plain(i)
    BY <2>2 DEF SelectMark, SelectCheck, SelectDone, SelectStatus, RetryEnds, CancelDownloads, CancelJobs, CancelStatus,
                CallRaises, SelectActive, RetryActive, OnlyCalls, downloads, Plain
  <2>3. ASSUME NEW c \in Callers, \/ SelectEnqueue(c) \/ RetryInsert(c) \/ RetryReset(c)
                                  \/ \E k \in Items : RetryDeposit(c, k)
        PROVE  Plain(i)
    BY <2>3 DEF SelectEnqueue, RetryInsert, Enqueue, RetryReset, RetryDeposit, Stale, Plain
  <2> QED  BY <1>2, <2>1, <2>2, <2>3 DEF CallNext
<1>3. CASE UNCHANGED <<raced, overtaken>>  BY <1>3 DEF Plain
<1> QED  BY <1>1, <1>2, <1>3 DEF Next, Restart, vars, downloads

\* A deposited item is in nobody's hands.
LEMMA DepositedStays ==
  ASSUME Base, Orderly, [Next]_vars, NEW i \in Items, item[i] = "deposited", Plain(i)'
  PROVE  item'[i] = "deposited"
<1>1. InOrder(i)  BY StaysPlain DEF Orderly, Cycle
<1>2. ~AtWork(i) /\ ~Coming(i) /\ ~Holding(i) /\ Running(i) = {}  BY <1>1, NoneRunning DEF InOrder
<1>3. DownloadState /\ TablesTyped /\ WorkersTyped /\ DepositTyped
  BY TypeParts DEF Base, CallState, DownloadState
<1>4. CASE DownloadsNext
  <2>1. ASSUME NEW r \in Runs, RunQueue(r)  PROVE item'[i] = "deposited"
    <3>1. RunItem(r) # i
      BY <1>2, <2>1 DEF Base, Queued, RunQueues, RunQueue, RunAt, Plain
    <3> QED  BY <1>3, <2>1, <3>1 DEF RunQueue, Update, TablesTyped
  <2>2. ASSUME NEW r \in Runs, RunFailItem(r)  PROVE item'[i] = "deposited"
    <3>1. RunItem(r) # i  BY <1>2, <2>2 DEF Coming, RunComing, RunFailItem, RunAt, RunItem
    <3> QED  BY <1>3, <2>2, <3>1 DEF RunFailItem, Update, TablesTyped
  <2> QED
    BY <1>4, <2>1, <2>2 DEF DownloadsNext, RecoverDownloads, RecoverDownloadsRaises, RunClaim, RunStart, RunEvent,
                            RunInsertJob, RunFinish, RunRaises, tables
<1>5. CASE TranscriptionNext
  <2>1. ASSUME NEW w \in Workers, WorkerMarksItem(w)  PROVE item'[i] = "deposited"
    <3>1. worker[w].item # i  BY <1>2, <2>1 DEF AtWork, Busy, WorkerMarksItem, WorkerAt
    <3> QED  BY <1>3, <2>1, <3>1 DEF WorkerMarksItem, Ready, Update, TablesTyped
  <2>2. CASE Reconcile  BY <2>2 DEF Reconcile, FailDeadItems, Dead
  <2> QED
    BY <1>5, <2>1, <2>2 DEF TranscriptionNext, WorkerStep, WorkerClaim, WorkerTranscribes, WorkerMarksDone,
                            WorkerMarksFailed, WorkerRaises, WorkerDies, tables
<1>6. CASE DepositNext
  <2>1. CASE DepositMark \/ DepositMarkFailed
    <3>1. depositor.item # i  BY <1>2, <2>1 DEF Holding, DepositMark, DepositMarkFailed, DepositorAt
    <3> QED  BY <1>3, <2>1, <3>1 DEF DepositMark, DepositMarkFailed, Update, TablesTyped
  <2>2. CASE DepositRecover  BY <2>2 DEF DepositRecover, RequeueDepositing
  <2>3. CASE DepositClaim  BY <1>3, <2>3 DEF DepositClaim, Update, TablesTyped
  <2> QED
    BY <1>6, <2>1, <2>2, <2>3 DEF DepositNext, DepositStep, DepositSucceeds, DepositAttemptFails,
                                  DepositRecoverRaises, DepositRaises, tables
<1>7. CASE CallNext
  <2>1. CASE Discovered  BY <2>1 DEF Discovered
  <2>2. ASSUME NEW c \in Callers, RetryReset(c)  PROVE item'[i] = "deposited"
    <3>1. call[c].item # i  BY <2>2 DEF RetryReset, Stale, Plain
    <3> QED  BY <1>3, <2>2, <3>1 DEF RetryReset, Update, TablesTyped
  <2>3. ASSUME NEW c \in Callers, NEW k \in Items, RetryDeposit(c, k)  PROVE item'[i] = "deposited"
    <3>1. k # i  BY <2>3 DEF RetryDeposit, Stale, Plain
    <3> QED  BY <1>3, <2>3, <3>1 DEF RetryDeposit, Ready, Update, TablesTyped
  <2>4. CASE \/ DiscoveryRead \/ DiscoveryManual \/ DiscoveryList \/ DiscoveryAcquires
             \/ \E c \in Clients : SelectRead(c) \/ RetryRead(c) \/ CancelRead(c)
    BY <2>4 DEF DiscoveryRead, DiscoveryManual, DiscoveryList, DiscoveryAcquires, SelectRead, RetryRead, CancelRead,
                OnlyCalls, tables
  <2>5. ASSUME NEW c \in Callers,
               \/ SelectMark(c) \/ SelectCheck(c) \/ SelectEnqueue(c) \/ SelectDone(c) \/ SelectStatus(c)
               \/ RetryInsert(c) \/ RetryEnds(c) \/ CancelDownloads(c) \/ CancelJobs(c) \/ CancelStatus(c)
               \/ CallRaises(c) \/ \E k \in Items : SelectActive(c, k) \/ RetryActive(c, k)
        PROVE  UNCHANGED item
    BY <2>5 DEF SelectMark, SelectCheck, SelectEnqueue, SelectDone, SelectStatus, RetryInsert, RetryEnds,
                CancelDownloads, CancelJobs, CancelStatus, CallRaises, SelectActive, RetryActive, OnlyCalls, tables
  <2> QED  BY <1>7, <2>1, <2>2, <2>3, <2>4, <2>5 DEF CallNext
<1>8. CASE Restart \/ UNCHANGED vars  BY <1>8 DEF Restart, vars, tables
<1> QED  BY <1>4, <1>5, <1>6, <1>7, <1>8 DEF Next

\* No sequence of selections, retries, cancellations, faults and restarts takes a
\* deposited item back into the pipeline, unless two downloads or two calls have
\* worked on it at once, a retry met a worker that had yet to write it, or its job
\* was over before its item was written (select_items, retry_failed,
\* handle_item_done, mark_item of the worker, the deposit worker).
THEOREM DepositsAreKept == Spec => DepositKept
<1> DEFINE Kept == \A i \in Items : item[i] = "deposited" => item'[i] = "deposited" \/ i \in raced' \cup overtaken'
<1>1. Base /\ Orderly /\ [Next]_vars => Kept
  BY DepositedStays DEF Plain
<1>2. Base /\ Orderly /\ [Next]_vars => Known' /\ Queued' /\ Orderly'
  BY KnownNext, QueuedNext, OrderlyNext DEF Base
<1>3. Base <=> TypeInv /\ Known /\ Queued  BY DEF Base
<1>4. Kept => [\A i \in Items : item[i] = "deposited" => item'[i] = "deposited" \/ i \in raced' \cup overtaken']_vars
  OBVIOUS
<1> QED  BY InitKnown, InitQueued, InitOrderly, TypeInvariant, <1>1, <1>2, <1>3, <1>4, PTL DEF Spec, DepositKept

=============================================================================
