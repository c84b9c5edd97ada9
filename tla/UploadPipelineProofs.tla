------------------------ MODULE UploadPipelineProofs ------------------------
(***************************************************************************)
(* Proofs about UploadPipeline, for every set of items, client calls,      *)
(* workers and administration calls, and for every bound: the types, the   *)
(* account of the documents and the ownership of the deposits.             *)
(***************************************************************************)
EXTENDS UploadPipeline, ItemTableProofs

-----------------------------------------------------------------------------
(* Type correctness and passages, component by component.                  *)

IntakeState == TablesTyped /\ IntakeTyped

\* The steps of the client and of the calls that serve it.
LEMMA UploadTypes ==
  ASSUME IntakeState, NEW u \in Uploaders,
         \/ UploadStep(u) \/ UploadRaises(u)
         \/ \E i \in Items : SlotRead(u, i) \/ FinalizeRead(u, i)
  PROVE  TypedPassage /\ IntakeTyped'
<1> USE DEF IntakeState, IntakeTyped
<1>1. UploadItem(u) \in Items  BY DEF UploadItem
<1>2. ASSUME NEW pc \in UploadPC, UploadGoto(u, pc)
      PROVE  upload' \in [Uploaders -> [pc : UploadPC, item : Items]]
  BY <1>2 DEF UploadGoto
<1>3. CASE SlotInsert(u)
  <2>1. ItemsTyped' /\ Passage
    BY <1>1, <1>3, UpdatePassage DEF SlotInsert, TablesTyped, ItemsTyped, ItemStatus
  <2>2. TypedPassage  BY <1>3, <2>1 DEF SlotInsert, TypedPassage, TablesTyped, ItemsTyped, JobIds
  <2> QED  BY <1>2, <1>3, <2>2 DEF SlotInsert, UploadPC
<1>4. CASE FinalizeProbe(u)
  BY <1>2, <1>4, StillTables DEF FinalizeProbe, UploadPC
<1>5. CASE FinalizeClaim(u)
  <2>1. CASE UNCHANGED item /\ UploadGoto(u, "idle")
    BY <1>2, <1>5, <2>1, StillTables DEF FinalizeClaim, UploadPC, tables
  <2>2. ASSUME NEW st \in {"pending_extraction", "audio_ready"}, NEW pc \in {"idle", "ready"},
               Update(UploadItem(u), st), UploadGoto(u, pc)
        PROVE  TypedPassage /\ IntakeTyped'
    <3>1. TypedPassage
      BY <1>1, <1>5, <2>2, UpdatedPassage DEF FinalizeClaim, ItemUpdated, ItemStatus
    <3> QED  BY <1>2, <1>5, <2>2, <3>1 DEF FinalizeClaim, UploadPC, EntryPC
  <2> QED  BY <1>5, <2>1, <2>2 DEF FinalizeClaim
<1>6. CASE FinalizeEnter(u)
  <2>1. PICK next \in EntryPC \cup {"entered"} :
          /\ Enter(UploadItem(u), upload[u].pc, next)
          /\ UploadGoto(u, IF next = "entered" THEN "idle" ELSE next)
    BY <1>6 DEF FinalizeEnter
  <2>2. TypedPassage  BY <1>1, <1>6, <2>1, EnterPassage DEF FinalizeEnter
  <2>3. upload' \in [Uploaders -> [pc : UploadPC, item : Items]]  BY <1>2, <2>1 DEF UploadPC
  <2> QED  BY <1>6, <2>2, <2>3 DEF FinalizeEnter
<1>7. CASE FinalizeRefused(u)
  BY <1>2, <1>7, StillTables DEF FinalizeRefused, UploadPC
<1>8. CASE DropObject(u)
  BY <1>2, <1>8, StillTables DEF DropObject, UploadPC
<1>9. CASE DropRow(u)
  BY <1>1, <1>2, <1>9, DeletedPassage DEF DropRow, UploadPC
<1>10. CASE UploadRaises(u)
  BY <1>2, <1>10, StillTables DEF UploadRaises, UploadPC
<1>11. ASSUME NEW i \in Items, SlotRead(u, i) \/ FinalizeRead(u, i)
       PROVE  TypedPassage /\ IntakeTyped'
  <2>1. TypedPassage  BY <1>11, StillTables DEF SlotRead, FinalizeRead
  <2>2. upload' \in [Uploaders -> [pc : UploadPC, item : Items]]
    BY <1>11 DEF SlotRead, FinalizeRead, UploadPC
  <2> QED  BY <1>11, <2>1, <2>2 DEF SlotRead, FinalizeRead
<1> QED
  BY <1>3, <1>4, <1>5, <1>6, <1>7, <1>8, <1>9, <1>10, <1>11 DEF UploadStep

\* The bucket, the clock and the cleanup of the expired slots.
LEMMA SweepTypes ==
  ASSUME IntakeState, NEW i \in Items,
         \/ PutObject(i) \/ Expire(i) \/ SweepObjectFails(i) \/ SweepList \/ SweepRaises
         \/ SweepObject(i) \/ SweepRow(i)
  PROVE  TypedPassage /\ IntakeTyped'
<1> USE DEF IntakeState, IntakeTyped
<1>1. CASE PutObject(i) \/ Expire(i)  BY <1>1, StillTables DEF PutObject, Expire
<1>2. CASE SweepObjectFails(i)  BY <1>2, StillTables DEF SweepObjectFails
<1>3. CASE SweepList  BY <1>3, StillTables DEF SweepList
<1>4. CASE SweepRaises  BY <1>4, StillTables DEF SweepRaises, NoSweep
<1>5. CASE SweepObject(i)  BY <1>5, StillTables DEF SweepObject
<1>6. CASE SweepRow(i)
  <2>1. TypedPassage  BY <1>6, DeletedPassage DEF SweepRow
  <2> QED  BY <1>6, <2>1 DEF SweepRow
<1> QED  BY <1>1, <1>2, <1>3, <1>4, <1>5, <1>6

\* The extraction worker.
LEMMA ExtractTypes ==
  ASSUME IntakeState, ExtractStep \/ ExtractRecoverRaises \/ ExtractRaises
  PROVE  TypedPassage /\ IntakeTyped'
<1> USE IntakeAssumption DEF IntakeState, IntakeTyped
<1>1. extractor.item \in Items  OBVIOUS
<1>2. ASSUME NEW pc \in ExtractorPC, ExtractorGoto(pc)
      PROVE  extractor' \in [pc : ExtractorPC, item : Items, attempt : 1 .. ExtractAttempts]
  BY <1>2 DEF ExtractorGoto
<1>3. CASE ExtractRecover
  <2>1. \A k \in Items : item'[k] = item[k] \/ item'[k] = "pending_extraction"
    BY <1>3 DEF ExtractRecover, RequeueExtracting
  <2>2. ItemsTyped'
    BY <1>3 DEF ExtractRecover, RequeueExtracting, TablesTyped, ItemsTyped, ItemStatus
  <2>3. Passage  BY <1>3, <2>1, UpdatePassage DEF ExtractRecover, ItemStatus
  <2>4. TypedPassage
    BY <1>3, <2>2, <2>3 DEF ExtractRecover, TypedPassage, TablesTyped, ItemsTyped, JobIds
  <2> QED  BY <1>2, <1>3, <2>4 DEF ExtractRecover, ExtractorPC
<1>4. CASE ExtractClaim
  <2>1. PICK i \in Items :
          /\ Update(i, "extracting_audio")
          /\ extractor' = [pc |-> "extract", item |-> i, attempt |-> 1]
    BY <1>4 DEF ExtractClaim
  <2>2. TypedPassage  BY <1>4, <2>1, UpdatedPassage DEF ExtractClaim, ItemUpdated, ItemStatus
  <2>3. extractor' \in [pc : ExtractorPC, item : Items, attempt : 1 .. ExtractAttempts]
    BY <2>1 DEF ExtractorPC
  <2> QED  BY <1>4, <2>2, <2>3 DEF ExtractClaim
<1>5. CASE ExtractSucceeds  BY <1>2, <1>5, StillTables DEF ExtractSucceeds, ExtractorPC, EntryPC
<1>6. CASE ExtractAttemptFails
  <2>1. extractor' \in [pc : ExtractorPC, item : Items, attempt : 1 .. ExtractAttempts]
    BY <1>6 DEF ExtractAttemptFails, ExtractorPC
  <2> QED  BY <1>6, <2>1, StillTables DEF ExtractAttemptFails
<1>7. CASE ExtractMissing  BY <1>2, <1>7, StillTables DEF ExtractMissing, ExtractorPC
<1>8. CASE ExtractMarkFailed
  <2>1. TypedPassage
    BY <1>1, <1>8, UpdatedPassage DEF ExtractMarkFailed, ItemUpdated, ItemStatus
  <2> QED  BY <1>2, <1>8, <2>1 DEF ExtractMarkFailed, ExtractorPC
<1>9. CASE ExtractEnter
  <2>1. PICK next \in EntryPC \cup {"entered"} :
          /\ Enter(extractor.item, extractor.pc, next)
          /\ ExtractorGoto(IF next = "entered" THEN "remove" ELSE next)
    BY <1>9 DEF ExtractEnter
  <2>2. TypedPassage  BY <1>1, <1>9, <2>1, EnterPassage DEF ExtractEnter
  <2>3. extractor' \in [pc : ExtractorPC, item : Items, attempt : 1 .. ExtractAttempts]
    BY <1>2, <2>1 DEF ExtractorPC
  <2> QED  BY <1>9, <2>2, <2>3 DEF ExtractEnter
<1>10. CASE ExtractRefused  BY <1>2, <1>10, StillTables DEF ExtractRefused, ExtractorPC
<1>11. CASE ExtractRemoveRaw  BY <1>2, <1>11, StillTables DEF ExtractRemoveRaw, ExtractorPC
<1>12. CASE ExtractRecoverRaises
  BY <1>2, <1>12, StillTables DEF ExtractRecoverRaises, ExtractorPC
<1>13. CASE ExtractRaises  BY <1>2, <1>13, StillTables DEF ExtractRaises, ExtractorPC
<1> QED
  BY <1>3, <1>4, <1>5, <1>6, <1>7, <1>8, <1>9, <1>10, <1>11, <1>12, <1>13 DEF ExtractStep

LEMMA IntakeTypes ==
  ASSUME IntakeState, IntakeNext
  PROVE  TypedPassage /\ IntakeTyped'
<1>1. (\E i \in Items : TRUE)  BY ItemAssumption
<1> QED  BY <1>1, UploadTypes, SweepTypes, ExtractTypes DEF IntakeNext, SweepStep

AdminTyped ==
  /\ admin \in [Admins -> [pc : AdminPC, todo : SUBSET Items, scripted : SUBSET Items, item : Items]]
  /\ touched \in SUBSET Items
  /\ retries \in 0 .. MaxRetries

\* The administration calls.
LEMMA AdminTypes ==
  ASSUME TablesTyped, AdminTyped, AdminNext
  PROVE  TypedPassage /\ AdminTyped'
<1> USE DEF AdminTyped
<1>1. JobsTyped  BY DEF TablesTyped, JobsTyped, JobRow
<1>2. PICK a \in Admins : AdminStep(a) \/ AdminRaises(a) \/ RetryRead(a) \/ CancelRead(a) \/ CloseRead(a)
  BY DEF AdminNext
<1>3. ASSUME NEW pc \in AdminPC, AdminGoto(a, pc), UNCHANGED <<touched, retries>>
      PROVE  AdminTyped'
  BY <1>3 DEF AdminGoto
<1>4. NoCall \in [pc : AdminPC, todo : SUBSET Items, scripted : SUBSET Items, item : Items]
  BY ItemAssumption DEF NoCall, AdminPC, AnyItem
<1>5. admin[a].item \in Items  OBVIOUS
<1>6. CASE RetryInsert(a)
  <2>1. JobsTyped'  BY <1>1, <1>5, <1>6, InsertJobType DEF RetryInsert
  <2> QED  BY <1>3, <1>6, <2>1, JobsPassage DEF RetryInsert, AdminPC
<1>7. CASE RetryQueue(a)
  <2>1. TypedPassage  BY <1>5, <1>7, UpdatedPassage DEF RetryQueue, ItemUpdated, ItemStatus
  <2> QED  BY <1>3, <1>7, <2>1 DEF RetryQueue, AdminPC
<1>8. CASE RetryEnds(a) \/ RetryRefused(a)
  BY <1>4, <1>8, StillTables DEF RetryEnds, RetryRefused
<1>9. CASE CancelJobs(a)
  <2>1. TypedPassage  BY <1>1, <1>9, CancelRowsType, JobsPassage DEF CancelJobs
  <2>2. touched' \in SUBSET Items  BY <1>9 DEF CancelJobs
  <2>3. admin' \in [Admins -> [pc : AdminPC, todo : SUBSET Items, scripted : SUBSET Items, item : Items]]
    BY <1>9 DEF CancelJobs, AdminGoto, AdminPC
  <2> QED  BY <1>9, <2>1, <2>2, <2>3 DEF CancelJobs
<1>10. CASE CancelStatus(a) \/ CloseWrite(a)
  <2>1. /\ request' \in RequestStatus
        /\ UNCHANGED <<item, transcript, tjob, entries, faults>>
    BY <1>10 DEF CancelStatus, CloseWrite, RequestStatus
  <2>2. TypedPassage  BY <2>1, StillPassage DEF TypedPassage, TablesTyped, JobIds
  <2> QED  BY <1>3, <1>10, <2>2 DEF CancelStatus, CloseWrite, AdminPC
<1>11. ASSUME NEW i \in Items, RetryDeposit(a, i)
       PROVE  TypedPassage /\ AdminTyped'
  <2>1. ItemsTyped' /\ entries' \in [Items -> Nat] /\ Passage
    BY <1>11, ReadyPassage DEF RetryDeposit
  <2>2. TypedPassage
    BY <1>11, <2>1 DEF RetryDeposit, TypedPassage, TablesTyped, ItemsTyped, JobIds
  <2> QED  BY <1>11, <2>2 DEF RetryDeposit
<1>12. ASSUME NEW i \in Items, RetryVideo(a, i)
       PROVE  TypedPassage /\ AdminTyped'
  <2>1. TypedPassage  BY <1>12, UpdatedPassage DEF RetryVideo, ItemUpdated, ItemStatus
  <2> QED  BY <1>12, <2>1 DEF RetryVideo, Handling
<1>13. ASSUME NEW i \in Items, RetryAudio(a, i)
       PROVE  TypedPassage /\ AdminTyped'
  <2>1. TypedPassage  BY <1>13, UpdatedPassage DEF RetryAudio, ItemUpdated, ItemStatus
  <2> QED  BY <1>13, <2>1 DEF RetryAudio, AdminPC
<1>14. CASE AdminRaises(a)
  BY <1>4, <1>14, StillTables DEF AdminRaises
<1>15. CASE RetryRead(a)
  <2>1. TypedPassage  BY <1>15, StillTables DEF RetryRead
  <2>2. retries' \in 0 .. MaxRetries  BY <1>15, PipelineAssumption DEF RetryRead
  <2>3. admin' \in [Admins -> [pc : AdminPC, todo : SUBSET Items, scripted : SUBSET Items, item : Items]]
    BY <1>15, <1>4 DEF RetryRead, AdminPC, NoCall
  <2> QED  BY <1>15, <2>1, <2>2, <2>3 DEF RetryRead
<1>16. CASE CancelRead(a) \/ CloseRead(a)
  BY <1>3, <1>16, StillTables DEF CancelRead, CloseRead, AdminPC
<1> QED
  BY <1>2, <1>6, <1>7, <1>8, <1>9, <1>10, <1>11, <1>12, <1>13, <1>14, <1>15, <1>16 DEF AdminStep

-----------------------------------------------------------------------------
(* The types of the composition.                                           *)

\* A restart loses the coroutines of the backend and nothing else.
LEMMA RestartTypes ==
  ASSUME TypeOK, Restart
  PROVE  TypeOK'
<1>1. TypedPassage  BY StillTables DEF TypeOK, Restart
<1>2. /\ NoUpload \in [pc : UploadPC, item : Items]
      /\ FreshExtractor \in [pc : ExtractorPC, item : Items, attempt : 1 .. ExtractAttempts]
      /\ FreshDepositor \in [pc : DepositorPC, item : Items, attempt : 1 .. DepositAttempts]
      /\ NoSweep \in [todo : SUBSET Items, row : SUBSET Items]
      /\ NoCall \in [pc : AdminPC, todo : SUBSET Items, scripted : SUBSET Items, item : Items]
  BY ItemAssumption, IntakeAssumption, DepositAssumption
     DEF NoUpload, FreshExtractor, FreshDepositor, NoSweep, NoCall, AnyItem,
         UploadPC, ExtractorPC, DepositorPC, AdminPC
<1>3. IntakeTyped'  BY <1>2 DEF TypeOK, IntakeTyped, Restart
<1>4. WorkersTyped'  BY DEF TypeOK, WorkersTyped, Restart, JobIds
<1>5. DepositTyped'  BY <1>2 DEF TypeOK, DepositTyped, Restart
<1>6. admin' \in [Admins -> [pc : AdminPC, todo : SUBSET Items, scripted : SUBSET Items, item : Items]]
  BY <1>2 DEF Restart
<1>7. restarts' \in 0 .. MaxRestarts  BY PipelineAssumption DEF TypeOK, Restart
<1> QED
  BY <1>1, <1>3, <1>4, <1>5, <1>6, <1>7 DEF TypeOK, TypedPassage, Restart

LEMMA InitTypes == Init => TypeOK
<1> SUFFICES ASSUME Init PROVE TypeOK  OBVIOUS
<1> USE ItemAssumption, IntakeAssumption, DepositAssumption, PipelineAssumption DEF Init, AnyItem
<1>1. TablesTyped
  BY DEF TablesInit, TablesTyped, ItemStatus, JobStatus, RequestStatus, JobIds
<1>2. IntakeTyped
  BY DEF IntakeInit, IntakeTyped, NoUpload, NoSweep, FreshExtractor, UploadPC, ExtractorPC
<1>3. WorkersTyped  BY DEF WorkersInit, WorkersTyped, NoWork, WorkerPC
<1>4. DepositTyped  BY DEF DepositInit, DepositTyped, FreshDepositor, DepositorPC
<1> QED  BY <1>1, <1>2, <1>3, <1>4 DEF TypeOK, NoCall, AdminPC

\* A step of another component than the deposit worker (and than a restart).
Elsewhere == InIntake(IntakeNext) \/ InTranscription(TranscriptionNext) \/ AdminNext

LEMMA ElsewherePassage ==
  ASSUME TypeOK, Elsewhere
  PROVE  TypeOK' /\ Passage /\ UNCHANGED <<depositor, docs>>
<1>1. DepositTyped' /\ restarts' \in 0 .. MaxRestarts /\ UNCHANGED <<depositor, docs>>
  <2>1. UNCHANGED <<depositor, docs, restarts>>
    BY DEF Elsewhere, InIntake, InTranscription, Others, AdminNext, AdminStep, AdminRaises,
           RetryRead, CancelRead, CloseRead, RetryInsert, RetryRefused, RetryQueue, RetryEnds, CancelJobs,
           CancelStatus, CloseWrite, RetryDeposit, RetryVideo, RetryAudio, OutsideAdmin
  <2> QED  BY <2>1 DEF TypeOK, DepositTyped
<1>2. CASE InIntake(IntakeNext)
  <2>1. TypedPassage /\ IntakeTyped'
    BY <1>2, IntakeTypes DEF InIntake, TypeOK, IntakeState
  <2>2. WorkersTyped'  BY <1>2 DEF InIntake, TypeOK, WorkersTyped, JobIds
  <2> QED  BY <1>1, <1>2, <2>1, <2>2 DEF InIntake, Others, TypeOK, TypedPassage
<1>3. CASE InTranscription(TranscriptionNext)
  <2>1. TypedPassage /\ WorkersTyped'
    BY <1>3, TranscriptionTypes DEF InTranscription, TypeOK
  <2>2. IntakeTyped'  BY <1>3 DEF InTranscription, intake, TypeOK, IntakeTyped
  <2> QED  BY <1>1, <1>3, <2>1, <2>2 DEF InTranscription, Others, TypeOK, TypedPassage
<1>4. CASE AdminNext
  <2>1. TypedPassage /\ AdminTyped'
    BY <1>4, AdminTypes DEF TypeOK, AdminTyped
  <2>2. UNCHANGED <<intake, worker>>
    BY <1>4 DEF AdminNext, AdminStep, AdminRaises, RetryRead, CancelRead, CloseRead, RetryInsert, RetryRefused,
            RetryQueue, RetryEnds, CancelJobs, CancelStatus, CloseWrite, RetryDeposit, RetryVideo,
           RetryAudio, OutsideAdmin
  <2>3. IntakeTyped' /\ WorkersTyped'
    BY <2>2 DEF intake, TypeOK, IntakeTyped, WorkersTyped, JobIds
  <2> QED  BY <1>1, <2>1, <2>3 DEF TypeOK, TypedPassage, AdminTyped
<1> QED  BY <1>1, <1>2, <1>3, <1>4 DEF Elsewhere

LEMMA DepositStepTypes ==
  ASSUME TypeOK, InDeposit(DepositNext)
  PROVE  TypeOK'
<1>1. TablesTyped' /\ DepositTyped'  BY DepositTypes DEF InDeposit, TypeOK
<1>2. IntakeTyped' /\ WorkersTyped'
  BY DEF InDeposit, intake, TypeOK, IntakeTyped, WorkersTyped, JobIds
<1> QED  BY <1>1, <1>2 DEF InDeposit, Others, TypeOK

LEMMA StutterTypes ==
  ASSUME TypeOK, UNCHANGED vars
  PROVE  TypeOK'
BY DEF vars, tables, intake, TypeOK, TablesTyped, IntakeTyped, WorkersTyped, DepositTyped, JobIds

\* Every variable of the pipeline keeps its type, through every interleaving of
\* the calls, the workers, the cleanup, the exceptions and the restarts.
THEOREM UploadTypeCorrect == Spec => []TypeOK
<1>1. TypeOK /\ [Next]_vars => TypeOK'
  BY ElsewherePassage, DepositStepTypes, RestartTypes, StutterTypes DEF Next, Elsewhere
<1> QED  BY InitTypes, <1>1, PTL DEF Spec

-----------------------------------------------------------------------------
(* The account and the ownership of the deposits.                          *)

LEMMA NextAccounted == TypeOK /\ Accounted /\ [Next]_vars => Accounted'
<1> SUFFICES ASSUME TypeOK, Accounted, [Next]_vars PROVE Accounted'  OBVIOUS
<1>1. TablesTyped /\ DepositTyped  BY DEF TypeOK
<1>2. CASE Elsewhere
  <2>1. TypeOK' /\ Passage /\ UNCHANGED <<depositor, docs>>  BY <1>2, ElsewherePassage
  <2> QED  BY <1>1, <2>1, PassageAccounted DEF TypeOK
<1>3. CASE InDeposit(DepositNext)  BY <1>1, <1>3, DepositAccounted DEF InDeposit
<1>4. CASE Restart  BY <1>1, <1>4, RestartAccounted DEF Restart, tables
<1>5. CASE UNCHANGED vars
  BY <1>5 DEF vars, tables, Accounted, Waiting, Depositing, DepositorAt
<1> QED  BY <1>2, <1>3, <1>4, <1>5 DEF Next, Elsewhere

\* docflow never holds more documents of an item than the item has had passages
\* through "transcribed": no attempt, exception or restart writes a second one.
THEOREM DocumentsAreAccounted == Spec => []DocumentsAccounted
<1>1. Init => Accounted
  <2>1. ASSUME Init PROVE /\ depositor = FreshDepositor /\ docs = [i \in Items |-> 0]
                          /\ entries = [i \in Items |-> 0]
                          /\ \A i \in Items : item[i] # "transcribed"
    BY <2>1 DEF Init, TablesInit, DepositInit
  <2> QED  BY <2>1, InitAccounted
<1>2. TypeOK /\ Accounted => DocumentsAccounted
  BY AccountedBounds DEF TypeOK
<1> QED  BY <1>1, <1>2, NextAccounted, UploadTypeCorrect, PTL DEF Spec

\* The exceptions are only ever added to.
LEMMA FaultsGrow == TypeOK /\ [Next]_vars /\ faults' = 0 => faults = 0
<1> SUFFICES ASSUME TypeOK, [Next]_vars PROVE faults' = faults \/ faults' = faults + 1
  BY DEF TypeOK, TablesTyped
<1>1. CASE InIntake(IntakeNext)
  BY <1>1 DEF InIntake, IntakeNext, UploadStep, UploadRaises, SlotInsert, FinalizeProbe, FinalizeClaim,
     FinalizeEnter, FinalizeRefused, DropObject, DropRow, SlotRead, FinalizeRead, PutObject, Expire,
     SweepObjectFails, SweepStep, SweepList, SweepObject, SweepRow, SweepRaises, ExtractStep,
     ExtractRecover, ExtractClaim, ExtractSucceeds, ExtractAttemptFails, ExtractMissing,
     ExtractMarkFailed, ExtractEnter, ExtractRefused, ExtractRemoveRaw, ExtractRecoverRaises,
     ExtractRaises, Fault
<1>2. CASE InTranscription(TranscriptionNext)
  BY <1>2 DEF InTranscription, TranscriptionNext, WorkerStep, WorkerClaim, WorkerTranscribes,
     WorkerMarksDone, WorkerMarksItem, WorkerMarksFailed, WorkerRaises, WorkerDies, Reconcile, Fault
<1>3. CASE InDeposit(DepositNext)
  BY <1>3 DEF InDeposit, DepositNext, DepositStep, DepositRecover, DepositClaim, DepositSucceeds,
     DepositAttemptFails, DepositMark, DepositMarkFailed, DepositRecoverRaises, DepositRaises, Fault
<1>4. CASE AdminNext
  BY <1>4 DEF AdminNext, AdminStep, AdminRaises, RetryRead, CancelRead, CloseRead, RetryInsert, RetryRefused,
     RetryQueue, RetryEnds, CancelJobs, CancelStatus, CloseWrite, RetryDeposit, RetryVideo,
     RetryAudio, Fault
<1>5. CASE Restart \/ UNCHANGED vars  BY <1>5 DEF Restart, vars
<1> QED  BY <1>1, <1>2, <1>3, <1>4, <1>5 DEF Next

LEMMA NextOwned == TypeOK /\ DepositOwned /\ [Next]_vars => DepositOwned'
<1> SUFFICES ASSUME TypeOK, DepositOwned, [Next]_vars PROVE DepositOwned'  OBVIOUS
<1>1. TablesTyped /\ DepositTyped /\ (faults' = 0 => faults = 0)  BY FaultsGrow DEF TypeOK
<1>2. CASE Elsewhere  BY <1>1, <1>2, ElsewherePassage, PassageOwned
<1>3. CASE InDeposit(DepositNext)  BY <1>1, <1>3, DepositKeepsOwned DEF InDeposit
<1>4. CASE Restart  BY <1>4 DEF Restart, FreshDepositor, DepositOwned, DepositorAt
<1>5. CASE UNCHANGED vars  BY <1>5 DEF vars, tables, DepositOwned, DepositorAt
<1> QED  BY <1>2, <1>3, <1>4, <1>5 DEF Next, Elsewhere

\* As long as nothing raised, an item "depositing" is in the hands of the
\* deposit worker, or the worker is about to requeue it.
THEOREM DepositsAreOwned == Spec => []DepositOwned
<1>1. Init => DepositOwned
  BY DEF Init, TablesInit, DepositOwned
<1> QED  BY <1>1, NextOwned, UploadTypeCorrect, PTL DEF Spec

-----------------------------------------------------------------------------
(* The jobs of the pool.                                                   *)

\* Outside the pool a row is inserted, or rows end, whoever holds them.
OutsidePool == InIntake(IntakeNext) \/ InDeposit(DepositNext) \/ AdminNext \/ Restart \/ UNCHANGED vars

LEMMA OutsideRows ==
  ASSUME TypeOK, OutsidePool
  PROVE  UNCHANGED worker /\ RowStep
<1>1. TablesTyped  BY DEF TypeOK
<1>2. CASE InIntake(IntakeNext)
  <2>1. ASSUME NEW u \in Uploaders, UploadStep(u) \/ UploadRaises(u)  PROVE RowStep
    <3>1. UploadItem(u) \in Items  BY DEF TypeOK, IntakeTyped, UploadItem
    <3>2. FinalizeEnter(u) => RowStep  BY <3>1, EnterRowStep DEF FinalizeEnter
    <3>3. DropRow(u) => RowStep  BY <1>1, <3>1, DeleteRowStep DEF DropRow
    <3> QED
      BY <2>1, <3>2, <3>3, StillRowStep
         DEF UploadStep, UploadRaises, SlotInsert, FinalizeProbe, FinalizeClaim, FinalizeRefused,
             DropObject, tables
  <2>2. ASSUME NEW i \in Items, SweepRow(i)  PROVE RowStep
    BY <1>1, <2>2, DeleteRowStep DEF SweepRow
  <2>3. ExtractEnter => RowStep
    <3>1. extractor.item \in Items  BY DEF TypeOK, IntakeTyped
    <3> QED  BY <3>1, EnterRowStep DEF ExtractEnter
  <2>4. CASE UNCHANGED tjob  BY <1>2, <2>4, StillRowStep DEF InIntake
  <2> QED
    BY <1>2, <2>1, <2>2, <2>3, <2>4
       DEF InIntake, IntakeNext, SlotRead, FinalizeRead, PutObject, Expire, SweepObjectFails,
           SweepStep, SweepList, SweepObject, SweepRaises, ExtractStep, ExtractRecover,
           ExtractClaim, ExtractSucceeds, ExtractAttemptFails, ExtractMissing, ExtractMarkFailed,
           ExtractRefused, ExtractRemoveRaw, ExtractRecoverRaises, ExtractRaises, tables
<1>3. CASE InDeposit(DepositNext)
  BY <1>3, StillRowStep
     DEF InDeposit, DepositNext, DepositStep, DepositRecover, DepositClaim, DepositSucceeds,
         DepositAttemptFails, DepositMark, DepositMarkFailed, DepositRecoverRaises, DepositRaises, tables
<1>4. CASE AdminNext
  <2>1. PICK a \in Admins : AdminStep(a) \/ AdminRaises(a) \/ RetryRead(a) \/ CancelRead(a) \/ CloseRead(a)
    BY <1>4 DEF AdminNext
  <2>2. worker' = worker
    BY <2>1 DEF AdminStep, AdminRaises, RetryRead, CancelRead, CloseRead, RetryInsert, RetryRefused,
                RetryQueue, RetryEnds, CancelJobs, CancelStatus, CloseWrite, RetryDeposit, RetryVideo,
                RetryAudio, OutsideAdmin
  <2>3. RetryInsert(a) => RowStep  BY DEF RetryInsert, RowStep, TypeOK
  <2>4. CancelJobs(a) => RowStep  BY <1>1, CancelRowStep DEF CancelJobs
  <2>5. CASE UNCHANGED tjob  BY <2>2, <2>5, StillRowStep
  <2> QED
    BY <2>1, <2>2, <2>3, <2>4, <2>5
       DEF AdminStep, AdminRaises, RetryRead, CancelRead, CloseRead, RetryRefused, RetryQueue, RetryEnds,
           CancelStatus, CloseWrite, RetryDeposit, RetryVideo, RetryAudio, tables
<1>5. CASE Restart \/ UNCHANGED vars  BY <1>5, StillRowStep DEF Restart, vars, tables
<1> QED  BY <1>2, <1>3, <1>4, <1>5 DEF OutsidePool, InIntake, InDeposit

LEMMA NextPool == TypeOK /\ PoolInv /\ [Next]_vars => PoolInv'
<1> SUFFICES ASSUME TypeOK, PoolInv, [Next]_vars PROVE PoolInv'  OBVIOUS
<1>1. CASE OutsidePool  BY <1>1, OutsideRows, OthersKeepPool DEF TypeOK
<1>2. CASE InTranscription(TranscriptionNext)
  BY <1>2, TranscriptionKeepsPool DEF TypeOK, InTranscription
<1> QED  BY <1>1, <1>2 DEF Next, OutsidePool

LEMMA InitPool == Init => PoolInv
BY DEF Init, WorkersInit, NoWork, PoolInv, WorkerAt

LEMMA PoolInvariant == Spec => []PoolInv
BY InitPool, NextPool, UploadTypeCorrect, PTL DEF Spec

\* As long as nothing raised and no container died, a claimed job is in the
\* hands of a worker, whatever is cancelled, deleted, retried or restarted.
THEOREM UploadClaimsHeld == Spec => []ClaimsHeld
<1>1. Init => ClaimsHeld  BY DEF Init, TablesInit, ClaimsHeld
<1>2. TypeOK /\ PoolInv /\ ClaimsHeld /\ [Next]_vars => ClaimsHeld'
  <2> SUFFICES ASSUME TypeOK, PoolInv, ClaimsHeld, [Next]_vars PROVE ClaimsHeld'  OBVIOUS
  <2>1. faults' = 0 => faults = 0  BY FaultsGrow
  <2>2. CASE OutsidePool  BY <2>1, <2>2, OutsideRows, OthersHoldClaims DEF TypeOK
  <2>3. CASE InTranscription(TranscriptionNext)
    BY <2>3, TranscriptionHoldsClaims DEF TypeOK, InTranscription
  <2> QED  BY <2>2, <2>3 DEF Next, OutsidePool
<1> QED  BY <1>1, <1>2, PoolInvariant, UploadTypeCorrect, PTL DEF Spec

\* The pool keeps what JobBoard promises: every job is run once at most, by one
\* worker at a time, and no job that is over comes back.
THEOREM UploadImplementsPool == Spec => PoolSpec
<1>1. Init => PoolMap = [j \in JobIds |-> "absent"]
  BY DEF Init, TablesInit, WorkersInit, NoWork, PoolMap, Stage, Held, Holders, WorkerAt
<1>2. TypeOK /\ PoolInv /\ PoolRead /\ PoolRead' /\ [Next]_vars => [Pool!Next]_PoolMap
  <2> SUFFICES ASSUME TypeOK, PoolInv, PoolRead, PoolRead', [Next]_vars PROVE [Pool!Next]_PoolMap
    OBVIOUS
  <2>1. CASE OutsidePool  BY <2>1, OutsideRows, OthersKeepBoard DEF TypeOK
  <2>2. CASE InTranscription(TranscriptionNext)
    BY <2>2, TranscriptionKeepsBoard DEF TypeOK, InTranscription
  <2> QED  BY <2>1, <2>2 DEF Next, OutsidePool
<1>3. PoolInv => PoolRead  BY PoolReads
<1>4. PoolInv' => PoolRead'  BY PoolReads, PTL
<1>5. Init => Pool!Init  BY <1>1 DEF Pool!Init, PoolMap
<1>6. TypeOK /\ PoolInv /\ PoolInv' /\ [Next]_vars => [Pool!Next]_([j \in JobIds |-> Stage(j)])
  BY <1>2, <1>3, <1>4 DEF PoolMap
<1> QED  BY <1>5, <1>6, PoolInvariant, UploadTypeCorrect, PTL DEF Spec, PoolSpec, Pool!Spec

=============================================================================
