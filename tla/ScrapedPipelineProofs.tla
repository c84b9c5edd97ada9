------------------------ MODULE ScrapedPipelineProofs ------------------------
(***************************************************************************)
(* Proofs about ScrapedPipeline, for every set of items, tasks, workers    *)
(* and clients, and for every bound: the types, with the exclusive run of  *)
(* the download jobs; the items selected are not forgotten; the items      *)
(* queued have a job that answers for them.                                *)
(***************************************************************************)
EXTENDS ScrapedPipeline, ItemTableProofs

-----------------------------------------------------------------------------
(* The download jobs and their tasks.                                      *)

DownloadRow == [status : DownloadStatus, item : Items]
RunRecord == [pc : RunPC, job : DownloadIds \cup {0}, item : Items]

\* A task that works holds a row that was claimed, for the item of the row.
RunOwns(r) ==
  IF run[r].pc = "idle" THEN run[r].job = 0
  ELSE /\ recovered
       /\ run[r].job \in DownloadIds
       /\ djob[run[r].job].status \notin {"absent", "pending"}
       /\ djob[run[r].job].item = run[r].item

RunsOwn == \A r \in Runs : RunOwns(r)

GhostsTyped == lost \in SUBSET Items /\ raced \in SUBSET Items /\ overtaken \in SUBSET Items

DownloadState == TablesTyped /\ DownloadsTyped /\ RunsOwn

\* A row changes its status and no task its row.
LEMMA RowMoves ==
  ASSUME DownloadState, NEW j \in DownloadIds, NEW st \in {"claimed", "processing", "over"},
         SetDownload(j, st)
  PROVE  /\ djob' \in [DownloadIds -> DownloadRow]
         /\ \A k \in DownloadIds : djob'[k].item = djob[k].item
         /\ \A k \in DownloadIds : IF k = j THEN djob'[k].status = st ELSE djob'[k] = djob[k]
BY DEF DownloadState, DownloadsTyped, DownloadRow, DownloadStatus, SetDownload

\* The tasks are the same or at another point of the same job.
LEMMA RunMoves ==
  ASSUME DownloadState, NEW r \in Runs, NEW pc \in RunPC \ {"idle"}, ~RunAt(r, "idle"), RunGoto(r, pc)
  PROVE  /\ run' \in [Runs -> RunRecord]
         /\ \A s \in Runs : /\ run'[s].job = run[s].job
                            /\ run'[s].item = run[s].item
                            /\ run'[s].pc = "idle" <=> run[s].pc = "idle"
         /\ run'[r].pc = pc
         /\ \A s \in Runs \ {r} : run'[s] = run[s]
BY DEF DownloadState, DownloadsTyped, RunRecord, RunPC, RunAt, RunGoto

\* A task ends.
LEMMA RunEnds ==
  ASSUME DownloadState, NEW r \in Runs, RunRests(r)
  PROVE  /\ run' \in [Runs -> RunRecord]
         /\ run'[r].pc = "idle" /\ run'[r].job = 0
         /\ \A s \in Runs \ {r} : run'[s] = run[s]
<1>1. Resting \in RunRecord  BY ItemAssumption DEF Resting, RunRecord, RunPC, AnyItem
<1> QED  BY <1>1 DEF DownloadState, DownloadsTyped, RunRecord, RunRests, Resting

\* The exclusive run of the jobs is a matter of the jobs the tasks hold.
LEMMA StillExclusive ==
  ASSUME DownloadState, run' \in [Runs -> RunRecord], djob' \in [DownloadIds -> DownloadRow],
         GhostsTyped', recovered' \in BOOLEAN,
         \A s \in Runs : \/ run'[s].pc = "idle" /\ run'[s].job = 0
                         \/ /\ run'[s].pc # "idle" /\ run[s].pc # "idle"
                            /\ run'[s].job = run[s].job /\ run'[s].item = run[s].item,
         \/ recovered' /\ \A k \in DownloadIds :
              djob[k].status \notin {"absent", "pending"} =>
                djob'[k].status \notin {"absent", "pending"} /\ djob'[k].item = djob[k].item
         \/ \A s \in Runs : run'[s].pc = "idle"
  PROVE  DownloadsTyped' /\ RunsOwn'
<1>1. RunsOwn'  BY DEF DownloadState, DownloadsTyped, RunsOwn, RunOwns
<1>2. ASSUME NEW r \in Runs, NEW s \in Runs, run'[r].pc # "idle", run'[r].job = run'[s].job
      PROVE  r = s
  <2>1. run'[r].job \in DownloadIds  BY <1>1, <1>2 DEF RunsOwn, RunOwns
  <2>2. run'[s].pc # "idle"  BY <1>2, <2>1 DEF DownloadIds
  <2> QED  BY <1>2, <2>2 DEF DownloadState, DownloadsTyped
<1> QED  BY <1>1, <1>2 DEF DownloadsTyped, DownloadRow, RunRecord, GhostsTyped, DownloadIds
\* Only the ghosts and a place of a task change, or less.
LEMMA GotoState ==
  ASSUME DownloadState, GhostsTyped', UNCHANGED <<djob, recovered>>,
         NEW r \in Runs, ~RunAt(r, "idle"),
         (\E pc \in RunPC \ {"idle"} : RunGoto(r, pc)) \/ RunRests(r)
  PROVE  DownloadsTyped' /\ RunsOwn'
<1>1. djob' \in [DownloadIds -> DownloadRow] /\ recovered' \in BOOLEAN
  BY DEF DownloadState, DownloadsTyped, DownloadRow
<1>2. recovered' /\ \A k \in DownloadIds : djob'[k] = djob[k]
  BY DEF DownloadState, RunsOwn, RunOwns, RunAt
<1>3. ASSUME NEW s \in Runs, run'[s] = run[s]
      PROVE  \/ run'[s].pc = "idle" /\ run'[s].job = 0
             \/ /\ run'[s].pc # "idle" /\ run[s].pc # "idle"
                /\ run'[s].job = run[s].job /\ run'[s].item = run[s].item
  BY <1>3 DEF DownloadState, RunsOwn, RunOwns
<1>4. CASE \E pc \in RunPC \ {"idle"} : RunGoto(r, pc)
  BY <1>1, <1>2, <1>3, <1>4, RunMoves, StillExclusive DEF RunAt
<1>5. CASE RunRests(r)
  BY <1>1, <1>2, <1>3, <1>5, RunEnds, StillExclusive
<1> QED  BY <1>4, <1>5

\* The steps of the orchestrator on the download jobs.
LEMMA DownloadsTypes ==
  ASSUME DownloadState, DownloadsNext
  PROVE  TablesTyped' /\ DownloadsTyped' /\ RunsOwn'
<1> USE DEF DownloadState
<1>1. /\ djob \in [DownloadIds -> DownloadRow] /\ run \in [Runs -> RunRecord]
      /\ GhostsTyped /\ recovered \in BOOLEAN
  BY DEF DownloadsTyped, DownloadRow, RunRecord, GhostsTyped
<1>2. ASSUME NEW r \in Runs  PROVE RunItem(r) \in Items  BY <1>1 DEF RunItem, RunRecord
<1>3. ASSUME UNCHANGED tables, faults' = faults \/ Fault  PROVE TablesTyped'
  BY <1>3, StillTables DEF TypedPassage
<1>4. ASSUME NEW s \in Runs, run'[s] = run[s]
      PROVE  \/ run'[s].pc = "idle" /\ run'[s].job = 0
             \/ /\ run'[s].pc # "idle" /\ run[s].pc # "idle"
                /\ run'[s].job = run[s].job /\ run'[s].item = run[s].item
  BY <1>4 DEF RunsOwn, RunOwns
<1>5. CASE RecoverDownloads
  <2>1. djob' \in [DownloadIds -> DownloadRow]
    BY <1>1, <1>5 DEF RecoverDownloads, SetDownloads, RowsIn, DownloadRow, DownloadStatus
  <2>2. ItemsIn({"claimed", "processing"}) \subseteq Items
    BY <1>1 DEF ItemsIn, RowsIn, DownloadRow
  <2>3. GhostsTyped' /\ recovered' \in BOOLEAN  BY <1>1, <1>5, <2>2 DEF RecoverDownloads, GhostsTyped
  <2>4. \A s \in Runs : run'[s] = run[s] /\ run'[s].pc = "idle"
    BY <1>5 DEF RecoverDownloads, RunsOwn, RunOwns
  <2>5. run' \in [Runs -> RunRecord]  BY <1>1, <1>5 DEF RecoverDownloads
  <2>6. DownloadsTyped' /\ RunsOwn'  BY <1>4, <2>1, <2>3, <2>4, <2>5, StillExclusive
  <2>7. TablesTyped'  BY <1>3, <1>5 DEF RecoverDownloads
  <2> QED  BY <2>6, <2>7
<1>6. CASE RecoverDownloadsRaises
  <2>1. \A s \in Runs : run'[s] = run[s] /\ run'[s].pc = "idle"
    BY <1>6 DEF RecoverDownloadsRaises, RunsOwn, RunOwns
  <2>2. run' \in [Runs -> RunRecord] /\ djob' \in [DownloadIds -> DownloadRow] /\ GhostsTyped' /\ recovered' \in BOOLEAN
    BY <1>1, <1>6 DEF RecoverDownloadsRaises, GhostsTyped
  <2>3. DownloadsTyped' /\ RunsOwn'  BY <1>4, <2>1, <2>2, StillExclusive
  <2>4. TablesTyped'  BY <1>3, <1>6 DEF RecoverDownloadsRaises
  <2> QED  BY <2>3, <2>4
<1>7. ASSUME NEW r \in Runs, RunClaim(r)
      PROVE  TablesTyped' /\ DownloadsTyped' /\ RunsOwn'
  <2>1. PICK j \in DownloadIds :
          /\ djob[j].status = "pending"
          /\ SetDownload(j, "claimed")
          /\ run' = [run EXCEPT ![r] = [pc |-> "start", job |-> j, item |-> djob[j].item]]
    BY <1>7 DEF RunClaim, NextDownload
  <2>2. /\ djob' \in [DownloadIds -> DownloadRow]
        /\ djob'[j].status = "claimed" /\ djob'[j].item = djob[j].item
        /\ \A k \in DownloadIds \ {j} : djob'[k] = djob[k]
    BY <2>1, RowMoves
  <2>3. run' \in [Runs -> RunRecord]  BY <1>1, <2>1 DEF RunRecord, RunPC, DownloadRow
  <2>4. /\ run'[r].pc = "start" /\ run'[r].job = j /\ run'[r].item = djob[j].item
        /\ \A s \in Runs \ {r} : run'[s] = run[s]
    BY <1>1, <2>1
  <2>5. recovered' /\ GhostsTyped'  BY <1>1, <1>7 DEF RunClaim, GhostsTyped
  <2>6. ASSUME NEW s \in Runs \ {r}  PROVE run'[s].job # j /\ RunOwns(s)'
    <3>1. run'[s] = run[s] /\ RunOwns(s)  BY <2>4 DEF RunsOwn
    <3>2. run[s].job # j  BY <2>1, <3>1 DEF RunOwns, DownloadIds
    <3> QED  BY <2>2, <2>5, <3>1, <3>2 DEF RunOwns
  <2>7. RunOwns(r)'  BY <2>2, <2>4, <2>5 DEF RunOwns
  <2>8. RunsOwn'  BY <2>6, <2>7 DEF RunsOwn
  <2>9. \A s, t \in Runs : run'[s].pc # "idle" /\ run'[s].job = run'[t].job => s = t
    BY <2>4, <2>6 DEF DownloadsTyped
  <2>10. DownloadsTyped'
    BY <2>2, <2>3, <2>5, <2>9 DEF DownloadsTyped, DownloadRow, RunRecord, GhostsTyped, DownloadIds
  <2>11. TablesTyped'  BY <1>3, <1>7 DEF RunClaim
  <2> QED  BY <2>8, <2>10, <2>11
<1>8. ASSUME NEW r \in Runs, ~RunAt(r, "idle"), NEW st \in {"processing", "over"}, SetDownload(run[r].job, st),
             (\E pc \in RunPC \ {"idle"} : RunGoto(r, pc)) \/ RunRests(r),
             UNCHANGED <<tables, faults, recovered, lost, raced, overtaken>>
      PROVE  TablesTyped' /\ DownloadsTyped' /\ RunsOwn'
  <2>1. recovered /\ run[r].job \in DownloadIds  BY <1>8 DEF RunsOwn, RunOwns, RunAt
  <2>2. PICK j \in DownloadIds : j = run[r].job  BY <2>1
  <2>3. /\ djob' \in [DownloadIds -> DownloadRow]
        /\ \A k \in DownloadIds : djob'[k].item = djob[k].item
        /\ \A k \in DownloadIds : IF k = j THEN djob'[k].status = st ELSE djob'[k] = djob[k]
    BY <1>8, <2>2, RowMoves
  <2>4. GhostsTyped' /\ recovered'  BY <1>1, <1>8, <2>1 DEF GhostsTyped
  <2>5. /\ run' \in [Runs -> RunRecord]
        /\ \A s \in Runs : \/ run'[s].pc = "idle" /\ run'[s].job = 0
                           \/ /\ run'[s].pc # "idle" /\ run[s].pc # "idle"
                              /\ run'[s].job = run[s].job /\ run'[s].item = run[s].item
    <3>1. CASE \E pc \in RunPC \ {"idle"} : RunGoto(r, pc)
      BY <1>4, <1>8, <3>1, RunMoves DEF RunAt
    <3>2. CASE RunRests(r)
      BY <1>4, <3>2, RunEnds
    <3> QED  BY <1>8, <3>1, <3>2
  <2>6. DownloadsTyped' /\ RunsOwn'  BY <2>3, <2>4, <2>5, StillExclusive
  <2>7. TablesTyped'  BY <1>3, <1>8
  <2> QED  BY <2>6, <2>7
<1>9. ASSUME NEW r \in Runs, RunStart(r) \/ RunFinish(r)
      PROVE  TablesTyped' /\ DownloadsTyped' /\ RunsOwn'
  BY <1>8, <1>9 DEF RunStart, RunFinish, RunAt, RunPC
<1>10. ASSUME NEW r \in Runs, RunEvent(r) \/ RunRaises(r)
       PROVE  TablesTyped' /\ DownloadsTyped' /\ RunsOwn'
  <2>1. TablesTyped' /\ UNCHANGED <<djob, recovered>> /\ ~RunAt(r, "idle")
    BY <1>3, <1>10 DEF RunEvent, RunRaises, RunAt
  <2>2. GhostsTyped'  BY <1>1, <1>2, <1>10 DEF RunEvent, RunRaises, GhostsTyped
  <2>3. (\E pc \in RunPC \ {"idle"} : RunGoto(r, pc)) \/ RunRests(r)
    BY <1>10 DEF RunEvent, RunRaises, RunPC
  <2> QED  BY <2>1, <2>2, <2>3, GotoState
<1>11. ASSUME NEW r \in Runs, RunInsertJob(r)
       PROVE  TablesTyped' /\ DownloadsTyped' /\ RunsOwn'
  <2>1. JobsTyped  BY DEF TablesTyped, JobsTyped, JobRow
  <2>2. JobsTyped'  BY <1>2, <1>11, <2>1, InsertJobType DEF RunInsertJob
  <2>3. TablesTyped'  BY <1>11, <2>2, JobsPassage DEF RunInsertJob, TypedPassage
  <2>4. GhostsTyped'  BY <1>1, <1>11 DEF RunInsertJob, GhostsTyped
  <2>5. DownloadsTyped' /\ RunsOwn'
    BY <1>11, <2>4, GotoState DEF RunInsertJob, RunAt, RunPC
  <2> QED  BY <2>3, <2>5
<1>12. ASSUME NEW r \in Runs, RunQueue(r) \/ RunFailItem(r)
       PROVE  TablesTyped' /\ DownloadsTyped' /\ RunsOwn'
  <2>1. PICK st \in {"queued_transcription", "failed"} : ItemUpdated(RunItem(r), st)
    BY <1>12 DEF RunQueue, RunFailItem, ItemUpdated
  <2>2. TablesTyped'
    BY <1>2, <2>1, UpdatedPassage DEF ItemStatus, TypedPassage
  <2>3. GhostsTyped'  BY <1>1, <1>2, <1>12 DEF RunQueue, RunFailItem, GhostsTyped
  <2>4. DownloadsTyped' /\ RunsOwn'
    BY <1>12, <2>3, GotoState DEF RunQueue, RunFailItem, RunAt, RunPC
  <2> QED  BY <2>2, <2>4
<1> QED  BY <1>5, <1>6, <1>7, <1>9, <1>10, <1>11, <1>12 DEF DownloadsNext
-----------------------------------------------------------------------------
(* The calls on the request.                                               *)

CallRecord == [pc : CallPC, todo : SUBSET Items, scripted : SUBSET Items, item : Items, status : RequestStatus]

CallsTyped ==
  /\ mode \in {"auto", "discover_only"}
  /\ selected \in SUBSET Items
  /\ call \in [Callers -> CallRecord]
  /\ explored \in BOOLEAN
  /\ calls \in 0 .. MaxCalls
  /\ restarts \in 0 .. MaxRestarts

CallState == DownloadState /\ CallsTyped

\* The tasks and the jobs are left alone.
LEMMA StillDownloads ==
  ASSUME DownloadState, GhostsTyped', UNCHANGED <<djob, recovered, run>>
  PROVE  DownloadsTyped' /\ RunsOwn'
BY DEF DownloadState, DownloadsTyped, GhostsTyped, RunsOwn, RunOwns, DownloadIds

\* A job is inserted in the first free row, which no task holds.
LEMMA InsertState ==
  ASSUME DownloadState, NEW i \in Items, InsertDownload(i), GhostsTyped', UNCHANGED <<recovered, run>>
  PROVE  /\ DownloadsTyped' /\ RunsOwn'
         /\ \E j \in DownloadIds :
              /\ djob[j].status = "absent"
              /\ djob'[j].status = "pending" /\ djob'[j].item = i
              /\ \A k \in DownloadIds \ {j} : djob'[k] = djob[k]
              /\ \A r \in Runs : run[r].job # j
<1> USE DEF DownloadState
<1>1. djob \in [DownloadIds -> DownloadRow]  BY DEF DownloadsTyped, DownloadRow
<1>2. PICK j \in DownloadIds :
        /\ djob[j].status = "absent"
        /\ djob' = [djob EXCEPT ![j] = [status |-> "pending", item |-> i]]
  BY DEF InsertDownload
<1>3. /\ djob' \in [DownloadIds -> DownloadRow]
      /\ djob'[j].status = "pending" /\ djob'[j].item = i
      /\ \A k \in DownloadIds \ {j} : djob'[k] = djob[k]
  BY <1>1, <1>2 DEF DownloadRow, DownloadStatus
<1>4. \A r \in Runs : run[r].job # j  BY <1>2 DEF RunsOwn, RunOwns, DownloadIds
<1>5. RunsOwn'  BY <1>3, <1>4 DEF RunsOwn, RunOwns
<1>6. DownloadsTyped'
  BY <1>3 DEF DownloadsTyped, DownloadRow, GhostsTyped, DownloadIds
<1> QED  BY <1>2, <1>3, <1>4, <1>5, <1>6

\* The cancellation of the rows that are not processing.
LEMMA CancelState ==
  ASSUME DownloadState, SetDownloads({"pending", "claimed"}, "over"), GhostsTyped', UNCHANGED <<recovered, run>>
  PROVE  /\ DownloadsTyped' /\ RunsOwn'
         /\ \A j \in DownloadIds :
              /\ djob'[j].item = djob[j].item
              /\ djob'[j].status = IF djob[j].status \in {"pending", "claimed"} THEN "over" ELSE djob[j].status
<1> USE DEF DownloadState
<1>1. djob \in [DownloadIds -> DownloadRow]  BY DEF DownloadsTyped, DownloadRow
<1>2. djob' \in [DownloadIds -> DownloadRow]
  BY <1>1 DEF SetDownloads, RowsIn, DownloadRow, DownloadStatus
<1>3. \A j \in DownloadIds :
        /\ djob'[j].item = djob[j].item
        /\ djob'[j].status = IF djob[j].status \in {"pending", "claimed"} THEN "over" ELSE djob[j].status
  BY <1>1 DEF SetDownloads, RowsIn, DownloadRow
<1>4. RunsOwn'  BY <1>3 DEF RunsOwn, RunOwns
<1>5. DownloadsTyped'  BY <1>2 DEF DownloadsTyped, DownloadRow, GhostsTyped, DownloadIds
<1> QED  BY <1>3, <1>4, <1>5

\* The steps of the calls.
LEMMA CallTypes ==
  ASSUME CallState, CallNext
  PROVE  TablesTyped' /\ DownloadsTyped' /\ RunsOwn' /\ CallsTyped' /\ UNCHANGED <<worker, depositor, docs>>
<1> USE ScrapedAssumption DEF CallState, CallsTyped
<1> DEFINE Conclusion == TablesTyped' /\ DownloadsTyped' /\ RunsOwn' /\ CallsTyped' /\ UNCHANGED <<worker, depositor, docs>>
           CallTyped == call \in [Callers -> CallRecord]
<1>1. Discoverer \in Callers /\ Clients \subseteq Callers  BY DEF Callers
<1>2. GhostsTyped /\ DownloadState  BY DEF DownloadState, DownloadsTyped, GhostsTyped
<1>3. NoCall \in CallRecord
  BY ItemAssumption DEF NoCall, CallRecord, CallPC, AnyItem, RequestStatus
<1>4. ASSUME NEW c \in Callers, CallEnds(c)  PROVE CallTyped'
  BY <1>3, <1>4 DEF CallEnds
<1>5. ASSUME NEW c \in Callers, NEW pc \in CallPC, CallGoto(c, pc)  PROVE CallTyped'
  BY <1>5 DEF CallGoto, CallRecord
<1>6. ASSUME UNCHANGED tables, faults' = faults \/ Fault  PROVE TablesTyped'
  BY <1>2, <1>6, StillTables DEF TypedPassage, DownloadState
<1>7. ASSUME NEW i \in Items, NEW st \in ItemStatus \ {"transcribed", "depositing"}, ItemUpdated(i, st)
      PROVE  TablesTyped'
  BY <1>2, <1>7, UpdatedPassage DEF TypedPassage, DownloadState
<1>8. ASSUME NEW st \in RequestStatus, request' = st, UNCHANGED <<item, transcript, tjob, entries, faults>>
      PROVE  TablesTyped'
  BY <1>2, <1>8 DEF DownloadState, TablesTyped, JobIds
<1>9. ASSUME UNCHANGED downloads  PROVE DownloadsTyped' /\ RunsOwn'
  BY <1>2, <1>9, StillDownloads DEF downloads, GhostsTyped
<1>10. ASSUME NEW c \in Callers  PROVE call[c] \in CallRecord /\ call[c].item \in Items /\ Unfinished(c) \subseteq Items
  BY DEF CallRecord, Unfinished
<1>11. ASSUME UNCHANGED OnlyCalls, CallTyped', calls' = calls \/ Begins  PROVE Conclusion
  <2>1. TablesTyped'  BY <1>6, <1>11 DEF OnlyCalls
  <2>2. DownloadsTyped' /\ RunsOwn'  BY <1>9, <1>11 DEF OnlyCalls
  <2>3. calls' \in 0 .. MaxCalls  BY <1>11 DEF Begins
  <2> QED  BY <1>11, <2>1, <2>2, <2>3 DEF OnlyCalls, Unmoved
<1>12. CASE Discovered
  <2>1. ItemsTyped'  BY <1>2, <1>12 DEF Discovered, DownloadState, TablesTyped, ItemsTyped, ItemStatus
  <2>2. TablesTyped'  BY <1>2, <1>12, <2>1 DEF Discovered, DownloadState, TablesTyped, ItemsTyped, JobIds
  <2>3. CallTyped'  BY <1>1, <1>5, <1>12 DEF Discovered, CallPC
  <2> QED  BY <1>9, <1>12, <2>2, <2>3 DEF Discovered, Unmoved
<1>13. CASE DiscoveryRead
  <2>1. CallTyped'  BY <1>1, <1>4, <1>5, <1>13 DEF DiscoveryRead, CallPC
  <2>2. TablesTyped'  BY <1>6, <1>13 DEF DiscoveryRead
  <2>3. explored' \in BOOLEAN  BY <1>13 DEF DiscoveryRead
  <2> QED  BY <1>9, <1>13, <2>1, <2>2, <2>3 DEF DiscoveryRead, Unmoved
<1>14. CASE DiscoveryManual
  <2>1. CallTyped' /\ TablesTyped'  BY <1>1, <1>4, <1>8, <1>14 DEF DiscoveryManual, RequestStatus
  <2> QED  BY <1>9, <1>14, <2>1 DEF DiscoveryManual, Unmoved
<1>15. CASE DiscoveryAcquires
  <2>1. CallTyped' /\ TablesTyped'  BY <1>1, <1>4, <1>8, <1>15 DEF DiscoveryAcquires, RequestStatus
  <2> QED  BY <1>9, <1>15, <2>1 DEF DiscoveryAcquires, Unmoved
<1>16. CASE DiscoveryList
  <2>1. PICK chosen \in SUBSET Listed :
          call' = [call EXCEPT ![Discoverer].pc = "mark", ![Discoverer].todo = chosen]
    BY <1>16 DEF DiscoveryList
  <2>2. chosen \in SUBSET Items  BY DEF Listed
  <2>3. [call[Discoverer] EXCEPT !.pc = "mark", !.todo = chosen] \in CallRecord
    BY <1>1, <2>2 DEF CallRecord, CallPC
  <2>4. call' = [call EXCEPT ![Discoverer] = [call[Discoverer] EXCEPT !.pc = "mark", !.todo = chosen]]
    BY <2>1
  <2>5. CallTyped'  BY <1>1, <2>3, <2>4
  <2> QED  BY <1>11, <1>16, <2>5 DEF DiscoveryList
<1>17. ASSUME NEW c \in Clients, SelectRead(c)  PROVE Conclusion
  <2>1. PICK chosen \in SUBSET Listed :
          call' = [call EXCEPT ![c] = [NoCall EXCEPT !.pc = "mark", !.todo = chosen, !.status = request]]
    BY <1>17 DEF SelectRead
  <2>2. chosen \in SUBSET Items /\ request \in RequestStatus  BY <1>2 DEF Listed, DownloadState, TablesTyped
  <2>3. [NoCall EXCEPT !.pc = "mark", !.todo = chosen, !.status = request] \in CallRecord
    BY <1>3, <2>2 DEF CallRecord, CallPC, NoCall
  <2>4. CallTyped'  BY <1>1, <2>1, <2>3
  <2> QED  BY <1>11, <1>17, <2>4 DEF SelectRead
<1>18. ASSUME NEW c \in Clients, RetryRead(c)  PROVE Conclusion
  <2>1. PICK rows \in SUBSET {i \in Items : item[i] = "failed"} :
          call' = [call EXCEPT ![c] = [NoCall EXCEPT !.pc = "retry", !.todo = rows, !.scripted = rows \cap transcript]]
    BY <1>18 DEF RetryRead
  <2>2. [NoCall EXCEPT !.pc = "retry", !.todo = rows, !.scripted = rows \cap transcript] \in CallRecord
    BY <1>3, <2>1 DEF CallRecord, CallPC, NoCall
  <2>3. CallTyped'  BY <1>1, <2>1, <2>2
  <2> QED  BY <1>11, <1>18, <2>3 DEF RetryRead
<1>19. ASSUME NEW c \in Clients, CancelRead(c)  PROVE Conclusion
  BY <1>1, <1>5, <1>11, <1>19 DEF CancelRead, CallPC
<1>20. ASSUME NEW c \in Callers, SelectMark(c)  PROVE Conclusion
  <2>1. selected' \in SUBSET Items  BY <1>10, <1>20 DEF SelectMark, CallRecord
  <2>2. CallTyped' /\ TablesTyped'  BY <1>5, <1>6, <1>20 DEF SelectMark, CallPC
  <2> QED  BY <1>9, <1>20, <2>1, <2>2 DEF SelectMark, Unmoved
<1>21. ASSUME NEW c \in Callers, SelectCheck(c) \/ SelectDone(c) \/ RetryEnds(c)  PROVE Conclusion
  <2>1. CallTyped'  BY <1>4, <1>5, <1>21 DEF SelectCheck, SelectDone, RetryEnds, CallPC
  <2> QED  BY <1>11, <1>21, <2>1 DEF SelectCheck, SelectDone, RetryEnds
<1>22. ASSUME NEW c \in Callers, NEW i \in Items, SelectActive(c, i) \/ RetryActive(c, i)  PROVE Conclusion
  <2>1. CallTyped'  BY <1>22 DEF SelectActive, RetryActive, CallRecord, CallPC
  <2> QED  BY <1>11, <1>22, <2>1 DEF SelectActive, RetryActive
<1>23. ASSUME NEW c \in Callers, SelectEnqueue(c) \/ RetryInsert(c)  PROVE Conclusion
  <2>1. PICK i \in Items : i = call[c].item  BY <1>10
  <2>2. Enqueue(c, i)  BY <1>23, <2>1 DEF SelectEnqueue, RetryInsert
  <2>3. GhostsTyped'  BY <1>2, <1>23, <2>2 DEF SelectEnqueue, RetryInsert, Enqueue, GhostsTyped
  <2>4. DownloadsTyped' /\ RunsOwn'
    BY <1>2, <1>23, <2>2, <2>3, InsertState DEF Enqueue, SelectEnqueue, RetryInsert
  <2>5. CallTyped' /\ TablesTyped'  BY <1>5, <1>6, <1>23 DEF SelectEnqueue, RetryInsert, CallPC
  <2> QED  BY <1>23, <2>4, <2>5 DEF SelectEnqueue, RetryInsert, Unmoved
<1>24. ASSUME NEW c \in Callers, SelectStatus(c) \/ CancelStatus(c)  PROVE Conclusion
  <2>1. CallTyped' /\ TablesTyped'  BY <1>4, <1>8, <1>24 DEF SelectStatus, CancelStatus, RequestStatus
  <2> QED  BY <1>9, <1>24, <2>1 DEF SelectStatus, CancelStatus, Unmoved
<1>25. ASSUME NEW i \in Items, Stale(i), lost' = lost, overtaken' = overtaken  PROVE GhostsTyped'
  BY <1>2, <1>25 DEF Stale, GhostsTyped
<1>26. ASSUME NEW c \in Callers, NEW i \in Items, RetryDeposit(c, i)  PROVE Conclusion
  <2>1. CallTyped'  BY <1>26 DEF RetryDeposit, CallRecord
  <2>2. TablesTyped'
    BY <1>2, <1>26, ReadyPassage DEF RetryDeposit, DownloadState, TablesTyped, ItemsTyped, JobIds
  <2>3. DownloadsTyped' /\ RunsOwn'  BY <1>2, <1>25, <1>26, StillDownloads DEF RetryDeposit
  <2> QED  BY <1>26, <2>1, <2>2, <2>3 DEF RetryDeposit, Unmoved
<1>27. ASSUME NEW c \in Callers, RetryReset(c)  PROVE Conclusion
  <2>1. PICK i \in Items : i = call[c].item  BY <1>10
  <2>2. ItemUpdated(i, "pending_download") /\ Stale(i)  BY <1>27, <2>1 DEF RetryReset, ItemUpdated
  <2>3. CallTyped' /\ TablesTyped'  BY <1>5, <1>7, <1>27, <2>2 DEF RetryReset, CallPC, ItemStatus
  <2>4. DownloadsTyped' /\ RunsOwn'  BY <1>2, <1>25, <1>27, <2>2, StillDownloads DEF RetryReset
  <2> QED  BY <1>27, <2>3, <2>4 DEF RetryReset, Unmoved
<1>28. ASSUME NEW c \in Callers, CancelDownloads(c)  PROVE Conclusion
  <2>1. ItemsIn({"pending", "claimed"}) \subseteq Items /\ ItemsIn({"claimed"}) \subseteq Items
    BY <1>2 DEF DownloadState, DownloadsTyped, ItemsIn, RowsIn
  <2>2. GhostsTyped'  BY <1>2, <1>28, <2>1 DEF CancelDownloads, GhostsTyped
  <2>3. DownloadsTyped' /\ RunsOwn'  BY <1>2, <1>28, <2>2, CancelState DEF CancelDownloads
  <2>4. CallTyped' /\ TablesTyped'  BY <1>5, <1>6, <1>28 DEF CancelDownloads, CallPC
  <2> QED  BY <1>28, <2>3, <2>4 DEF CancelDownloads, Unmoved
<1>29. ASSUME NEW c \in Callers, CancelJobs(c)  PROVE Conclusion
  <2>1. JobsTyped'  BY <1>2, <1>29, CancelRowsType DEF CancelJobs, DownloadState, TablesTyped, JobsTyped, JobRow
  <2>2. TablesTyped'  BY <1>2, <1>29, <2>1, JobsPassage DEF CancelJobs, TypedPassage, DownloadState
  <2>3. CallTyped'  BY <1>5, <1>29 DEF CancelJobs, CallPC
  <2> QED  BY <1>9, <1>29, <2>2, <2>3 DEF CancelJobs, Unmoved
<1>30. ASSUME NEW c \in Callers, CallRaises(c)  PROVE Conclusion
  <2>1. GhostsTyped'  BY <1>2, <1>10, <1>30 DEF CallRaises, GhostsTyped
  <2>2. DownloadsTyped' /\ RunsOwn'  BY <1>2, <1>30, <2>1, StillDownloads DEF CallRaises
  <2>3. CallTyped' /\ TablesTyped'  BY <1>4, <1>6, <1>30 DEF CallRaises
  <2>4. explored' \in BOOLEAN  BY <1>30 DEF CallRaises
  <2> QED  BY <1>30, <2>2, <2>3, <2>4 DEF CallRaises, Unmoved
<1> QED
  BY <1>12, <1>13, <1>14, <1>15, <1>16, <1>17, <1>18, <1>19, <1>20, <1>21, <1>22, <1>23, <1>24, <1>26,
     <1>27, <1>28, <1>29, <1>30 DEF CallNext
-----------------------------------------------------------------------------
(* The types of the composition.                                           *)

TypeInv == TypeOK /\ RunsOwn

LEMMA TypeParts ==
  /\ TypeInv <=> CallState /\ WorkersTyped /\ DepositTyped
  /\ TypeInv' <=> /\ TablesTyped' /\ DownloadsTyped' /\ RunsOwn' /\ CallsTyped'
                  /\ WorkersTyped' /\ DepositTyped'
BY DEF TypeInv, TypeOK, CallState, DownloadState, CallsTyped, CallRecord

LEMMA StillCalls ==
  ASSUME CallsTyped, UNCHANGED Others
  PROVE  CallsTyped'
BY DEF CallsTyped, Others

LEMMA InitTypes == Init => TypeInv
<1> SUFFICES ASSUME Init PROVE TypeInv  OBVIOUS
<1> USE ItemAssumption, DownloadAssumption, DepositAssumption, ScrapedAssumption DEF Init, AnyItem
<1>1. TablesTyped
  BY DEF TablesTyped, ItemStatus, JobStatus, RequestStatus, JobIds
<1>2. DownloadsTyped /\ RunsOwn
  BY DEF DownloadsInit, DownloadsTyped, DownloadStatus, DownloadIds, RunPC, Resting, RunsOwn, RunOwns
<1>3. WorkersTyped  BY DEF WorkersInit, WorkersTyped, NoWork, WorkerPC
<1>4. DepositTyped  BY DEF DepositInit, DepositTyped, FreshDepositor, DepositorPC
<1>5. CallsTyped
  <2>1. NoCall \in CallRecord  BY DEF CallRecord, NoCall, CallPC, RequestStatus
  <2>2. call \in [Callers -> CallRecord] /\ explored \in BOOLEAN  BY <2>1
  <2>3. selected \in SUBSET Items /\ calls \in 0 .. MaxCalls /\ restarts \in 0 .. MaxRestarts  OBVIOUS
  <2> QED  BY <2>2, <2>3 DEF CallsTyped
<1> QED  BY <1>1, <1>2, <1>3, <1>4, <1>5, TypeParts DEF CallState, DownloadState

\* A restart rests every task: no job is held.
LEMMA RestartTypes ==
  ASSUME TypeInv, Restart
  PROVE  TypeInv'
<1> USE ItemAssumption, DepositAssumption, ScrapedAssumption
<1>1. CallState /\ WorkersTyped /\ DepositTyped  BY TypeParts
<1>2. TablesTyped'  BY <1>1, StillTables DEF CallState, DownloadState, Restart, TypedPassage
<1>3. \A c \in Callers : Unfinished(c) \subseteq Items
  BY <1>1 DEF CallState, CallsTyped, CallRecord, Unfinished
<1>4. GhostsTyped'
  BY <1>1, <1>3 DEF CallState, DownloadState, DownloadsTyped, GhostsTyped, Restart
<1>5. /\ run' \in [Runs -> RunRecord] /\ djob' \in [DownloadIds -> DownloadRow] /\ recovered' \in BOOLEAN
      /\ \A s \in Runs : run'[s].pc = "idle" /\ run'[s].job = 0
  BY <1>1 DEF CallState, DownloadState, DownloadsTyped, Restart, Resting, RunRecord, RunPC, AnyItem, DownloadRow
<1>6. DownloadsTyped' /\ RunsOwn'  BY <1>1, <1>4, <1>5, StillExclusive DEF CallState
<1>7. NoCall \in CallRecord /\ FreshDepositor \in [pc : DepositorPC, item : Items, attempt : 1 .. DepositAttempts]
  BY DEF NoCall, CallRecord, CallPC, AnyItem, RequestStatus, FreshDepositor, DepositorPC
<1>8. CallsTyped'  BY <1>1, <1>7 DEF CallState, CallsTyped, Restart
<1>9. WorkersTyped' /\ DepositTyped'
  BY <1>1, <1>7 DEF WorkersTyped, DepositTyped, Restart, JobIds
<1> QED  BY <1>2, <1>6, <1>8, <1>9, TypeParts

LEMMA NextTypes == TypeInv /\ [Next]_vars => TypeInv'
<1> SUFFICES ASSUME TypeInv, [Next]_vars PROVE TypeInv'  OBVIOUS
<1>1. CallState /\ DownloadState /\ TablesTyped /\ CallsTyped /\ WorkersTyped /\ DepositTyped
  BY TypeParts DEF CallState, DownloadState
<1>2. ASSUME UNCHANGED worker  PROVE WorkersTyped'  BY <1>1, <1>2 DEF WorkersTyped, JobIds
<1>3. ASSUME UNCHANGED <<depositor, docs>>  PROVE DepositTyped'  BY <1>1, <1>3 DEF DepositTyped
<1>4. ASSUME UNCHANGED downloads  PROVE DownloadsTyped' /\ RunsOwn'
  BY <1>1, <1>4, StillDownloads DEF downloads, GhostsTyped, DownloadState, DownloadsTyped
<1>5. CASE DownloadsNext /\ UNCHANGED <<worker, depositor, docs, Others>>
  <2>1. UNCHANGED Others /\ UNCHANGED worker /\ UNCHANGED <<depositor, docs>>  BY <1>5
  <2> QED  BY <1>1, <1>2, <1>3, <1>5, <2>1, DownloadsTypes, StillCalls, TypeParts
<1>6. CASE TranscriptionNext /\ UNCHANGED <<downloads, depositor, docs, Others>>
  <2>1. TablesTyped' /\ WorkersTyped'  BY <1>1, <1>6, TranscriptionTypes DEF TypedPassage
  <2>2. UNCHANGED Others /\ UNCHANGED downloads /\ UNCHANGED <<depositor, docs>>  BY <1>6
  <2> QED  BY <1>1, <1>3, <1>4, <2>1, <2>2, StillCalls, TypeParts
<1>7. CASE DepositNext /\ UNCHANGED <<downloads, worker, Others>>
  <2>1. TablesTyped' /\ DepositTyped'  BY <1>1, <1>7, DepositTypes
  <2>2. UNCHANGED Others /\ UNCHANGED downloads /\ UNCHANGED worker  BY <1>7
  <2> QED  BY <1>1, <1>2, <1>4, <2>1, <2>2, StillCalls, TypeParts
<1>8. CASE CallNext
  BY <1>1, <1>2, <1>3, <1>8, CallTypes, TypeParts
<1>9. CASE Restart
  BY <1>9, RestartTypes
<1>10. CASE UNCHANGED vars
  <2>1. UNCHANGED Others /\ UNCHANGED downloads /\ UNCHANGED worker /\ UNCHANGED <<depositor, docs>>
        /\ UNCHANGED tables /\ faults' = faults
    BY <1>10 DEF vars, Others
  <2>2. TablesTyped'  BY <1>1, <2>1, StillTables DEF TypedPassage
  <2> QED  BY <1>1, <1>2, <1>3, <1>4, <2>1, <2>2, StillCalls, TypeParts
<1> QED  BY <1>5, <1>6, <1>7, <1>8, <1>9, <1>10 DEF Next

LEMMA TypeInvariant == Spec => []TypeInv
BY InitTypes, NextTypes, PTL DEF Spec

\* Every variable of the pipeline keeps its type and no download job is run by
\* two tasks at once (claim_next_pending_job), through every cancellation, every
\* retry, every exception and every restart.
THEOREM ScrapedTypeCorrect == Spec => []TypeOK
<1>1. TypeInv => TypeOK  BY DEF TypeInv
<1> QED  BY <1>1, TypeInvariant, PTL
-----------------------------------------------------------------------------
(* What the steps do to the items and to the rows of the workers.          *)

\* A step leaves the item alone or moves it past its download and its queue.
Mild(k) ==
  \/ item'[k] = item[k]
  \/ item[k] # "none" /\ item'[k] \in ItemStatus \ {"none", "deleted", "pending_download", "queued_transcription"}

\* A row is left alone, inserted for an item that exists, or changes its status.
RowKept(j) ==
  \/ tjob'[j] = tjob[j]
  \/ tjob[j].status = "absent" /\ tjob'[j].status = "pending" /\ tjob'[j].item \in Listed
  \/ Row(j) /\ tjob'[j].item = tjob[j].item /\ tjob'[j].status \in JobStatus \ {"absent", "deleted"}

AllMild == \A k \in Items : Mild(k)
RowsKept == \A j \in JobIds : RowKept(j)

LEMMA UpdateMild ==
  ASSUME TablesTyped, NEW i \in Items,
         NEW st \in ItemStatus \ {"none", "deleted", "pending_download", "queued_transcription"}, Update(i, st)
  PROVE  AllMild
BY DEF TablesTyped, Update, Present, AllMild, Mild

LEMMA SetJobRows ==
  ASSUME TablesTyped, NEW j, NEW st \in JobStatus \ {"absent", "deleted"}, SetJob(j, st)
  PROVE  RowsKept
BY DEF TablesTyped, SetJob, RowsKept, RowKept

LEMMA InsertJobRows ==
  ASSUME TablesTyped, NEW i \in Items, InsertJob(i)
  PROVE  RowsKept
BY DEF TablesTyped, InsertJob, RowsKept, RowKept, Present, Listed

LEMMA CancelRowsKept ==
  ASSUME TablesTyped, CancelRows
  PROVE  RowsKept
BY DEF TablesTyped, CancelRows, RowsKept, RowKept, Row, JobStatus

LEMMA StillMild == UNCHANGED item => AllMild
BY DEF AllMild, Mild

LEMMA StillRows == UNCHANGED tjob => RowsKept
BY DEF RowsKept, RowKept

LEMMA TranscriptionSteps ==
  ASSUME TablesTyped, WorkersTyped, TranscriptionNext
  PROVE  AllMild /\ RowsKept
<1>1. ASSUME NEW w \in Workers, WorkerClaim(w)  PROVE AllMild /\ RowsKept
  BY <1>1, StillMild, SetJobRows DEF WorkerClaim, JobStatus
<1>2. ASSUME NEW w \in Workers, WorkerTranscribes(w) \/ WorkerRaises(w) \/ WorkerDies(w)
      PROVE  AllMild /\ RowsKept
  BY <1>2, StillMild, StillRows DEF WorkerTranscribes, WorkerRaises, WorkerDies, tables
<1>3. ASSUME NEW w \in Workers, WorkerMarksDone(w) \/ WorkerMarksFailed(w)
      PROVE  AllMild /\ RowsKept
  BY <1>3, StillMild, SetJobRows DEF WorkerMarksDone, WorkerMarksFailed, JobStatus
<1>4. ASSUME NEW w \in Workers, WorkerMarksItem(w)  PROVE AllMild /\ RowsKept
  <2>1. worker[w].item \in Items  BY DEF WorkersTyped
  <2> QED  BY <1>4, <2>1, StillRows, UpdateMild DEF WorkerMarksItem, Ready, ItemStatus
<1>5. CASE Reconcile
  BY <1>5, StillRows DEF Reconcile, FailDeadItems, Dead, AllMild, Mild, ItemStatus
<1> QED  BY <1>1, <1>2, <1>3, <1>4, <1>5 DEF TranscriptionNext, WorkerStep

LEMMA DepositSteps ==
  ASSUME TablesTyped, DepositTyped, DepositNext
  PROVE  AllMild /\ RowsKept
<1>1. depositor.item \in Items  BY DEF DepositTyped
<1>2. CASE DepositRecover
  BY <1>2, StillRows DEF DepositRecover, RequeueDepositing, AllMild, Mild, ItemStatus
<1>3. CASE DepositClaim
  BY <1>3, StillRows, UpdateMild DEF DepositClaim, ItemStatus
<1>4. CASE DepositMark \/ DepositMarkFailed
  BY <1>1, <1>4, StillRows, UpdateMild DEF DepositMark, DepositMarkFailed, ItemStatus
<1>5. CASE DepositSucceeds \/ DepositAttemptFails \/ DepositRecoverRaises \/ DepositRaises
  BY <1>5, StillMild, StillRows
     DEF DepositSucceeds, DepositAttemptFails, DepositRecoverRaises, DepositRaises, tables
<1> QED  BY <1>2, <1>3, <1>4, <1>5 DEF DepositNext, DepositStep

\* An item is written queued_transcription only by the task that has its job.
LEMMA DownloadsSteps ==
  ASSUME DownloadState, DownloadsNext
  PROVE  /\ RowsKept
         /\ \/ AllMild
            \/ \E r \in Runs :
                 /\ RunQueue(r)
                 /\ \A k \in Items : Mild(k) \/ (k = RunItem(r) /\ item[k] # "none" /\ item'[k] = "queued_transcription")
<1>1. TablesTyped /\ \A r \in Runs : RunItem(r) \in Items
  BY DEF DownloadState, DownloadsTyped, RunItem
<1>2. CASE RecoverDownloads \/ RecoverDownloadsRaises
  BY <1>2, StillMild, StillRows DEF RecoverDownloads, RecoverDownloadsRaises, tables
<1>3. ASSUME NEW r \in Runs, RunClaim(r) \/ RunStart(r) \/ RunEvent(r) \/ RunFinish(r) \/ RunRaises(r)
      PROVE  AllMild /\ RowsKept
  BY <1>3, StillMild, StillRows DEF RunClaim, RunStart, RunEvent, RunFinish, RunRaises, tables
<1>4. ASSUME NEW r \in Runs, RunInsertJob(r)  PROVE AllMild /\ RowsKept
  BY <1>1, <1>4, StillMild, InsertJobRows DEF RunInsertJob
<1>5. ASSUME NEW r \in Runs, RunFailItem(r)  PROVE AllMild /\ RowsKept
  BY <1>1, <1>5, StillRows, UpdateMild DEF RunFailItem, ItemStatus
<1>6. ASSUME NEW r \in Runs, RunQueue(r)
      PROVE  /\ RowsKept
             /\ \A k \in Items : Mild(k) \/ (k = RunItem(r) /\ item[k] # "none" /\ item'[k] = "queued_transcription")
  BY <1>1, <1>6, StillRows DEF RunQueue, Update, Present, TablesTyped, Mild
<1> QED  BY <1>2, <1>3, <1>4, <1>5, <1>6 DEF DownloadsNext
-----------------------------------------------------------------------------
(* Everything the request speaks of is an item that was discovered, and an *)
(* item of a scraped request is never deleted.                             *)

Choosing == {"check", "enqueue", "reset", "requeue"}

NoneDeleted == \A i \in Items : item[i] # "deleted"
SelectedKnown == selected \subseteq Listed
DownloadsKnown == \A j \in DownloadIds : djob[j].status # "absent" => djob[j].item \in Listed
CallKnown(c) == call[c].todo \subseteq Listed /\ (call[c].pc \in Choosing => call[c].item \in Listed)
CallsKnown == \A c \in Callers : CallKnown(c)
RowsKnown == \A j \in JobIds : tjob[j].status # "deleted" /\ (tjob[j].status # "absent" => tjob[j].item \in Listed)

Known == NoneDeleted /\ SelectedKnown /\ DownloadsKnown /\ CallsKnown /\ RowsKnown

Grows == NoneDeleted' /\ Listed \subseteq Listed'

\* The items and the rows of a step of the calls.
LEMMA CallItems ==
  ASSUME TypeInv, NoneDeleted, CallNext
  PROVE  /\ RowsKept
         /\ \/ AllMild
            \/ Discovered
            \/ \E c \in Callers : RetryReset(c) /\ \A k \in Items : k # call[c].item => item'[k] = item[k]
         /\ Grows
<1>1. TablesTyped /\ \A c \in Callers : call[c].item \in Items
  BY TypeParts DEF CallState, DownloadState, CallsTyped, CallRecord
<1>2. AllMild => Grows  BY DEF NoneDeleted, AllMild, Mild, Grows, Listed
<1>3. CASE UNCHANGED item /\ (UNCHANGED tjob \/ CancelRows)
  BY <1>1, <1>2, <1>3, StillMild, StillRows, CancelRowsKept
<1>4. CASE Discovered
  BY <1>1, <1>4, StillRows DEF Discovered, NoneDeleted, Grows, Listed
<1>5. ASSUME NEW c \in Callers, RetryReset(c)
      PROVE  RowsKept /\ Grows /\ \A k \in Items : k # call[c].item => item'[k] = item[k]
  BY <1>1, <1>5, StillRows DEF RetryReset, Update, Present, NoneDeleted, Grows, Listed, TablesTyped
<1>6. ASSUME NEW c \in Callers, NEW i \in Items, RetryDeposit(c, i)
      PROVE  RowsKept /\ Grows /\ AllMild
  BY <1>1, <1>2, <1>6, StillRows, UpdateMild DEF RetryDeposit, Ready, ItemStatus
<1>7. CASE \/ DiscoveryRead \/ DiscoveryManual \/ DiscoveryList \/ DiscoveryAcquires
           \/ \E c \in Clients : SelectRead(c) \/ RetryRead(c) \/ CancelRead(c)
  BY <1>3, <1>7 DEF DiscoveryRead, DiscoveryManual, DiscoveryList, DiscoveryAcquires, SelectRead,
                    RetryRead, CancelRead, OnlyCalls, tables
<1>8. ASSUME NEW c \in Callers,
             \/ SelectMark(c) \/ SelectCheck(c) \/ SelectEnqueue(c) \/ SelectDone(c) \/ SelectStatus(c)
             \/ RetryInsert(c) \/ RetryEnds(c) \/ CancelDownloads(c) \/ CancelJobs(c) \/ CancelStatus(c)
             \/ CallRaises(c) \/ \E i \in Items : SelectActive(c, i) \/ RetryActive(c, i)
      PROVE  UNCHANGED item /\ (UNCHANGED tjob \/ CancelRows)
  BY <1>8 DEF SelectMark, SelectCheck, SelectEnqueue, SelectDone, SelectStatus, RetryInsert, RetryEnds,
              CancelDownloads, CancelJobs, CancelStatus, CallRaises, SelectActive, RetryActive, OnlyCalls, tables
<1> QED  BY <1>3, <1>4, <1>5, <1>6, <1>7, <1>8 DEF CallNext

\* No step loses an item or the row of a job.
LEMMA StepGrows ==
  ASSUME TypeInv, NoneDeleted, [Next]_vars
  PROVE  RowsKept /\ Grows
<1>1. CallState /\ DownloadState /\ TablesTyped /\ WorkersTyped /\ DepositTyped
  BY TypeParts DEF CallState, DownloadState
<1>2. AllMild => Grows  BY DEF NoneDeleted, AllMild, Mild, Grows, Listed
<1>3. CASE DownloadsNext
  BY <1>1, <1>2, <1>3, DownloadsSteps DEF NoneDeleted, Mild, Grows, Listed
<1>4. CASE TranscriptionNext  BY <1>1, <1>2, <1>4, TranscriptionSteps
<1>5. CASE DepositNext  BY <1>1, <1>2, <1>5, DepositSteps
<1>6. CASE CallNext  BY <1>6, CallItems
<1>7. CASE Restart \/ UNCHANGED vars
  BY <1>2, <1>7, StillMild, StillRows DEF Restart, vars, tables
<1> QED  BY <1>3, <1>4, <1>5, <1>6, <1>7 DEF Next

LEMMA RowsStayKnown ==
  ASSUME Known, RowsKept, Grows
  PROVE  RowsKnown'
BY DEF Known, RowsKnown, RowsKept, RowKept, Row, Grows

\* The rows of the downloads: the same items, or a new row for a known item.
LEMMA DownloadsStayKnown ==
  ASSUME Known, Grows,
         \A j \in DownloadIds :
           \/ djob'[j].item = djob[j].item /\ (djob'[j].status # "absent" => djob[j].status # "absent")
           \/ djob'[j].item \in Listed
  PROVE  DownloadsKnown'
BY DEF Known, DownloadsKnown, Grows

\* The calls, but for one that keeps to the items it knows.
LEMMA CallStaysKnown ==
  ASSUME Known, Grows, NEW c \in Callers, \A o \in Callers \ {c} : call'[o] = call[o],
         CallKnown(c)'
  PROVE  CallsKnown'
BY DEF Known, CallsKnown, CallKnown, Grows
\* The orchestrator keeps the rows of the downloads and their items.
LEMMA DownloadsRows ==
  ASSUME DownloadState, DownloadsNext
  PROVE  \A j \in DownloadIds :
           djob'[j].item = djob[j].item /\ (djob'[j].status # "absent" => djob[j].status # "absent")
<1>1. djob \in [DownloadIds -> DownloadRow]  BY DEF DownloadState, DownloadsTyped, DownloadRow
<1>2. CASE RecoverDownloads
  BY <1>1, <1>2 DEF RecoverDownloads, SetDownloads, RowsIn, DownloadRow
<1>3. ASSUME NEW r \in Runs, RunClaim(r)
      PROVE  \A j \in DownloadIds :
               djob'[j].item = djob[j].item /\ (djob'[j].status # "absent" => djob[j].status # "absent")
  BY <1>3, RowMoves DEF RunClaim, NextDownload
<1>4. ASSUME NEW r \in Runs, RunStart(r) \/ RunFinish(r)
      PROVE  \A j \in DownloadIds :
               djob'[j].item = djob[j].item /\ (djob'[j].status # "absent" => djob[j].status # "absent")
  <2>1. run[r].job \in DownloadIds /\ djob[run[r].job].status # "absent"
    BY <1>4 DEF DownloadState, RunsOwn, RunOwns, RunStart, RunFinish, RunAt
  <2>2. PICK st \in {"processing", "over"} : SetDownload(run[r].job, st)
    BY <1>4 DEF RunStart, RunFinish
  <2>3. PICK j \in DownloadIds : j = run[r].job  BY <2>1
  <2> QED  BY <2>1, <2>2, <2>3, RowMoves
<1>5. CASE UNCHANGED djob  BY <1>5
<1> QED
  BY <1>2, <1>3, <1>4, <1>5
     DEF DownloadsNext, RecoverDownloadsRaises, RunEvent, RunInsertJob, RunQueue, RunFailItem, RunRaises

\* The calls keep to the items they know, and select and download no other.
LEMMA CallsStayKnown ==
  ASSUME TypeInv, Known, CallNext, Grows
  PROVE  SelectedKnown' /\ DownloadsKnown' /\ CallsKnown'
<1> USE DEF Known
<1> DEFINE Conclusion == SelectedKnown' /\ DownloadsKnown' /\ CallsKnown'
<1>1. DownloadState /\ call \in [Callers -> CallRecord] /\ Discoverer \in Callers /\ Clients \subseteq Callers
  BY TypeParts DEF CallState, CallsTyped, Callers
<1>2. UNCHANGED djob => DownloadsKnown'  BY DownloadsStayKnown DEF DownloadState, DownloadsTyped
<1>3. UNCHANGED selected => SelectedKnown'  BY DEF SelectedKnown, Grows
<1>4. ASSUME NEW c \in Callers, CallEnds(c)  PROVE CallsKnown'
  BY <1>1, <1>4, CallStaysKnown DEF CallEnds, CallKnown, NoCall, Choosing
<1>5. ASSUME NEW c \in Callers, NEW pc \in CallPC, CallGoto(c, pc), pc \in Choosing => call[c].item \in Listed
      PROVE  CallsKnown'
  BY <1>1, <1>5, CallStaysKnown DEF CallGoto, CallRecord, CallsKnown, CallKnown, Grows
<1>6. ASSUME NEW c \in Callers, NEW pc \in {"check", "enqueue", "reset", "requeue"}, CallAt(c, pc)
      PROVE  call[c].item \in Listed
  BY <1>6 DEF CallsKnown, CallKnown, CallAt, Choosing
<1>7. CASE Discovered \/ DiscoveryRead \/ DiscoveryManual \/ DiscoveryAcquires
  BY <1>1, <1>2, <1>3, <1>4, <1>5, <1>7
     DEF Discovered, DiscoveryRead, DiscoveryManual, DiscoveryAcquires, downloads, CallPC, Choosing
<1>8. CASE DiscoveryList
  <2>1. PICK chosen \in SUBSET Listed :
          call' = [call EXCEPT ![Discoverer].pc = "mark", ![Discoverer].todo = chosen]
    BY <1>8 DEF DiscoveryList
  <2>2. CallsKnown'  BY <1>1, <2>1, CallStaysKnown DEF CallRecord, CallKnown, Choosing, Grows
  <2> QED  BY <1>2, <1>3, <1>8, <2>2 DEF DiscoveryList, OnlyCalls, downloads
<1>9. ASSUME NEW c \in Clients, SelectRead(c)  PROVE Conclusion
  <2>1. PICK chosen \in SUBSET Listed :
          call' = [call EXCEPT ![c] = [NoCall EXCEPT !.pc = "mark", !.todo = chosen, !.status = request]]
    BY <1>9 DEF SelectRead
  <2>2. CallKnown(c)'  BY <1>1, <2>1 DEF CallKnown, NoCall, Choosing, Grows
  <2>3. CallsKnown'  BY <1>1, <2>1, <2>2, CallStaysKnown
  <2> QED  BY <1>2, <1>3, <1>9, <2>3 DEF SelectRead, OnlyCalls, downloads
<1>10. ASSUME NEW c \in Clients, RetryRead(c)  PROVE Conclusion
  <2>1. PICK rows \in SUBSET {i \in Items : item[i] = "failed"} :
          call' = [call EXCEPT ![c] = [NoCall EXCEPT !.pc = "retry", !.todo = rows, !.scripted = rows \cap transcript]]
    BY <1>10 DEF RetryRead
  <2>2. CallKnown(c)'  BY <1>1, <2>1 DEF CallKnown, NoCall, Choosing, Grows, Listed
  <2>3. CallsKnown'  BY <1>1, <2>1, <2>2, CallStaysKnown
  <2> QED  BY <1>2, <1>3, <1>10, <2>3 DEF RetryRead, OnlyCalls, downloads
<1>11. ASSUME NEW c \in Clients, CancelRead(c)  PROVE Conclusion
  BY <1>1, <1>2, <1>3, <1>5, <1>11 DEF CancelRead, OnlyCalls, downloads, CallPC, Choosing
<1>12. ASSUME NEW c \in Callers, SelectMark(c)  PROVE Conclusion
  <2>1. call[c].todo \subseteq Listed  BY DEF CallsKnown, CallKnown
  <2>2. SelectedKnown'  BY <1>12, <2>1 DEF SelectMark, SelectedKnown, Grows
  <2> QED  BY <1>2, <1>5, <1>12, <2>2 DEF SelectMark, downloads, CallPC, Choosing
<1>13. ASSUME NEW c \in Callers, SelectCheck(c) \/ SelectDone(c) \/ RetryEnds(c)  PROVE Conclusion
  <2>1. CallsKnown'
    BY <1>4, <1>5, <1>6, <1>13 DEF SelectCheck, SelectDone, RetryEnds, CallPC, Choosing
  <2> QED  BY <1>2, <1>3, <1>13, <2>1 DEF SelectCheck, SelectDone, RetryEnds, OnlyCalls, downloads
<1>14. ASSUME NEW c \in Callers, NEW i \in Items, SelectActive(c, i) \/ RetryActive(c, i)  PROVE Conclusion
  <2>1. i \in Listed /\ call[c].todo \subseteq Listed
    BY <1>14 DEF SelectActive, RetryActive, CallsKnown, CallKnown
  <2>2. CallKnown(c)' /\ \A o \in Callers \ {c} : call'[o] = call[o]
    BY <1>1, <1>14, <2>1 DEF SelectActive, RetryActive, CallRecord, CallKnown, Grows
  <2>3. CallsKnown'  BY <2>2, CallStaysKnown
  <2> QED  BY <1>2, <1>3, <1>14, <2>3 DEF SelectActive, RetryActive, OnlyCalls, downloads
<1>15. ASSUME NEW c \in Callers, SelectEnqueue(c) \/ RetryInsert(c)  PROVE Conclusion
  <2>1. call[c].item \in Listed  BY <1>6, <1>15 DEF SelectEnqueue, RetryInsert
  <2>2. PICK i \in Items : i = call[c].item /\ i \in Listed  BY <2>1 DEF Listed
  <2>3. PICK j \in DownloadIds : djob' = [djob EXCEPT ![j] = [status |-> "pending", item |-> i]]
    BY <1>15, <2>2 DEF SelectEnqueue, RetryInsert, Enqueue, InsertDownload
  <2>4. djob'[j].item = i /\ \A k \in DownloadIds \ {j} : djob'[k] = djob[k]
    BY <1>1, <2>3 DEF DownloadState, DownloadsTyped
  <2>5. DownloadsKnown'  BY <2>2, <2>4, DownloadsStayKnown
  <2>6. CallsKnown'  BY <1>5, <1>15 DEF SelectEnqueue, RetryInsert, CallPC, Choosing
  <2> QED  BY <1>3, <1>15, <2>5, <2>6 DEF SelectEnqueue, RetryInsert
<1>16. ASSUME NEW c \in Callers, SelectStatus(c) \/ CancelStatus(c) \/ CancelJobs(c)  PROVE Conclusion
  BY <1>2, <1>3, <1>4, <1>5, <1>16 DEF SelectStatus, CancelStatus, CancelJobs, downloads, CallPC, Choosing
<1>17. ASSUME NEW c \in Callers, NEW i \in Items, RetryDeposit(c, i)  PROVE Conclusion
  <2>1. CallKnown(c)' /\ \A o \in Callers \ {c} : call'[o] = call[o]
    BY <1>1, <1>17 DEF RetryDeposit, CallRecord, CallsKnown, CallKnown, Grows
  <2>2. CallsKnown'  BY <2>1, CallStaysKnown
  <2> QED  BY <1>2, <1>3, <1>17, <2>2 DEF RetryDeposit
<1>18. ASSUME NEW c \in Callers, RetryReset(c)  PROVE Conclusion
  BY <1>2, <1>3, <1>5, <1>6, <1>18 DEF RetryReset, CallPC
<1>19. ASSUME NEW c \in Callers, CancelDownloads(c)  PROVE Conclusion
  <2>1. GhostsTyped'
    BY <1>1, <1>19 DEF CancelDownloads, DownloadState, DownloadsTyped, GhostsTyped, ItemsIn, RowsIn
  <2>2. DownloadsKnown'
    BY <1>1, <1>19, <2>1, CancelState, DownloadsStayKnown DEF CancelDownloads
  <2> QED  BY <1>3, <1>5, <1>19, <2>2 DEF CancelDownloads, CallPC, Choosing
<1>20. ASSUME NEW c \in Callers, CallRaises(c)  PROVE Conclusion
  BY <1>2, <1>3, <1>4, <1>20 DEF CallRaises
<1> QED
  BY <1>7, <1>8, <1>9, <1>10, <1>11, <1>12, <1>13, <1>14, <1>15, <1>16, <1>17, <1>18, <1>19, <1>20
     DEF CallNext

LEMMA KnownNext == TypeInv /\ Known /\ [Next]_vars => Known'
<1> SUFFICES ASSUME TypeInv, Known, [Next]_vars PROVE Known'  OBVIOUS
<1>1. RowsKept /\ Grows  BY StepGrows DEF Known
<1>2. NoneDeleted' /\ RowsKnown'  BY <1>1, RowsStayKnown DEF Grows
<1>3. DownloadState  BY TypeParts DEF CallState
<1>4. UNCHANGED <<selected, call>> => SelectedKnown' /\ CallsKnown'
  BY <1>1 DEF Known, SelectedKnown, CallsKnown, CallKnown, Grows
<1>5. UNCHANGED djob => DownloadsKnown'  BY <1>1, DownloadsStayKnown
<1>6. CASE DownloadsNext /\ UNCHANGED <<worker, depositor, docs, Others>>
  <2>1. DownloadsKnown'  BY <1>1, <1>3, <1>6, DownloadsRows, DownloadsStayKnown
  <2> QED  BY <1>2, <1>4, <1>6, <2>1 DEF Known, Others
<1>7. CASE CallNext  BY <1>1, <1>2, <1>7, CallsStayKnown DEF Known
<1>8. CASE Restart
  <2>1. CallsKnown'  BY <1>8 DEF Restart, CallsKnown, CallKnown, NoCall, Choosing
  <2>2. SelectedKnown'  BY <1>1, <1>8 DEF Restart, Known, SelectedKnown, Grows
  <2> QED  BY <1>2, <1>5, <1>8, <2>1, <2>2 DEF Restart, Known
<1>9. CASE UNCHANGED <<djob, selected, call>>
  BY <1>2, <1>4, <1>5, <1>9 DEF Known
<1> QED  BY <1>6, <1>7, <1>8, <1>9 DEF Next, vars, downloads, Others

LEMMA InitKnown == Init => Known
BY DEF Init, DownloadsInit, Known, NoneDeleted, SelectedKnown, DownloadsKnown, CallsKnown, CallKnown, RowsKnown,
       NoCall, Choosing
-----------------------------------------------------------------------------
(* Selected items are not forgotten.  An active row is not enough for the  *)
(* induction: the task that holds it may be about to close it.  A task at  *)
(* "finish" has seen to its item, or given it up.                          *)

InFlight(j) == djob[j].status \in {"pending", "claimed", "processing"}
Awaited(i) ==
  \E j \in DownloadIds : djob[j].item = i /\ InFlight(j) /\ \A r \in Runs : ~(RunAt(r, "finish") /\ run[r].job = j)
Handled(i) == \E c \in Callers : call[c].pc \in {"check", "enqueue", "requeue"} /\ call[c].item = i
Listing(i) == \E c \in Callers : call[c].pc \in {"mark", "next", "check", "enqueue"} /\ i \in call[c].todo

Owned(i) ==
  (i \notin lost /\ item[i] = "pending_download") =>
    /\ i \in selected => Active(i) \/ Handled(i) \/ Listing(i)
    /\ Active(i) => Awaited(i) \/ Handled(i)

AllOwned == \A i \in Items : Owned(i)

LEMMA ActiveRow == \A i : Active(i) <=> \E j \in DownloadIds : djob[j].item = i /\ InFlight(j)
BY DEF Active, InFlight

LEMMA AwaitedActive == \A i : Awaited(i) => Active(i)
BY DEF Active, Awaited, InFlight

\* A step that leaves the calls and the selection alone and takes no item back.
LEMMA RunOwned ==
  ASSUME NEW i \in Items, Owned(i), UNCHANGED <<selected, call>>, lost \subseteq lost',
         item'[i] = "pending_download" => item[i] = "pending_download",
         (i \notin lost' /\ item'[i] = "pending_download") =>
           /\ Active(i)' => Active(i) \/ Awaited(i)'
           /\ Awaited(i) => Awaited(i)'
           /\ Active(i) => Active(i)' \/ ~Awaited(i)
  PROVE  Owned(i)'
<1>1. Awaited(i)' => Active(i)'  BY DEF Active, Awaited, InFlight
<1>2. (Handled(i) <=> Handled(i)') /\ (Listing(i) <=> Listing(i)')  BY DEF Handled, Listing
<1> QED  BY <1>1, <1>2 DEF Owned

\* A task that moves without touching the rows: it comes to "finish" only for
\* an item that is given up or written.
LEMMA GotoOwned ==
  ASSUME DownloadState, NEW i \in Items, Owned(i), UNCHANGED <<djob, selected, call>>, lost \subseteq lost',
         item'[i] = "pending_download" => item[i] = "pending_download",
         NEW r \in Runs, \A s \in Runs \ {r} : run'[s] = run[s],
         ~RunAt(r, "idle"),
         (i \notin lost' /\ item'[i] = "pending_download") => run'[r].pc # "finish" \/ (i # RunItem(r) /\ run'[r].job = run[r].job)
  PROVE  Owned(i)'
<1>1. Active(i)' <=> Active(i)  BY DEF Active
<1>2. run[r].job \in DownloadIds /\ djob[run[r].job].item = RunItem(r)
  BY DEF DownloadState, RunsOwn, RunOwns, RunAt, RunItem
<1>3. ASSUME i \notin lost', item'[i] = "pending_download", Awaited(i)  PROVE Awaited(i)'
  <2>1. PICK j \in DownloadIds :
          djob[j].item = i /\ InFlight(j) /\ \A s \in Runs : ~(RunAt(s, "finish") /\ run[s].job = j)
    BY <1>3 DEF Awaited
  <2>2. \A s \in Runs : ~(run'[s].pc = "finish" /\ run'[s].job = j)
    BY <1>2, <1>3, <2>1 DEF RunAt
  <2> QED  BY <2>1, <2>2 DEF Awaited, InFlight, RunAt
<1> QED  BY <1>1, <1>3, RunOwned

\* The orchestrator forgets no item but those it gives up.
LEMMA DownloadsOwned ==
  ASSUME TypeInv, Known, NEW i \in Items, Owned(i), DownloadsNext, UNCHANGED Others
  PROVE  Owned(i)'
<1>1. /\ DownloadState /\ djob \in [DownloadIds -> DownloadRow] /\ run \in [Runs -> RunRecord]
      /\ UNCHANGED <<selected, call>>
  BY TypeParts DEF CallState, DownloadState, DownloadsTyped, DownloadRow, RunRecord, Others
<1>2. item'[i] = "pending_download" => item[i] = "pending_download"
  BY <1>1, DownloadsSteps DEF AllMild, Mild
<1>3. ASSUME NEW r \in Runs, ~RunAt(r, "idle")
      PROVE  /\ run[r].job \in DownloadIds /\ djob[run[r].job].item = RunItem(r)
             /\ RunItem(r) \in Items /\ Present(RunItem(r))
  <2>1. /\ run[r].job \in DownloadIds /\ djob[run[r].job].item = RunItem(r)
        /\ djob[run[r].job].status # "absent"
    BY <1>1, <1>3 DEF DownloadState, RunsOwn, RunOwns, RunAt, RunItem
  <2>2. RunItem(r) \in Listed  BY <2>1 DEF Known, DownloadsKnown
  <2> QED  BY <2>1, <2>2 DEF Listed, Present, Known, NoneDeleted
<1>4. CASE RecoverDownloads
  <2>1. \A j \in DownloadIds : djob'[j].item = djob[j].item /\ (InFlight(j) <=> InFlight(j)')
    BY <1>1, <1>4 DEF RecoverDownloads, SetDownloads, RowsIn, InFlight, DownloadRow
  <2>2. (Active(i)' <=> Active(i)) /\ (Awaited(i)' <=> Awaited(i))
    BY <1>4, <2>1, ActiveRow DEF Active, InFlight, Awaited, RecoverDownloads, RunAt
  <2> QED  BY <1>1, <1>2, <1>4, <2>2, RunOwned DEF RecoverDownloads
<1>5. CASE RecoverDownloadsRaises
  <2>1. (Active(i)' <=> Active(i)) /\ (Awaited(i)' <=> Awaited(i))
    BY <1>5 DEF Active, InFlight, Awaited, RecoverDownloadsRaises, RunAt
  <2> QED  BY <1>1, <1>2, <1>5, <2>1, RunOwned DEF RecoverDownloadsRaises
<1>6. ASSUME NEW r \in Runs, RunClaim(r)  PROVE Owned(i)'
  <2>1. PICK j \in DownloadIds :
          /\ djob[j].status = "pending"
          /\ SetDownload(j, "claimed")
          /\ run' = [run EXCEPT ![r] = [pc |-> "start", job |-> j, item |-> djob[j].item]]
    BY <1>6 DEF RunClaim, NextDownload
  <2>2. \A k \in DownloadIds : djob'[k].item = djob[k].item /\ (InFlight(k) <=> InFlight(k)')
    BY <1>1, <2>1, RowMoves DEF InFlight
  <2>3. \A s \in Runs : run'[s].pc = "finish" => run'[s] = run[s]  BY <1>1, <2>1
  <2>4. (Active(i)' <=> Active(i)) /\ (Awaited(i) => Awaited(i)')
    BY <2>2, <2>3 DEF Active, InFlight, Awaited, RunAt
  <2> QED  BY <1>1, <1>2, <1>6, <2>4, RunOwned DEF RunClaim
<1>7. ASSUME NEW r \in Runs, RunStart(r)  PROVE Owned(i)'
  <2>1. ~RunAt(r, "idle")  BY <1>7 DEF RunStart, RunAt
  <2>2. PICK j \in DownloadIds : j = run[r].job /\ djob[j].item = RunItem(r)  BY <1>3, <2>1
  <2>3. /\ \A k \in DownloadIds : djob'[k].item = djob[k].item
        /\ \A k \in DownloadIds : IF k = j THEN djob'[k].status = "processing" ELSE djob'[k] = djob[k]
    BY <1>1, <1>7, <2>2, RowMoves DEF RunStart
  <2>4. /\ run'[r].pc = "container" /\ run'[r].job = j
        /\ \A s \in Runs \ {r} : run'[s] = run[s] /\ run[s].job # j
    BY <1>1, <1>7, <2>1, <2>2, RunMoves DEF RunStart, RunPC, RunAt, DownloadState, DownloadsTyped
  <2>5. \A k \in DownloadIds : InFlight(k) => InFlight(k)'  BY <2>3 DEF InFlight
  <2>6. \A s \in Runs : run'[s].pc = "finish" => run'[s] = run[s] /\ run[s].job # j  BY <2>4
  <2>7. Awaited(i) => Awaited(i)'  BY <2>3, <2>5, <2>6 DEF Awaited, RunAt
  <2>8. Active(i) => Active(i)'  BY <2>3, <2>5 DEF Active, InFlight
  <2>9. ASSUME Active(i)'  PROVE Active(i) \/ Awaited(i)'
    <3>1. PICK k \in DownloadIds : djob'[k].item = i /\ InFlight(k)'  BY <2>9 DEF Active, InFlight
    <3>2. CASE k # j  BY <2>3, <3>1, <3>2 DEF Active, InFlight
    <3>3. CASE k = j  BY <2>6, <3>1, <3>3 DEF Awaited, RunAt
    <3> QED  BY <3>2, <3>3
  <2> QED  BY <1>1, <1>2, <1>7, <2>7, <2>8, <2>9, RunOwned DEF RunStart
<1>8. ASSUME NEW r \in Runs, RunEvent(r) \/ RunRaises(r)  PROVE Owned(i)'
  <2>1. ~RunAt(r, "idle") /\ UNCHANGED djob /\ lost \subseteq lost'
    BY <1>8 DEF RunEvent, RunRaises, RunAt
  <2>2. /\ \A s \in Runs \ {r} : run'[s] = run[s]
        /\ run'[r].pc = "finish" => run'[r].job = run[r].job /\ RunItem(r) \in lost'
    BY <1>1, <1>8 DEF RunEvent, RunRaises, RunGoto, RunRests, Resting, RunRecord
  <2> QED  BY <1>1, <1>2, <2>1, <2>2, GotoOwned
<1>9. ASSUME NEW r \in Runs, RunInsertJob(r)  PROVE Owned(i)'
  <2>1. ~RunAt(r, "idle") /\ UNCHANGED djob /\ lost \subseteq lost'
    BY <1>9 DEF RunInsertJob, RunAt
  <2>2. (\A s \in Runs \ {r} : run'[s] = run[s]) /\ run'[r].pc = "queue"
    BY <1>1, <1>9 DEF RunInsertJob, RunGoto, RunRecord
  <2> QED  BY <1>1, <1>2, <2>1, <2>2, GotoOwned
<1>10. ASSUME NEW r \in Runs, RunQueue(r) \/ RunFailItem(r)  PROVE Owned(i)'
  <2>1. ~RunAt(r, "idle") /\ UNCHANGED djob /\ lost \subseteq lost'
    BY <1>10 DEF RunQueue, RunFailItem, RunAt
  <2>2. (\A s \in Runs \ {r} : run'[s] = run[s]) /\ run'[r].job = run[r].job
    BY <1>1, <1>10 DEF RunQueue, RunFailItem, RunGoto, RunRecord
  <2>3. item'[RunItem(r)] \in {"queued_transcription", "failed"}
    BY <1>1, <1>3, <1>10, <2>1 DEF RunQueue, RunFailItem, Update, DownloadState, TablesTyped
  <2> QED  BY <1>1, <1>2, <2>1, <2>2, <2>3, GotoOwned
<1>11. ASSUME NEW r \in Runs, RunFinish(r)  PROVE Owned(i)'
  <2>1. RunAt(r, "finish") /\ ~RunAt(r, "idle")  BY <1>11 DEF RunFinish, RunAt
  <2>2. PICK j \in DownloadIds : j = run[r].job  BY <1>3, <2>1
  <2>3. /\ \A k \in DownloadIds : djob'[k].item = djob[k].item
        /\ \A k \in DownloadIds : IF k = j THEN djob'[k].status = "over" ELSE djob'[k] = djob[k]
    BY <1>1, <1>11, <2>2, RowMoves DEF RunFinish
  <2>4. \A s \in Runs : run'[s].pc = "finish" => run'[s] = run[s]
    BY <1>1, <1>11, RunEnds DEF RunFinish
  <2>5. Awaited(i) => Awaited(i)'
    BY <2>1, <2>2, <2>3, <2>4 DEF Awaited, InFlight, RunAt
  <2>6. Active(i)' => Active(i)  BY <2>3 DEF Active
  <2>7. Awaited(i)' => Active(i)'  BY DEF Active, Awaited, InFlight
  <2> QED  BY <1>1, <1>2, <1>11, <2>5, <2>6, <2>7, RunOwned DEF RunFinish
<1> QED  BY <1>4, <1>5, <1>6, <1>7, <1>8, <1>9, <1>10, <1>11 DEF DownloadsNext
\* A call that leaves the rows alone and takes no item back: what it was going
\* to do for the item it still does, or has found a download for it.
LEMMA CallOwned ==
  ASSUME NEW i \in Items, Owned(i), UNCHANGED <<djob, run>>, lost \subseteq lost',
         item'[i] = "pending_download" => item[i] = "pending_download",
         i \in selected' => i \in selected \/ Listing(i)',
         (i \notin lost' /\ item'[i] = "pending_download") =>
           /\ Handled(i) => Handled(i)'
           /\ Listing(i) => Listing(i)' \/ Handled(i)' \/ Active(i)
  PROVE  Owned(i)'
<1>1. (Active(i)' <=> Active(i)) /\ (Awaited(i)' <=> Awaited(i))
  BY DEF Active, Awaited, InFlight, RunAt
<1> QED  BY <1>1 DEF Owned

\* A call moves from a place where it holds no item to another.
LEMMA OtherCalls ==
  ASSUME NEW i \in Items, NEW c \in Callers, \A o \in Callers \ {c} : call'[o] = call[o]
  PROVE  /\ (call[c].pc \in {"check", "enqueue", "requeue"} => call[c].item # i) => (Handled(i) => Handled(i)')
         /\ (call[c].pc \in {"mark", "next", "check", "enqueue"} => i \notin call[c].todo) => (Listing(i) => Listing(i)')
BY DEF Handled, Listing

\* The calls forget no item but those they give up.
LEMMA CallsOwned ==
  ASSUME TypeInv, Known, NEW i \in Items, Owned(i), CallNext
  PROVE  Owned(i)'
<1>1. DownloadState /\ call \in [Callers -> CallRecord] /\ Discoverer \in Callers /\ Clients \subseteq Callers
  BY TypeParts DEF CallState, CallsTyped, Callers
<1>2. ASSUME NEW c \in Callers  PROVE call[c].item \in Items /\ call[c].todo \subseteq Items
  BY <1>1 DEF CallRecord
<1>3. CASE Discovered
  <2>1. /\ \A o \in Callers \ {Discoverer} : call'[o] = call[o]
        /\ call[Discoverer].pc = "idle"
        /\ UNCHANGED <<djob, run, lost, selected>>
    BY <1>1, <1>3 DEF Discovered, CallAt, CallGoto, downloads
  <2>2. CASE item[i] = "none"
    <3>1. i \notin Listed  BY <2>2 DEF Listed
    <3>2. i \notin selected  BY <3>1 DEF Known, SelectedKnown
    <3>3. ~Active(i)  BY <3>1 DEF Known, DownloadsKnown, Active
    <3>4. ~Active(i)'  BY <2>1, <3>3 DEF Active
    <3> QED  BY <2>1, <3>2, <3>4 DEF Owned
  <2>3. CASE item[i] # "none"
    <3>1. item'[i] = item[i]  BY <1>3, <2>3 DEF Discovered
    <3> QED  BY <1>1, <2>1, <3>1, OtherCalls, CallOwned
  <2> QED  BY <2>2, <2>3
<1>4. ASSUME NEW c \in Callers, call[c].pc \notin {"mark", "next", "check", "enqueue", "requeue"},
             \A o \in Callers \ {c} : call'[o] = call[o],
             UNCHANGED <<djob, run, selected>>, lost \subseteq lost',
             item'[i] = "pending_download" => item[i] = "pending_download"
      PROVE  Owned(i)'
  BY <1>4, OtherCalls, CallOwned
<1>5. CASE DiscoveryRead \/ DiscoveryManual \/ DiscoveryList \/ DiscoveryAcquires
  <2>1. /\ UNCHANGED <<item, djob, run, lost, selected>>
        /\ call[Discoverer].pc \notin {"mark", "next", "check", "enqueue", "requeue"}
        /\ \A o \in Callers \ {Discoverer} : call'[o] = call[o]
    BY <1>1, <1>5 DEF DiscoveryRead, DiscoveryManual, DiscoveryList, DiscoveryAcquires, CallAt, CallGoto, CallEnds,
                      OnlyCalls, tables, downloads
  <2> QED  BY <1>1, <1>4, <2>1
<1>6. ASSUME NEW c \in Clients, SelectRead(c) \/ RetryRead(c) \/ CancelRead(c)  PROVE Owned(i)'
  <2>1. /\ UNCHANGED <<item, djob, run, lost, selected>>
        /\ call[c].pc \notin {"mark", "next", "check", "enqueue", "requeue"}
        /\ \A o \in Callers \ {c} : call'[o] = call[o]
    BY <1>1, <1>6 DEF SelectRead, RetryRead, CancelRead, CallAt, CallGoto, OnlyCalls, tables, downloads
  <2> QED  BY <1>1, <1>4, <1>6, <2>1
<1>7. ASSUME NEW c \in Callers, SelectMark(c)  PROVE Owned(i)'
  <2>1. /\ UNCHANGED <<item, djob, run, lost>>
        /\ call[c].pc = "mark" /\ call'[c].pc = "next" /\ call'[c].todo = call[c].todo
        /\ \A o \in Callers \ {c} : call'[o] = call[o]
        /\ selected' = selected \cup call[c].todo
    BY <1>1, <1>7 DEF SelectMark, CallAt, CallGoto, tables, downloads, CallRecord
  <2>2. Handled(i) => Handled(i)'  BY <2>1, OtherCalls
  <2>3. Listing(i) => Listing(i)'  BY <2>1, OtherCalls DEF Listing
  <2>4. i \in call[c].todo => Listing(i)'  BY <2>1 DEF Listing
  <2> QED  BY <2>1, <2>2, <2>3, <2>4, CallOwned
<1>8. ASSUME NEW c \in Callers, NEW k \in Items, SelectActive(c, k)  PROVE Owned(i)'
  <2>1. /\ UNCHANGED <<item, djob, run, lost, selected>>
        /\ call[c].pc = "next" /\ call'[c].todo = call[c].todo \ {k} /\ call'[c].item = k
        /\ call'[c].pc = IF Active(k) THEN "next" ELSE "check"
        /\ \A o \in Callers \ {c} : call'[o] = call[o]
    BY <1>1, <1>8 DEF SelectActive, CallAt, OnlyCalls, tables, downloads, CallRecord
  <2>2. Handled(i) => Handled(i)'  BY <2>1, OtherCalls
  <2>3. ASSUME Listing(i)  PROVE Listing(i)' \/ Handled(i)' \/ Active(i)
    <3>1. CASE i \notin call[c].todo  BY <2>1, <2>3, <3>1, OtherCalls
    <3>2. CASE i \in call[c].todo /\ i = k  BY <2>1, <3>2 DEF Handled
    <3>3. CASE i \in call[c].todo /\ i # k  BY <2>1, <3>3 DEF Listing
    <3> QED  BY <3>1, <3>2, <3>3
  <2> QED  BY <2>1, <2>2, <2>3, CallOwned
<1>9. ASSUME NEW c \in Callers, SelectCheck(c)  PROVE Owned(i)'
  <2>1. /\ UNCHANGED <<item, djob, run, lost, selected>>
        /\ call[c].pc = "check" /\ call'[c].pc = (IF item[call[c].item] = "pending_download" THEN "enqueue" ELSE "next")
        /\ call'[c].todo = call[c].todo /\ call'[c].item = call[c].item
        /\ \A o \in Callers \ {c} : call'[o] = call[o]
    BY <1>1, <1>9 DEF SelectCheck, CallAt, CallGoto, OnlyCalls, tables, downloads, CallRecord
  <2>2. ASSUME Handled(i), item[i] = "pending_download"  PROVE Handled(i)'
    BY <2>1, <2>2, OtherCalls DEF Handled
  <2>3. Listing(i) => Listing(i)'  BY <2>1 DEF Listing
  <2> QED  BY <2>1, <2>2, <2>3, CallOwned
<1>10. ASSUME NEW c \in Callers, SelectEnqueue(c) \/ RetryInsert(c)  PROVE Owned(i)'
  <2>1. PICK k \in Items : k = call[c].item  BY <1>2
  <2>2. Enqueue(c, k)  BY <1>10, <2>1 DEF SelectEnqueue, RetryInsert
  <2>3. GhostsTyped'
    BY <1>1, <1>10, <2>2 DEF SelectEnqueue, RetryInsert, Enqueue, DownloadState, DownloadsTyped, GhostsTyped
  <2>4. PICK j \in DownloadIds :
          /\ djob[j].status = "absent" /\ djob'[j].status = "pending" /\ djob'[j].item = k
          /\ \A m \in DownloadIds \ {j} : djob'[m] = djob[m]
          /\ \A r \in Runs : run[r].job # j
    BY <1>1, <1>10, <2>2, <2>3, InsertState DEF SelectEnqueue, RetryInsert, Enqueue
  <2>5. /\ UNCHANGED <<item, run, selected>> /\ lost' = lost \ {k}
        /\ call[c].pc \in {"enqueue", "requeue"} /\ call'[c].todo = call[c].todo
        /\ call'[c].pc = IF call[c].pc = "enqueue" THEN "next" ELSE "retry"
        /\ \A o \in Callers \ {c} : call'[o] = call[o]
    BY <1>1, <1>10, <2>2 DEF SelectEnqueue, RetryInsert, Enqueue, CallAt, CallGoto, tables, CallRecord
  <2>6. CASE i = k
    <3>1. Active(i)' /\ Awaited(i)'
      BY <2>4, <2>5, <2>6 DEF Active, Awaited, InFlight, RunAt
    <3> QED  BY <3>1 DEF Owned
  <2>7. CASE i # k
    <3>1. Handled(i) => Handled(i)'  BY <2>1, <2>5, <2>7, OtherCalls
    <3>2. Listing(i) => Listing(i)'  BY <2>5 DEF Listing
    <3>3. Active(i)' => Active(i)  BY <2>4, <2>7 DEF Active
    <3>4. (Active(i) => Active(i)') /\ (Awaited(i) => Awaited(i)')
      BY <2>4, <2>5 DEF Active, Awaited, InFlight, RunAt
    <3> QED  BY <2>5, <2>7, <3>1, <3>2, <3>3, <3>4 DEF Owned
  <2> QED  BY <2>6, <2>7
<1>11. ASSUME NEW c \in Callers, SelectDone(c)  PROVE Owned(i)'
  <2>1. /\ UNCHANGED <<item, djob, run, lost, selected>>
        /\ call[c].pc = "next" /\ call[c].todo = {}
        /\ \A o \in Callers \ {c} : call'[o] = call[o]
    BY <1>1, <1>11 DEF SelectDone, CallAt, CallGoto, CallEnds, OnlyCalls, tables, downloads
  <2> QED  BY <2>1, OtherCalls, CallOwned
<1>12. ASSUME NEW c \in Callers, SelectStatus(c) \/ CancelStatus(c) \/ CancelJobs(c) \/ RetryEnds(c)  PROVE Owned(i)'
  <2>1. /\ UNCHANGED <<item, djob, run, lost, selected>>
        /\ call[c].pc \notin {"mark", "next", "check", "enqueue", "requeue"}
        /\ \A o \in Callers \ {c} : call'[o] = call[o]
    BY <1>1, <1>12 DEF SelectStatus, CancelStatus, CancelJobs, RetryEnds, CallAt, CallGoto, CallEnds,
                       OnlyCalls, tables, downloads
  <2> QED  BY <1>4, <2>1
<1>13. ASSUME NEW c \in Callers, NEW k \in Items, RetryDeposit(c, k) \/ RetryActive(c, k)  PROVE Owned(i)'
  <2>1. /\ UNCHANGED <<djob, run, lost, selected>>
        /\ call[c].pc \notin {"mark", "next", "check", "enqueue", "requeue"}
        /\ \A o \in Callers \ {c} : call'[o] = call[o]
    BY <1>1, <1>13 DEF RetryDeposit, RetryActive, CallAt, OnlyCalls, tables, downloads
  <2>2. item'[i] = "pending_download" => item[i] = "pending_download"
    BY <1>1, <1>13 DEF RetryDeposit, RetryActive, Ready, Update, OnlyCalls, tables, DownloadState, TablesTyped
  <2> QED  BY <1>4, <2>1, <2>2
<1>14. ASSUME NEW c \in Callers, RetryReset(c)  PROVE Owned(i)'
  <2>1. /\ UNCHANGED <<djob, run, lost, selected>>
        /\ call[c].pc = "reset" /\ call'[c].pc = "requeue" /\ call'[c].item = call[c].item
        /\ \A o \in Callers \ {c} : call'[o] = call[o]
    BY <1>1, <1>14 DEF RetryReset, CallAt, CallGoto, CallRecord
  <2>2. CASE i = call[c].item
    <3>1. Handled(i)'  BY <2>1, <2>2 DEF Handled
    <3> QED  BY <3>1 DEF Owned
  <2>3. CASE i # call[c].item
    <3>1. item'[i] = item[i]  BY <1>1, <1>14, <2>3 DEF RetryReset, Update, DownloadState, TablesTyped
    <3> QED  BY <1>4, <2>1, <3>1
  <2> QED  BY <2>2, <2>3
<1>15. ASSUME NEW c \in Callers, CancelDownloads(c)  PROVE Owned(i)'
  <2>1. GhostsTyped'
    BY <1>1, <1>15 DEF CancelDownloads, DownloadState, DownloadsTyped, GhostsTyped, ItemsIn, RowsIn
  <2>2. \A j \in DownloadIds :
          /\ djob'[j].item = djob[j].item
          /\ djob'[j].status = IF djob[j].status \in {"pending", "claimed"} THEN "over" ELSE djob[j].status
    BY <1>1, <1>15, <2>1, CancelState DEF CancelDownloads
  <2>3. /\ UNCHANGED <<item, run, selected>> /\ lost' = lost \cup ItemsIn({"pending", "claimed"})
        /\ call[c].pc \notin {"mark", "next", "check", "enqueue", "requeue"}
        /\ \A o \in Callers \ {c} : call'[o] = call[o]
    BY <1>1, <1>15 DEF CancelDownloads, CallAt, CallGoto, tables
  <2>4. ASSUME i \notin lost', NEW j \in DownloadIds, djob[j].item = i
        PROVE  djob'[j].status = djob[j].status
    BY <2>2, <2>3, <2>4 DEF ItemsIn, RowsIn
  <2>5. ASSUME i \notin lost'
        PROVE  (Active(i)' <=> Active(i)) /\ (Awaited(i)' <=> Awaited(i))
    BY <2>2, <2>3, <2>4, <2>5 DEF Active, Awaited, InFlight, RunAt
  <2>6. (Handled(i) => Handled(i)') /\ (Listing(i) => Listing(i)')  BY <2>3, OtherCalls
  <2> QED  BY <2>3, <2>5, <2>6 DEF Owned
<1>16. ASSUME NEW c \in Callers, CallRaises(c)  PROVE Owned(i)'
  <2>1. /\ UNCHANGED <<item, djob, run, selected>> /\ lost' = lost \cup Unfinished(c)
        /\ \A o \in Callers \ {c} : call'[o] = call[o]
    BY <1>1, <1>16 DEF CallRaises, CallEnds, tables
  <2>2. ASSUME i \notin lost'
        PROVE  /\ call[c].pc \in {"check", "enqueue", "requeue"} => call[c].item # i
               /\ i \notin call[c].todo
    BY <2>1, <2>2 DEF Unfinished
  <2> QED  BY <2>1, <2>2, OtherCalls, CallOwned
<1> QED
  BY <1>3, <1>5, <1>6, <1>7, <1>8, <1>9, <1>10, <1>11, <1>12, <1>13, <1>14, <1>15, <1>16 DEF CallNext

\* A restart gives up what the calls had begun.
LEMMA RestartOwned ==
  ASSUME TypeInv, NEW i \in Items, Owned(i), Restart
  PROVE  Owned(i)'
<1>1. UNCHANGED <<item, djob, selected>> /\ \A r \in Runs : run'[r].pc = "idle"
  BY DEF Restart, tables, Resting
<1>2. (Active(i)' <=> Active(i)) /\ (Active(i) => Awaited(i)')
  BY <1>1 DEF Active, Awaited, InFlight, RunAt
<1>3. i \notin lost' => i \notin lost /\ ~Handled(i) /\ ~Listing(i)
  BY DEF Restart, Unfinished, Handled, Listing
<1> QED  BY <1>1, <1>2, <1>3 DEF Owned

LEMMA OwnedNext == TypeInv /\ Known /\ AllOwned /\ [Next]_vars => AllOwned'
<1> SUFFICES ASSUME TypeInv, Known, AllOwned, [Next]_vars, NEW i \in Items  PROVE Owned(i)'
  BY DEF AllOwned
<1>1. Owned(i) /\ TablesTyped /\ WorkersTyped /\ DepositTyped
  BY TypeParts DEF AllOwned, CallState, DownloadState
<1>2. ASSUME UNCHANGED <<downloads, selected, call>>, AllMild  PROVE Owned(i)'
  <2>1. item'[i] = "pending_download" => item[i] = "pending_download"  BY <1>2 DEF AllMild, Mild
  <2>2. Handled(i) => Handled(i)'  BY <1>2 DEF Handled
  <2>3. Listing(i) => Listing(i)'  BY <1>2 DEF Listing
  <2> QED  BY <1>1, <1>2, <2>1, <2>2, <2>3, CallOwned DEF downloads
<1>3. CASE DownloadsNext /\ UNCHANGED <<worker, depositor, docs, Others>>
  <2>1. UNCHANGED Others  BY <1>3
  <2> QED  BY <1>1, <1>3, <2>1, DownloadsOwned
<1>4. CASE TranscriptionNext /\ UNCHANGED <<downloads, depositor, docs, Others>>
  BY <1>1, <1>2, <1>4, TranscriptionSteps DEF Others
<1>5. CASE DepositNext /\ UNCHANGED <<downloads, worker, Others>>
  BY <1>1, <1>2, <1>5, DepositSteps DEF Others
<1>6. CASE CallNext  BY <1>1, <1>6, CallsOwned
<1>7. CASE Restart  BY <1>1, <1>7, RestartOwned
<1>8. CASE UNCHANGED vars  BY <1>2, <1>8, StillMild DEF vars, tables
<1> QED  BY <1>3, <1>4, <1>5, <1>6, <1>7, <1>8 DEF Next

LEMMA InitOwned == Init => AllOwned
BY DEF Init, AllOwned, Owned

\* A selected item that waits for its download always has one on the way or a
\* call about to see to it (select_items, auto_select, retry_failed, recovery).
THEOREM DownloadsAreOwned == Spec => []DownloadOwned
<1>1. AllOwned /\ TypeInv => DownloadOwned
  BY TypeParts DEF AllOwned, Owned, DownloadOwned, Handled, Listing, Unfinished, CallState, CallsTyped
<1>2. TypeInv /\ Known /\ AllOwned /\ [Next]_vars => Known' /\ AllOwned'
  BY KnownNext, OwnedNext
<1> QED  BY InitKnown, InitOwned, TypeInvariant, <1>1, <1>2, PTL DEF Spec
-----------------------------------------------------------------------------
(* Items queued for their transcription are answered for.  A row that is   *)
(* not done will be, or lets the reconciliation or the cancellation speak  *)
(* for the item; one that is done has a worker that has yet to write the   *)
(* item.                                                                   *)

WorkerOwns(w) ==
  worker[w].pc # "idle" =>
    worker[w].job \in JobIds /\ Row(worker[w].job) /\ tjob[worker[w].job].item = worker[w].item

\* A task that is about to write its item queued has inserted a row for it.
RunQueues(r) == run[r].pc = "queue" => JobsOf(RunItem(r)) # {}

NotDone(i) == \E j \in JobsOf(i) : tjob[j].status # "done"
Writing(i) == \E w \in Workers : WorkerAt(w, "mark_item") /\ worker[w].item = i

Answered(i) ==
  (i \notin overtaken /\ item[i] = "queued_transcription" /\ faults = 0) => NotDone(i) \/ Writing(i)

Queued ==
  /\ \A w \in Workers : WorkerOwns(w)
  /\ \A r \in Runs : RunQueues(r)
  /\ \A i \in Items : Answered(i)

\* A row that is inserted stays, with its item.
LEMMA RowsStay ==
  ASSUME TablesTyped, RowsKept, NEW j \in JobIds, Row(j)
  PROVE  Row(j)' /\ tjob'[j].item = tjob[j].item
BY DEF TablesTyped, RowsKept, RowKept, Row

LEMMA JobsStay ==
  ASSUME TablesTyped, RowsKept, NEW i \in Items, JobsOf(i) # {}
  PROVE  JobsOf(i)' # {}
BY RowsStay DEF JobsOf

LEMMA WorkerStays ==
  ASSUME TablesTyped, RowsKept, NEW w \in Workers, WorkerOwns(w),
         worker'[w].pc # "idle" => /\ worker[w].pc # "idle"
                                   /\ worker'[w].job = worker[w].job /\ worker'[w].item = worker[w].item
  PROVE  WorkerOwns(w)'
<1> SUFFICES ASSUME worker'[w].pc # "idle"
             PROVE  /\ worker'[w].job \in JobIds /\ Row(worker[w].job)'
                    /\ worker'[w].job = worker[w].job
                    /\ tjob'[worker[w].job].item = worker'[w].item
  BY DEF WorkerOwns, Row
<1>1. PICK j \in JobIds : j = worker[w].job /\ Row(j) /\ tjob[j].item = worker[w].item
  BY DEF WorkerOwns
<1>2. Row(j)' /\ tjob'[j].item = tjob[j].item  BY <1>1, RowsStay
<1> QED  BY <1>1, <1>2 DEF Row

\* Only the end of a job makes its row done.
NoneEnds == \A j \in JobIds : Row(j) /\ tjob[j].status # "done" => tjob'[j].status # "done"

LEMMA SetJobEnds ==
  ASSUME TablesTyped, NEW j, NEW st \in JobStatus \ {"done"}, SetJob(j, st)
  PROVE  NoneEnds
BY DEF TablesTyped, SetJob, NoneEnds

LEMMA CancelRowsEnds ==
  ASSUME TablesTyped, CancelRows
  PROVE  NoneEnds
BY DEF TablesTyped, CancelRows, NoneEnds

LEMMA InsertJobEnds ==
  ASSUME TablesTyped, NEW i \in Items, InsertJob(i)
  PROVE  NoneEnds
BY DEF TablesTyped, InsertJob, NoneEnds

LEMMA StillEnds == UNCHANGED tjob => NoneEnds
BY DEF NoneEnds

\* A step that ends no job, puts no item in the queue and interrupts no worker
\* that has yet to write the item.
LEMMA StaysAnswered ==
  ASSUME TablesTyped, RowsKept, NoneEnds, NEW i \in Items, Answered(i),
         overtaken \subseteq overtaken', faults' = 0 => faults = 0,
         item'[i] = "queued_transcription" => item[i] = "queued_transcription",
         Writing(i) => Writing(i)' \/ item'[i] # "queued_transcription" \/ faults' # 0
  PROVE  Answered(i)'
<1>1. ASSUME NotDone(i)  PROVE NotDone(i)'
  <2>1. PICK j \in JobIds : Row(j) /\ tjob[j].item = i /\ tjob[j].status # "done"
    BY <1>1 DEF NotDone, JobsOf
  <2>2. Row(j)' /\ tjob'[j].item = i /\ tjob'[j].status # "done"
    BY <2>1, RowsStay DEF NoneEnds
  <2> QED  BY <2>2 DEF NotDone, JobsOf
<1> QED  BY <1>1 DEF Answered

LEMMA FaultCounts ==
  ASSUME TablesTyped, Fault
  PROVE  faults' # 0
BY ItemAssumption DEF TablesTyped, Fault
LEMMA RunStays ==
  ASSUME DownloadState, RowsKept, NEW r \in Runs, RunQueues(r), run'[r].pc = "queue" => run'[r] = run[r]
  PROVE  RunQueues(r)'
<1>1. TablesTyped  BY DEF DownloadState
<1>2. PICK i \in Items : i = RunItem(r)  BY DEF DownloadState, DownloadsTyped, RunItem
<1>3. JobsOf(i) # {} => JobsOf(i)' # {}  BY <1>1, JobsStay
<1> QED  BY <1>2, <1>3 DEF RunQueues, RunItem, JobsOf, Row

\* The steps of the workers: the one that ends a job has yet to write its item.
LEMMA TranscriptionQueued ==
  ASSUME TypeInv, Known, Queued, TranscriptionNext, UNCHANGED downloads
  PROVE  Queued'
<1> USE DEF Queued
<1>1. /\ DownloadState /\ TablesTyped /\ WorkersTyped /\ \A w \in Workers : worker[w].item \in Items
      /\ UNCHANGED <<run, overtaken>>
  BY TypeParts DEF CallState, DownloadState, WorkersTyped, downloads
<1>2. AllMild /\ RowsKept  BY <1>1, TranscriptionSteps
<1>3. \A r \in Runs : RunQueues(r)'  BY <1>1, <1>2, RunStays
<1>4. \A i \in Items : item'[i] = "queued_transcription" => item[i] = "queued_transcription"
  BY <1>2 DEF AllMild, Mild
<1>5. ASSUME NEW w \in Workers, \A o \in Workers \ {w} : worker'[o] = worker[o],
             NEW i \in Items, Writing(i), WorkerAt(w, "mark_item") => worker[w].item # i
      PROVE  Writing(i)'
  BY <1>5 DEF Writing, WorkerAt
<1>6. ASSUME NEW w \in Workers, \A o \in Workers \ {w} : worker'[o] = worker[o],
             worker'[w].pc # "idle" => /\ worker[w].pc # "idle"
                                       /\ worker'[w].job = worker[w].job /\ worker'[w].item = worker[w].item
      PROVE  \A o \in Workers : WorkerOwns(o)'
  BY <1>1, <1>2, <1>6, WorkerStays
<1>7. ASSUME NEW w \in Workers, WorkerClaim(w)  PROVE Queued'
  <2>1. PICK j \in JobIds :
          /\ tjob[j].status = "pending"
          /\ SetJob(j, "claimed")
          /\ worker' = [worker EXCEPT ![w] = [pc |-> "transcribe", job |-> j, item |-> tjob[j].item]]
    BY <1>7 DEF WorkerClaim
  <2>2. /\ worker'[w].job = j /\ worker'[w].item = tjob[j].item /\ \A o \in Workers \ {w} : worker'[o] = worker[o]
        /\ worker[w].pc = "idle" /\ Row(j)
    BY <1>1, <1>7, <2>1 DEF WorkersTyped, WorkerClaim, WorkerAt, Row
  <2>3. WorkerOwns(w)'  BY <1>1, <1>2, <2>2, RowsStay DEF WorkerOwns, Row
  <2>4. ASSUME NEW o \in Workers \ {w}  PROVE WorkerOwns(o)'
    BY <1>1, <1>2, <2>2, WorkerStays
  <2>5. NoneEnds  BY <1>1, <2>1, SetJobEnds DEF JobStatus
  <2>6. \A i \in Items : Writing(i) => Writing(i)'  BY <1>5, <2>2 DEF WorkerAt
  <2>7. \A i \in Items : Answered(i)'
    BY <1>1, <1>2, <1>4, <1>7, <2>5, <2>6, StaysAnswered DEF WorkerClaim
  <2> QED  BY <1>3, <2>3, <2>4, <2>7
<1>8. ASSUME NEW w \in Workers, WorkerTranscribes(w)  PROVE Queued'
  <2>1. /\ \A o \in Workers \ {w} : worker'[o] = worker[o]
        /\ worker[w].pc = "transcribe" /\ worker'[w].job = worker[w].job /\ worker'[w].item = worker[w].item
    BY <1>1, <1>8 DEF WorkersTyped, WorkerTranscribes, WorkerAt, WorkerGoto
  <2>2. \A i \in Items : Writing(i) => Writing(i)'  BY <1>5, <2>1 DEF WorkerAt
  <2>3. \A i \in Items : Answered(i)'
    BY <1>1, <1>2, <1>4, <1>8, <2>2, StillEnds, StaysAnswered DEF WorkerTranscribes, tables
  <2> QED  BY <1>3, <1>6, <2>1, <2>3
<1>9. ASSUME NEW w \in Workers, WorkerMarksDone(w)  PROVE Queued'
  <2>1. /\ \A o \in Workers \ {w} : worker'[o] = worker[o]
        /\ worker[w].pc = "mark_done" /\ worker'[w].pc = "mark_item"
        /\ worker'[w].job = worker[w].job /\ worker'[w].item = worker[w].item
        /\ SetJob(worker[w].job, "done")
    BY <1>1, <1>9 DEF WorkersTyped, WorkerMarksDone, WorkerAt, WorkerGoto
  <2>2. PICK j \in JobIds : j = worker[w].job /\ Row(j) /\ tjob[j].item = worker[w].item
    BY <2>1 DEF WorkerOwns
  <2>3. \A k \in JobIds \ {j} : tjob'[k] = tjob[k]  BY <1>1, <2>1, <2>2 DEF SetJob, TablesTyped
  <2>4. ASSUME NEW i \in Items, Answered(i)  PROVE Answered(i)'
    <3>1. CASE i = worker[w].item
      <4>1. Writing(i)'  BY <2>1, <3>1 DEF Writing, WorkerAt
      <4> QED  BY <4>1 DEF Answered
    <3>2. CASE i # worker[w].item
      <4>1. NotDone(i) => NotDone(i)'  BY <2>2, <2>3, <3>2 DEF NotDone, JobsOf, Row
      <4>2. Writing(i) => Writing(i)'  BY <1>5, <2>1, <3>2
      <4> QED  BY <1>1, <1>9, <4>1, <4>2, <2>4 DEF Answered, WorkerMarksDone
    <3> QED  BY <3>1, <3>2
  <2> QED  BY <1>3, <1>6, <2>1, <2>4
<1>10. ASSUME NEW w \in Workers, WorkerMarksItem(w)  PROVE Queued'
  <2>1. /\ \A o \in Workers \ {w} : worker'[o] = worker[o]
        /\ worker[w].pc = "mark_item" /\ worker'[w].pc = "idle"
    BY <1>1, <1>10 DEF WorkersTyped, WorkerMarksItem, WorkerAt, WorkerRests, NoWork
  <2>2. PICK k \in Items : k = worker[w].item  BY <1>1
  <2>3. item'[k] # "queued_transcription"
    BY <1>1, <1>10, <2>2 DEF WorkerMarksItem, Ready, Update, Present, TablesTyped
  <2>4. \A i \in Items : Writing(i) => Writing(i)' \/ i = k  BY <1>5, <2>1, <2>2
  <2>5. \A i \in Items : Answered(i)'
    BY <1>1, <1>2, <1>4, <1>10, <2>3, <2>4, StillEnds, StaysAnswered DEF WorkerMarksItem
  <2> QED  BY <1>3, <1>6, <2>1, <2>5
<1>11. ASSUME NEW w \in Workers, WorkerMarksFailed(w)  PROVE Queued'
  <2>1. /\ \A o \in Workers \ {w} : worker'[o] = worker[o]
        /\ worker[w].pc = "mark_failed" /\ worker'[w].pc = "idle"
    BY <1>1, <1>11 DEF WorkersTyped, WorkerMarksFailed, WorkerAt, WorkerRests, NoWork
  <2>2. NoneEnds  BY <1>1, <1>11, SetJobEnds DEF WorkerMarksFailed, JobStatus
  <2>3. \A i \in Items : Writing(i) => Writing(i)'  BY <1>5, <2>1 DEF WorkerAt
  <2>4. \A i \in Items : Answered(i)'
    BY <1>1, <1>2, <1>4, <1>11, <2>2, <2>3, StaysAnswered DEF WorkerMarksFailed
  <2> QED  BY <1>3, <1>6, <2>1, <2>4
<1>12. ASSUME NEW w \in Workers, WorkerRaises(w) \/ WorkerDies(w)  PROVE Queued'
  <2>1. /\ \A o \in Workers \ {w} : worker'[o] = worker[o]
        /\ worker'[w].pc # "idle" => /\ worker[w].pc # "idle"
                                     /\ worker'[w].job = worker[w].job /\ worker'[w].item = worker[w].item
    BY <1>1, <1>12 DEF WorkersTyped, WorkerRaises, WorkerDies, WorkerGoto, WorkerRests, NoWork
  <2>2. faults' # 0  BY <1>1, <1>12, FaultCounts DEF WorkerRaises, WorkerDies
  <2>3. \A i \in Items : Answered(i)'  BY <2>2 DEF Answered
  <2> QED  BY <1>3, <1>6, <2>1, <2>3
<1>13. CASE Reconcile
  <2>1. \A w \in Workers : WorkerOwns(w)'  BY <1>1, <1>2, <1>13, WorkerStays DEF Reconcile
  <2>2. \A i \in Items : Writing(i) => Writing(i)'  BY <1>13 DEF Reconcile, Writing, WorkerAt
  <2>3. \A i \in Items : Answered(i)'
    BY <1>1, <1>2, <1>4, <1>13, <2>2, StillEnds, StaysAnswered DEF Reconcile
  <2> QED  BY <1>3, <2>1, <2>3
<1> QED  BY <1>7, <1>8, <1>9, <1>10, <1>11, <1>12, <1>13 DEF TranscriptionNext, WorkerStep
\* The workers are left alone and nothing is put in the queue.
LEMMA StaysQueued ==
  ASSUME TypeInv, Queued, RowsKept, NoneEnds, UNCHANGED worker,
         \A r \in Runs : RunQueues(r)',
         overtaken \subseteq overtaken', faults' = 0 => faults = 0,
         \A i \in Items : item'[i] = "queued_transcription" => item[i] = "queued_transcription"
  PROVE  Queued'
<1>1. TablesTyped  BY TypeParts DEF CallState, DownloadState
<1>2. \A w \in Workers : WorkerOwns(w)'  BY <1>1, WorkerStays DEF Queued
<1>3. \A i \in Items : Writing(i) => Writing(i)'  BY DEF Writing, WorkerAt
<1>4. \A i \in Items : Answered(i)'  BY <1>1, <1>3, StaysAnswered DEF Queued
<1> QED  BY <1>2, <1>4 DEF Queued

\* The steps of the orchestrator: an item is put in the queue once its job is
\* inserted, and is marked when no job of it is running any more.
LEMMA DownloadsQueued ==
  ASSUME TypeInv, Known, Queued, DownloadsNext, UNCHANGED worker
  PROVE  Queued'
<1>1. DownloadState /\ TablesTyped /\ run \in [Runs -> RunRecord]
  BY TypeParts DEF CallState, DownloadState, DownloadsTyped, RunRecord
<1>2. RowsKept  BY <1>1, DownloadsSteps
<1>3. ASSUME NEW r \in Runs, run'[r].pc # "queue", \A s \in Runs \ {r} : run'[s] = run[s]
      PROVE  \A s \in Runs : RunQueues(s)'
  <2>1. RunQueues(r)'  BY <1>3 DEF RunQueues
  <2>2. \A s \in Runs \ {r} : RunQueues(s)'  BY <1>1, <1>2, <1>3, RunStays DEF Queued
  <2> QED  BY <2>1, <2>2
<1>4. CASE RecoverDownloads \/ RecoverDownloadsRaises
  <2>1. UNCHANGED <<item, tjob, run, overtaken>> /\ (faults' = 0 => faults = 0)
    BY <1>1, <1>4, FaultCounts DEF RecoverDownloads, RecoverDownloadsRaises, tables
  <2>2. \A s \in Runs : RunQueues(s)'  BY <1>1, <1>2, <2>1, RunStays DEF Queued
  <2> QED  BY <1>2, <2>1, <2>2, StillEnds, StaysQueued
<1>5. ASSUME NEW r \in Runs, RunClaim(r) \/ RunStart(r) \/ RunEvent(r) \/ RunFinish(r) \/ RunRaises(r)
      PROVE  Queued'
  <2>1. UNCHANGED <<item, tjob, overtaken>> /\ (faults' = 0 => faults = 0)
    BY <1>1, <1>5, FaultCounts DEF RunClaim, RunStart, RunEvent, RunFinish, RunRaises, tables
  <2>2. run'[r].pc # "queue" /\ \A s \in Runs \ {r} : run'[s] = run[s]
    BY <1>1, <1>5 DEF RunClaim, RunStart, RunEvent, RunFinish, RunRaises, RunGoto, RunRests, Resting, RunRecord
  <2>3. \A s \in Runs : RunQueues(s)'  BY <1>3, <2>2
  <2> QED  BY <1>2, <2>1, <2>3, StillEnds, StaysQueued
<1>6. ASSUME NEW r \in Runs, RunFailItem(r)  PROVE Queued'
  <2>1. run'[r].pc # "queue" /\ \A s \in Runs \ {r} : run'[s] = run[s]
    BY <1>1, <1>6 DEF RunFailItem, RunGoto, RunRecord
  <2>2. \A s \in Runs : RunQueues(s)'  BY <1>3, <2>1
  <2>3. \A i \in Items : item'[i] = "queued_transcription" => item[i] = "queued_transcription"
    BY <1>1, <1>6 DEF RunFailItem, Update, TablesTyped
  <2> QED  BY <1>2, <1>6, <2>2, <2>3, StillEnds, StaysQueued DEF RunFailItem
<1>7. ASSUME NEW r \in Runs, RunInsertJob(r)  PROVE Queued'
  <2>1. PICK i \in Items : i = RunItem(r)  BY <1>1 DEF RunItem, RunRecord
  <2>2. InsertJob(i) /\ run'[r].item = i /\ \A s \in Runs \ {r} : run'[s] = run[s]
    BY <1>1, <1>7, <2>1 DEF RunInsertJob, RunItem, RunGoto, RunRecord
  <2>3. PICK j \in JobIds : tjob' = [tjob EXCEPT ![j] = [status |-> "pending", item |-> i]]
    BY <2>2 DEF InsertJob
  <2>4. tjob'[j].status = "pending" /\ tjob'[j].item = i  BY <1>1, <2>3 DEF TablesTyped
  <2>5. RunQueues(r)'  BY <2>2, <2>4 DEF RunQueues, RunItem, JobsOf, Row
  <2>6. \A s \in Runs \ {r} : RunQueues(s)'  BY <1>1, <1>2, <2>2, RunStays DEF Queued
  <2>7. NoneEnds  BY <1>1, <2>2, InsertJobEnds
  <2> QED  BY <1>2, <1>7, <2>5, <2>6, <2>7, StaysQueued DEF RunInsertJob
<1>8. ASSUME NEW r \in Runs, RunQueue(r)  PROVE Queued'
  <2>1. PICK k \in Items : k = RunItem(r)  BY <1>1 DEF RunItem, RunRecord
  <2>2. JobsOf(k) # {}  BY <1>8, <2>1 DEF Queued, RunQueues, RunQueue, RunAt
  <2>3. UNCHANGED <<tjob, faults, worker>> /\ (overtaken' = IF Running(k) = {} THEN overtaken \cup {k} ELSE overtaken)
    BY <1>8, <2>1, <2>2 DEF RunQueue
  <2>4. run'[r].pc # "queue" /\ \A s \in Runs \ {r} : run'[s] = run[s]
    BY <1>1, <1>8 DEF RunQueue, RunGoto, RunRecord
  <2>5. \A s \in Runs : RunQueues(s)'  BY <1>3, <2>4
  <2>6. \A w \in Workers : WorkerOwns(w)'  BY <1>1, <1>2, <2>3, WorkerStays DEF Queued
  <2>7. ASSUME NEW i \in Items  PROVE Answered(i)'
    <3>1. CASE i = k
      <4>1. k \notin overtaken' => NotDone(k)  BY <2>3 DEF Running, NotDone
      <4>2. NotDone(k) => NotDone(k)'  BY <2>3 DEF NotDone, JobsOf, Row
      <4> QED  BY <3>1, <4>1, <4>2 DEF Answered
    <3>2. CASE i # k
      <4>1. item'[i] = item[i]  BY <1>1, <1>8, <2>1, <3>2 DEF RunQueue, Update, TablesTyped
      <4>2. Writing(i) => Writing(i)'  BY <2>3 DEF Writing, WorkerAt
      <4> QED  BY <1>1, <1>2, <2>3, <4>1, <4>2, StillEnds, StaysAnswered DEF Queued
    <3> QED  BY <3>1, <3>2
  <2> QED  BY <2>5, <2>6, <2>7 DEF Queued
<1> QED  BY <1>4, <1>5, <1>6, <1>7, <1>8 DEF DownloadsNext

LEMMA DepositQueued ==
  ASSUME TypeInv, Queued, DepositNext, UNCHANGED <<worker, run, overtaken>>
  PROVE  Queued'
<1>1. DownloadState /\ TablesTyped /\ DepositTyped  BY TypeParts DEF CallState, DownloadState
<1>2. AllMild /\ RowsKept  BY <1>1, DepositSteps
<1>3. UNCHANGED tjob
  BY DEF DepositNext, DepositStep, DepositRecover, DepositClaim, DepositSucceeds, DepositAttemptFails,
         DepositMark, DepositMarkFailed, DepositRecoverRaises, DepositRaises, tables
<1>4. faults' = faults \/ Fault
  BY DEF DepositNext, DepositStep, DepositRecover, DepositClaim, DepositSucceeds, DepositAttemptFails,
         DepositMark, DepositMarkFailed, DepositRecoverRaises, DepositRaises
<1>5. faults' = 0 => faults = 0  BY <1>1, <1>4, FaultCounts
<1>6. \A r \in Runs : RunQueues(r)'  BY <1>1, <1>2, RunStays DEF Queued
<1>7. \A i \in Items : item'[i] = "queued_transcription" => item[i] = "queued_transcription"
  BY <1>2 DEF AllMild, Mild
<1> QED  BY <1>2, <1>3, <1>5, <1>6, <1>7, StillEnds, StaysQueued

\* The calls end transcription jobs, and insert none.
LEMMA CallsRows ==
  ASSUME CallNext
  PROVE  UNCHANGED <<run, overtaken>> /\ (UNCHANGED tjob \/ CancelRows) /\ (faults' = faults \/ Fault)
<1>1. CASE \/ Discovered \/ DiscoveryRead \/ DiscoveryManual \/ DiscoveryList \/ DiscoveryAcquires
           \/ \E c \in Clients : SelectRead(c) \/ RetryRead(c) \/ CancelRead(c)
  BY <1>1 DEF Discovered, DiscoveryRead, DiscoveryManual, DiscoveryList, DiscoveryAcquires,
              SelectRead, RetryRead, CancelRead, OnlyCalls, tables, downloads
<1>2. ASSUME NEW c \in Callers,
             \/ SelectMark(c) \/ SelectCheck(c) \/ SelectEnqueue(c) \/ SelectDone(c) \/ SelectStatus(c)
             \/ RetryInsert(c) \/ \E i \in Items : SelectActive(c, i)
      PROVE  UNCHANGED <<run, overtaken, tjob, faults>>
  BY <1>2 DEF SelectMark, SelectCheck, SelectEnqueue, SelectDone, SelectStatus, RetryInsert, SelectActive,
              OnlyCalls, tables, downloads
<1>3. ASSUME NEW c \in Callers,
             \/ RetryReset(c) \/ RetryEnds(c) \/ CancelDownloads(c) \/ CancelJobs(c) \/ CancelStatus(c)
             \/ CallRaises(c) \/ \E i \in Items : RetryDeposit(c, i) \/ RetryActive(c, i)
      PROVE  UNCHANGED <<run, overtaken>> /\ (UNCHANGED tjob \/ CancelRows) /\ (faults' = faults \/ Fault)
  BY <1>3 DEF RetryReset, RetryEnds, CancelDownloads, CancelJobs, CancelStatus, CallRaises,
              RetryDeposit, RetryActive, OnlyCalls, tables, downloads
<1> QED  BY <1>1, <1>2, <1>3 DEF CallNext

\* The calls put nothing in the queue; a cancellation ends no job as done.
LEMMA CallsQueued ==
  ASSUME TypeInv, Known, Queued, CallNext
  PROVE  Queued'
<1>1. DownloadState /\ TablesTyped  BY TypeParts DEF CallState, DownloadState
<1>2. UNCHANGED worker  BY CallTypes, TypeParts
<1>3. RowsKept  BY CallItems DEF Known
<1>4. UNCHANGED <<run, overtaken>> /\ (UNCHANGED tjob \/ CancelRows) /\ (faults' = faults \/ Fault)
  BY CallsRows
<1>5. NoneEnds  BY <1>1, <1>4, StillEnds, CancelRowsEnds
<1>6. faults' = 0 => faults = 0  BY <1>1, <1>4, FaultCounts
<1>7. \A r \in Runs : RunQueues(r)'  BY <1>1, <1>3, <1>4, RunStays DEF Queued
<1>8. \A i \in Items : item'[i] = "queued_transcription" => item[i] = "queued_transcription"
  <2>1. CASE AllMild  BY <2>1 DEF AllMild, Mild
  <2>2. CASE Discovered  BY <2>2 DEF Discovered
  <2>3. ASSUME NEW c \in Callers, RetryReset(c), \A k \in Items : k # call[c].item => item'[k] = item[k]
        PROVE  \A i \in Items : item'[i] = "queued_transcription" => item[i] = "queued_transcription"
    BY <1>1, <2>3 DEF RetryReset, Update, TablesTyped
  <2> QED  BY <2>1, <2>2, <2>3, CallItems DEF Known
<1> QED  BY <1>2, <1>3, <1>4, <1>5, <1>6, <1>7, <1>8, StaysQueued

LEMMA QueuedNext == TypeInv /\ Known /\ Queued /\ [Next]_vars => Queued'
<1> SUFFICES ASSUME TypeInv, Known, Queued, [Next]_vars PROVE Queued'  OBVIOUS
<1>1. DownloadState /\ RowsKept  BY TypeParts, StepGrows DEF CallState, Known
<1>2. CASE DownloadsNext /\ UNCHANGED <<worker, depositor, docs, Others>>
  BY <1>2, DownloadsQueued
<1>3. CASE TranscriptionNext /\ UNCHANGED <<downloads, depositor, docs, Others>>
  BY <1>3, TranscriptionQueued
<1>4. CASE DepositNext /\ UNCHANGED <<downloads, worker, Others>>
  BY <1>4, DepositQueued DEF downloads
<1>5. CASE CallNext  BY <1>5, CallsQueued
<1>6. CASE Restart \/ UNCHANGED vars
  <2>1. UNCHANGED <<item, tjob, faults, worker, overtaken>>
    BY <1>6 DEF Restart, vars, tables, downloads
  <2>2. \A r \in Runs : run'[r].pc = "queue" => run'[r] = run[r]
    BY <1>6 DEF Restart, vars, downloads, Resting
  <2>3. \A r \in Runs : RunQueues(r)'  BY <1>1, <2>2, RunStays DEF Queued
  <2> QED  BY <1>1, <2>1, <2>3, StillEnds, StaysQueued
<1> QED  BY <1>2, <1>3, <1>4, <1>5, <1>6 DEF Next

LEMMA InitQueued == Init => Queued
BY DEF Init, DownloadsInit, WorkersInit, Resting, NoWork, Queued, WorkerOwns, RunQueues, Answered

\* Without an exception, an item queued for its transcription has a job that
\* will answer for it, that was cancelled, or that has failed and lets
\* fail_items_with_dead_transcription_jobs see it; or it is the known case of a
\* job over before its item was written (handle_item_done).
THEOREM QueuedAreServed == Spec => []QueuedServed
<1>1. Queued /\ TypeInv => QueuedServed
  <2> SUFFICES ASSUME Queued, TypeInv, NEW i \in Items \ overtaken,
                      item[i] = "queued_transcription", faults = 0
               PROVE  \/ Served(i)
                      \/ \E j \in JobsOf(i) : tjob[j].status = "cancelled"
                      \/ Writing(i)
    BY DEF QueuedServed, Writing
  <2>1. NotDone(i) \/ Writing(i)  BY DEF Queued, Answered
  <2>2. ASSUME NEW j \in JobsOf(i), tjob[j].status # "done"
        PROVE  Served(i) \/ tjob[j].status = "cancelled"
    <3>1. tjob[j].status \in JobStatus /\ tjob[j].status \notin {"absent", "deleted"}
      BY TypeParts DEF CallState, DownloadState, TablesTyped, JobsOf, Row
    <3> QED  BY <2>2, <3>1 DEF Served, Running, JobStatus
  <2> QED  BY <2>1, <2>2 DEF NotDone
<1>2. TypeInv /\ Known /\ Queued /\ [Next]_vars => Known' /\ Queued'
  BY KnownNext, QueuedNext
<1> QED  BY InitKnown, InitQueued, TypeInvariant, <1>1, <1>2, PTL DEF Spec
-----------------------------------------------------------------------------
(* The account and the ownership of the deposits.                          *)

\* The downloads write no item "transcribed" or "depositing".
LEMMA DownloadsPassage ==
  ASSUME DownloadState, DownloadsNext
  PROVE  Passage /\ (faults' = faults \/ Fault)
<1>1. TablesTyped /\ \A r \in Runs : RunItem(r) \in Items
  BY DEF DownloadState, DownloadsTyped, RunItem
<1>2. CASE RecoverDownloads \/ RecoverDownloadsRaises
  BY <1>1, <1>2, StillPassage DEF RecoverDownloads, RecoverDownloadsRaises, tables
<1>3. ASSUME NEW r \in Runs,
             RunClaim(r) \/ RunStart(r) \/ RunEvent(r) \/ RunInsertJob(r) \/ RunFinish(r) \/ RunRaises(r)
      PROVE  Passage /\ (faults' = faults \/ Fault)
  BY <1>1, <1>3, StillPassage DEF RunClaim, RunStart, RunEvent, RunInsertJob, RunFinish, RunRaises, tables
<1>4. ASSUME NEW r \in Runs, RunQueue(r) \/ RunFailItem(r)
      PROVE  Passage /\ (faults' = faults \/ Fault)
  BY <1>1, <1>4, UpdatedPassage
     DEF RunQueue, RunFailItem, ItemUpdated, TypedPassage, ItemStatus
<1> QED  BY <1>2, <1>3, <1>4 DEF DownloadsNext

\* The calls make an item "transcribed" only when they count its passage.
LEMMA CallsPassage ==
  ASSUME CallState, CallNext
  PROVE  Passage /\ (faults' = faults \/ Fault)
<1>1. TablesTyped /\ \A c \in Callers : call[c].item \in Items
  BY DEF CallState, DownloadState, CallsTyped, CallRecord
<1>2. CASE Discovered
  <2>1. /\ \A k \in Items : item'[k] = item[k] \/ item'[k] = "pending_download"
        /\ "pending_download" \in ItemStatus \ {"transcribed", "depositing"}
    BY <1>2 DEF Discovered, ItemStatus
  <2> QED  BY <1>1, <1>2, <2>1, UpdatePassage DEF Discovered
<1>3. CASE \/ DiscoveryRead \/ DiscoveryManual \/ DiscoveryList \/ DiscoveryAcquires
           \/ \E c \in Clients : SelectRead(c) \/ RetryRead(c) \/ CancelRead(c)
  BY <1>1, <1>3, StillPassage
     DEF DiscoveryRead, DiscoveryManual, DiscoveryList, DiscoveryAcquires,
         SelectRead, RetryRead, CancelRead, OnlyCalls, tables
<1>4. ASSUME NEW c \in Callers,
             \/ SelectMark(c) \/ SelectCheck(c) \/ SelectEnqueue(c) \/ SelectDone(c) \/ SelectStatus(c)
             \/ RetryInsert(c) \/ RetryEnds(c) \/ CancelDownloads(c) \/ CancelJobs(c) \/ CancelStatus(c)
             \/ CallRaises(c) \/ \E i \in Items : SelectActive(c, i) \/ RetryActive(c, i)
      PROVE  Passage /\ (faults' = faults \/ Fault)
  BY <1>1, <1>4, StillPassage
     DEF SelectMark, SelectCheck, SelectEnqueue, SelectDone, SelectStatus, RetryInsert, RetryEnds,
         CancelDownloads, CancelJobs, CancelStatus, CallRaises, SelectActive, RetryActive, OnlyCalls, tables
<1>5. ASSUME NEW c \in Callers, RetryReset(c)
      PROVE  Passage /\ (faults' = faults \/ Fault)
  BY <1>1, <1>5, UpdatedPassage DEF RetryReset, ItemUpdated, TypedPassage, ItemStatus
<1>6. ASSUME NEW c \in Callers, NEW i \in Items, RetryDeposit(c, i)
      PROVE  Passage /\ (faults' = faults \/ Fault)
  BY <1>1, <1>6, ReadyPassage DEF RetryDeposit
<1> QED  BY <1>2, <1>3, <1>4, <1>5, <1>6 DEF CallNext

\* A step is one of the deposit worker, a passage of another component, or one
\* that moves no item and leaves the worker alone or starts it again.
LEMMA DepositOrPassage ==
  ASSUME TypeInv, [Next]_vars
  PROVE  /\ TablesTyped /\ DepositTyped /\ TablesTyped'
         /\ \/ DepositNext
            \/ Passage /\ UNCHANGED <<depositor, docs>> /\ (faults' = 0 => faults = 0)
            \/ depositor' = FreshDepositor /\ UNCHANGED <<item, entries, docs, faults>>
<1>1. TablesTyped /\ DepositTyped /\ TablesTyped' /\ CallState /\ DownloadState /\ WorkersTyped
  BY NextTypes, TypeParts DEF CallState, DownloadState
<1>2. CASE DownloadsNext /\ UNCHANGED <<worker, depositor, docs, Others>>
  <2>1. Passage /\ (faults' = faults \/ Fault)  BY <1>1, <1>2, DownloadsPassage
  <2> QED  BY <1>1, <1>2, <2>1, FaultCounts
<1>3. CASE TranscriptionNext /\ UNCHANGED <<downloads, depositor, docs, Others>>
  <2>1. Passage  BY <1>1, <1>3, TranscriptionTypes DEF TypedPassage
  <2>2. faults' = faults \/ Fault
    BY <1>3 DEF TranscriptionNext, WorkerStep, WorkerClaim, WorkerTranscribes, WorkerMarksDone,
                WorkerMarksItem, WorkerMarksFailed, WorkerRaises, WorkerDies, Reconcile
  <2> QED  BY <1>1, <1>3, <2>1, <2>2, FaultCounts
<1>4. CASE DepositNext /\ UNCHANGED <<downloads, worker, Others>>  BY <1>1, <1>4
<1>5. CASE CallNext
  <2>1. Passage /\ (faults' = faults \/ Fault) /\ UNCHANGED <<depositor, docs>>
    BY <1>1, <1>5, CallsPassage, CallTypes
  <2> QED  BY <1>1, <2>1, FaultCounts
<1>6. CASE Restart  BY <1>1, <1>6 DEF Restart, tables
<1>7. CASE UNCHANGED vars
  <2>1. UNCHANGED <<item, entries, depositor, docs, faults>>  BY <1>7 DEF vars, tables
  <2> QED  BY <1>1, <2>1, StillPassage
<1> QED  BY <1>2, <1>3, <1>4, <1>5, <1>6, <1>7 DEF Next

\* The same account as for an upload: through downloads done twice, retries that
\* reset a deposit, exceptions and restarts, an item has no more documents in
\* docflow than passages through "transcribed".
THEOREM ScrapedDocumentsAccounted == Spec => []DocumentsAccounted
<1>1. Init => Accounted
  <2>1. ASSUME Init PROVE /\ depositor = FreshDepositor /\ docs = [i \in Items |-> 0]
                          /\ entries = [i \in Items |-> 0]
                          /\ \A i \in Items : item[i] # "transcribed"
    BY <2>1 DEF Init, DepositInit
  <2> QED  BY <2>1, InitAccounted
<1>2. TypeInv /\ Accounted /\ [Next]_vars => Accounted'
  BY DepositOrPassage, DepositAccounted, PassageAccounted, RestartAccounted
<1>3. TypeInv /\ Accounted => DocumentsAccounted
  BY TypeParts, AccountedBounds DEF CallState, DownloadState
<1> QED  BY <1>1, <1>2, <1>3, TypeInvariant, PTL DEF Spec

\* As long as nothing raised, a scraped item "depositing" is in the hands of the
\* deposit worker, or the worker is about to requeue it (recover).
THEOREM ScrapedDepositsOwned == Spec => []DepositOwned
<1>1. Init => DepositOwned  BY DEF Init, DepositOwned
<1>2. TypeInv /\ DepositOwned /\ [Next]_vars => DepositOwned'
  <2> SUFFICES ASSUME TypeInv, DepositOwned, [Next]_vars PROVE DepositOwned'  OBVIOUS
  <2>1. CASE depositor' = FreshDepositor  BY <2>1 DEF FreshDepositor, DepositOwned, DepositorAt
  <2> QED  BY <2>1, DepositOrPassage, DepositKeepsOwned, PassageOwned
<1> QED  BY <1>1, <1>2, TypeInvariant, PTL DEF Spec

-----------------------------------------------------------------------------
(* The jobs of the pool.                                                   *)

\* A step is one of the pool, or it leaves the workers alone and inserts a row
\* or ends some.
LEMMA PoolOrRows ==
  ASSUME TypeInv, [Next]_vars
  PROVE  /\ TablesTyped /\ WorkersTyped
         /\ TranscriptionNext \/ (UNCHANGED worker /\ RowStep /\ (faults' = 0 => faults = 0))
<1>1. TablesTyped /\ WorkersTyped /\ DownloadState /\ \A r \in Runs : RunItem(r) \in Items
  BY TypeParts DEF CallState, DownloadState, DownloadsTyped, RunItem
<1>2. CASE DownloadsNext /\ UNCHANGED <<worker, depositor, docs, Others>>
  <2>1. faults' = faults \/ Fault  BY <1>1, <1>2, DownloadsPassage
  <2>2. ASSUME NEW r \in Runs, RunInsertJob(r)  PROVE RowStep
    BY <1>1, <2>2 DEF RunInsertJob, RowStep
  <2>3. UNCHANGED tjob => RowStep  BY StillRowStep
  <2>4. RowStep
    BY <1>2, <2>2, <2>3
       DEF DownloadsNext, RecoverDownloads, RecoverDownloadsRaises, RunClaim, RunStart, RunEvent,
           RunQueue, RunFailItem, RunFinish, RunRaises, tables
  <2> QED  BY <1>1, <1>2, <2>1, <2>4, FaultCounts
<1>3. CASE DepositNext /\ UNCHANGED <<downloads, worker, Others>>
  <2>1. UNCHANGED tjob /\ (faults' = faults \/ Fault)
    BY <1>3 DEF DepositNext, DepositStep, DepositRecover, DepositClaim, DepositSucceeds,
                DepositAttemptFails, DepositMark, DepositMarkFailed, DepositRecoverRaises, DepositRaises, tables
  <2> QED  BY <1>1, <1>3, <2>1, FaultCounts, StillRowStep
<1>4. CASE CallNext
  <2>1. UNCHANGED worker  BY <1>4, CallTypes, TypeParts
  <2>2. RowStep  BY <1>1, <1>4, CallsRows, StillRowStep, CancelRowStep
  <2> QED  BY <1>1, <1>4, <2>1, <2>2, CallsRows, FaultCounts
<1>5. CASE Restart \/ UNCHANGED vars
  BY <1>1, <1>5, StillRowStep DEF Restart, vars, tables
<1> QED  BY <1>1, <1>2, <1>3, <1>4, <1>5 DEF Next

LEMMA PoolInvariant == Spec => []PoolInv
<1>1. Init => PoolInv  BY DEF Init, WorkersInit, NoWork, PoolInv, WorkerAt
<1>2. TypeInv /\ PoolInv /\ [Next]_vars => PoolInv'
  BY PoolOrRows, OthersKeepPool, TranscriptionKeepsPool
<1> QED  BY <1>1, <1>2, TypeInvariant, PTL DEF Spec

\* As long as nothing raised and no container died, a claimed job of a scraped
\* item is in the hands of a worker, whatever is cancelled, retried or restarted.
THEOREM ScrapedClaimsHeld == Spec => []ClaimsHeld
<1>1. Init => ClaimsHeld  BY DEF Init, ClaimsHeld
<1>2. TypeInv /\ PoolInv /\ ClaimsHeld /\ [Next]_vars => ClaimsHeld'
  BY PoolOrRows, OthersHoldClaims, TranscriptionHoldsClaims
<1> QED  BY <1>1, <1>2, PoolInvariant, TypeInvariant, PTL DEF Spec

\* The pool keeps what JobBoard promises when it serves the scraped items, one
\* item of which may be given several jobs.
THEOREM ScrapedImplementsPool == Spec => PoolSpec
<1>1. Init => PoolMap = [j \in JobIds |-> "absent"]
  BY DEF Init, WorkersInit, NoWork, PoolMap, Stage, Held, Holders, WorkerAt
<1>2. TypeInv /\ PoolInv /\ PoolRead /\ PoolRead' /\ [Next]_vars => [Pool!Next]_PoolMap
  BY PoolOrRows, OthersKeepBoard, TranscriptionKeepsBoard
<1>3. PoolInv => PoolRead  BY PoolReads
<1>4. PoolInv' => PoolRead'  BY PoolReads, PTL
<1>5. Init => Pool!Init  BY <1>1 DEF Pool!Init, PoolMap
<1>6. TypeInv /\ PoolInv /\ PoolInv' /\ [Next]_vars => [Pool!Next]_([j \in JobIds |-> Stage(j)])
  BY <1>2, <1>3, <1>4 DEF PoolMap
<1> QED  BY <1>5, <1>6, PoolInvariant, TypeInvariant, PTL DEF Spec, PoolSpec, Pool!Spec

=============================================================================
