--------------------------- MODULE ScrapedPipeline ---------------------------
(***************************************************************************)
(* A scraped request from its discovery to the documents in docflow: the   *)
(* composition of the downloads, the transcription and the deposit with    *)
(* the selection (automatic or explicit), retry_failed, cancel_request and *)
(* the restarts of the backend.                                            *)
(***************************************************************************)
EXTENDS ScrapedDownloads, Transcription, Deposit

CONSTANTS
  Clients,     \* coroutines that serve the calls on the request
  Discoverer,  \* the task that handles the event of the discovery
  MaxCalls,    \* bound: calls served and automatic selections
  MaxRestarts  \* bound: crashes and redeployments of the backend

ASSUME ScrapedAssumption ==
  /\ Discoverer \notin Clients
  /\ MaxCalls \in Nat
  /\ MaxRestarts \in Nat

VARIABLES
  mode,      \* acquisition_requests.mode
  selected,  \* the items whose selected flag is set
  call,      \* the calls in progress, and the event of the discovery
  explored,  \* the discover job is over
  calls,     \* number of calls so far
  restarts   \* number of restarts so far

vars == <<tables, faults, downloads, worker, depositor, docs, mode, selected, call, explored, calls, restarts>>

Callers == Clients \cup {Discoverer}
CallPC == {"idle", "read", "list", "manual", "mark", "next", "check", "enqueue", "status",
           "retry", "reset", "requeue", "cancel_downloads", "cancel_jobs", "cancel_status"}
NoCall == [pc |-> "idle", todo |-> {}, scripted |-> {}, item |-> AnyItem, status |-> "discovering"]

TypeOK ==
  /\ TablesTyped
  /\ DownloadsTyped
  /\ WorkersTyped
  /\ DepositTyped
  /\ mode \in {"auto", "discover_only"}
  /\ selected \in SUBSET Items
  /\ call \in [Callers -> [pc : CallPC, todo : SUBSET Items, scripted : SUBSET Items, item : Items,
                           status : RequestStatus]]
  /\ explored \in BOOLEAN
  /\ calls \in 0 .. MaxCalls
  /\ restarts \in 0 .. MaxRestarts

CallAt(c, pc) == call[c].pc = pc
CallGoto(c, pc) == call' = [call EXCEPT ![c].pc = pc]
CallEnds(c) == call' = [call EXCEPT ![c] = NoCall]
Begins == calls < MaxCalls /\ calls' = calls + 1

Unmoved == <<worker, depositor, docs, mode, restarts>>
OnlyCalls == <<tables, faults, downloads, selected, explored, Unmoved>>

-----------------------------------------------------------------------------
(* Ghosts.                                                                 *)

\* The items a call was going to give a job.
Unfinished(c) == call[c].todo \cup (IF call[c].pc \in {"check", "enqueue", "requeue"} THEN {call[c].item} ELSE {})

\* Another call is already looking whether to give the item a download.
Considered(c, i) == \E o \in Callers \ {c} : call[o].pc \in {"check", "enqueue", "reset", "requeue"} /\ call[o].item = i

Enqueue(c, i) ==
  /\ InsertDownload(i)
  /\ lost' = lost \ {i}
  /\ raced' = IF Active(i) \/ Considered(c, i) THEN raced \cup {i} ELSE raced

\* The failed row that a retry handles is no longer what it has read, or a worker
\* whose job is over has yet to write it (Reconcile fails the item meanwhile).
Stale(i) ==
  raced' = IF item[i] = "failed" /\ \A w \in Workers : WorkerAt(w, "idle") \/ worker[w].item # i
           THEN raced ELSE raced \cup {i}

-----------------------------------------------------------------------------
(* The event "discovered" and on_discovery_complete.                       *)

\* The bulk insert is idempotent; a discover job that a restart interrupts is
\* run again.
Discovered ==
  /\ recovered /\ ~explored
  /\ CallAt(Discoverer, "idle")
  /\ item' = [i \in Items |-> IF item[i] = "none" THEN "pending_download" ELSE item[i]]
  /\ CallGoto(Discoverer, "read")
  /\ UNCHANGED <<transcript, tjob, request, entries, faults, downloads, selected, explored, calls, Unmoved>>

\* get_by_source_id.
DiscoveryRead ==
  /\ CallAt(Discoverer, "read")
  /\ IF request = "cancelled" THEN CallEnds(Discoverer)
     ELSE CallGoto(Discoverer, IF mode = "auto" THEN "list" ELSE "manual")
  /\ explored' = (request = "cancelled")
  /\ UNCHANGED <<tables, faults, downloads, selected, calls, Unmoved>>

DiscoveryManual ==
  /\ CallAt(Discoverer, "manual")
  /\ request' = "discovered"
  /\ CallEnds(Discoverer)
  /\ explored' = TRUE
  /\ UNCHANGED <<item, transcript, tjob, entries, faults, downloads, selected, calls, Unmoved>>

\* resolve_item_ids_from_filters: the filters choose among the items of the
\* source, whatever their status.
Listed == {i \in Items : item[i] # "none"}

DiscoveryList ==
  /\ CallAt(Discoverer, "list")
  /\ Begins
  /\ \E chosen \in SUBSET Listed :
       call' = [call EXCEPT ![Discoverer].pc = "mark", ![Discoverer].todo = chosen]
  /\ UNCHANGED OnlyCalls

DiscoveryAcquires ==
  /\ CallAt(Discoverer, "status")
  /\ request' = "acquiring"
  /\ CallEnds(Discoverer)
  /\ explored' = TRUE
  /\ UNCHANGED <<item, transcript, tjob, entries, faults, downloads, selected, calls, Unmoved>>

-----------------------------------------------------------------------------
(* select_items and apply_selection.                                       *)

SelectRead(c) ==
  /\ CallAt(c, "idle")
  /\ Begins
  /\ request # "cancelled"
  /\ \E chosen \in SUBSET Listed :
       /\ chosen # {}
       /\ call' = [call EXCEPT ![c] = [NoCall EXCEPT !.pc = "mark", !.todo = chosen, !.status = request]]
  /\ UNCHANGED OnlyCalls

\* source_items.select_items.
SelectMark(c) ==
  /\ CallAt(c, "mark")
  /\ selected' = selected \cup call[c].todo
  /\ CallGoto(c, "next")
  /\ UNCHANGED <<tables, faults, downloads, explored, calls, Unmoved>>

\* The items one by one: a download in flight is enough,
SelectActive(c, i) ==
  /\ CallAt(c, "next")
  /\ i \in call[c].todo
  /\ call' = [call EXCEPT ![c].todo = @ \ {i}, ![c].item = i, ![c].pc = IF Active(i) THEN "next" ELSE "check"]
  /\ UNCHANGED <<calls, OnlyCalls>>

\* Faulty: any item of the source is good to download.
SelectAny(c) ==
  /\ CallAt(c, "check")
  /\ CallGoto(c, "enqueue")
  /\ UNCHANGED <<calls, OnlyCalls>>

\* get_by_id: only an item that waits for its download,
SelectCheck(c) ==
  /\ CallAt(c, "check")
  /\ CallGoto(c, IF item[call[c].item] = "pending_download" THEN "enqueue" ELSE "next")
  /\ UNCHANGED <<calls, OnlyCalls>>

\* is given a job.
SelectEnqueue(c) ==
  /\ CallAt(c, "enqueue")
  /\ Enqueue(c, call[c].item)
  /\ CallGoto(c, "next")
  /\ UNCHANGED <<tables, faults, recovered, run, overtaken, selected, explored, calls, Unmoved>>

SelectDone(c) ==
  /\ CallAt(c, "next")
  /\ call[c].todo = {}
  /\ IF c = Discoverer \/ call[c].status \in {"discovering", "discovered"} THEN CallGoto(c, "status") ELSE CallEnds(c)
  /\ UNCHANGED <<calls, OnlyCalls>>

SelectStatus(c) ==
  /\ c # Discoverer
  /\ CallAt(c, "status")
  /\ request' = "acquiring"
  /\ CallEnds(c)
  /\ UNCHANGED <<item, transcript, tjob, entries, faults, downloads, selected, explored, calls, Unmoved>>

-----------------------------------------------------------------------------
(* retry_failed of a scraped request.                                      *)

RetryRead(c) ==
  /\ CallAt(c, "idle")
  /\ Begins
  /\ request # "cancelled"
  /\ \E rows \in SUBSET {i \in Items : item[i] = "failed"} :
       /\ rows # {}
       /\ call' = [call EXCEPT ![c] = [NoCall EXCEPT !.pc = "retry", !.todo = rows, !.scripted = rows \cap transcript]]
  /\ UNCHANGED OnlyCalls

\* reset_failed_deposit.
RetryDeposit(c, i) ==
  /\ CallAt(c, "retry")
  /\ i \in call[c].todo \cap call[c].scripted
  /\ Ready(i)
  /\ Stale(i)
  /\ call' = [call EXCEPT ![c].todo = @ \ {i}]
  /\ UNCHANGED <<transcript, tjob, request, faults, djob, recovered, run, lost, overtaken, selected, explored, calls, Unmoved>>

\* Faulty: the item is reset before the active job is looked for (BUG-26).
RetryResetFirst(c, i) ==
  /\ CallAt(c, "retry")
  /\ i \in call[c].todo \ call[c].scripted
  /\ Update(i, "pending_download")
  /\ Stale(i)
  /\ call' = [call EXCEPT ![c].todo = @ \ {i}, ![c].item = i, ![c].pc = IF Active(i) THEN "retry" ELSE "requeue"]
  /\ UNCHANGED <<transcript, tjob, request, entries, faults, djob, recovered, run, lost, overtaken, selected, explored, calls, Unmoved>>

\* A download in flight is enough, even one whose failure was just handled.
RetryActive(c, i) ==
  /\ CallAt(c, "retry")
  /\ i \in call[c].todo \ call[c].scripted
  /\ call' = [call EXCEPT ![c].todo = @ \ {i}, ![c].item = i, ![c].pc = IF Active(i) THEN "retry" ELSE "reset"]
  /\ UNCHANGED <<calls, OnlyCalls>>

\* reset_for_retry.
RetryReset(c) ==
  /\ CallAt(c, "reset")
  /\ Update(call[c].item, "pending_download")
  /\ Stale(call[c].item)
  /\ CallGoto(c, "requeue")
  /\ UNCHANGED <<transcript, tjob, request, entries, faults, djob, recovered, run, lost, overtaken, selected, explored, calls, Unmoved>>

RetryInsert(c) ==
  /\ CallAt(c, "requeue")
  /\ Enqueue(c, call[c].item)
  /\ CallGoto(c, "retry")
  /\ UNCHANGED <<tables, faults, recovered, run, overtaken, selected, explored, calls, Unmoved>>

RetryEnds(c) ==
  /\ CallAt(c, "retry")
  /\ call[c].todo = {}
  /\ CallEnds(c)
  /\ UNCHANGED <<calls, OnlyCalls>>

-----------------------------------------------------------------------------
(* cancel_request.                                                         *)

CancelRead(c) ==
  /\ CallAt(c, "idle")
  /\ Begins
  /\ request # "cancelled"
  /\ CallGoto(c, "cancel_downloads")
  /\ UNCHANGED OnlyCalls

\* A claimed job is cancelled although its task goes on: another download of
\* the item may join it.
CancelDownloads(c) ==
  /\ CallAt(c, "cancel_downloads")
  /\ SetDownloads({"pending", "claimed"}, "over")
  /\ lost' = lost \cup ItemsIn({"pending", "claimed"})
  /\ raced' = raced \cup ItemsIn({"claimed"})
  /\ CallGoto(c, "cancel_jobs")
  /\ UNCHANGED <<tables, faults, recovered, run, overtaken, selected, explored, calls, Unmoved>>

CancelJobs(c) ==
  /\ CallAt(c, "cancel_jobs")
  /\ CancelRows
  /\ CallGoto(c, "cancel_status")
  /\ UNCHANGED <<item, transcript, request, entries, faults, downloads, selected, explored, calls, Unmoved>>

CancelStatus(c) ==
  /\ CallAt(c, "cancel_status")
  /\ request' = "cancelled"
  /\ CallEnds(c)
  /\ UNCHANGED <<item, transcript, tjob, entries, faults, downloads, selected, explored, calls, Unmoved>>

-----------------------------------------------------------------------------
(* Failures, and the composition.                                          *)

\* An exception ends the call; the one of the discovery ends its job.
CallRaises(c) ==
  /\ ~CallAt(c, "idle")
  /\ Fault
  /\ lost' = lost \cup Unfinished(c)
  /\ CallEnds(c)
  /\ explored' = (explored \/ c = Discoverer)
  /\ UNCHANGED <<tables, djob, recovered, run, raced, overtaken, selected, calls, Unmoved>>

CallNext ==
  \/ Discovered \/ DiscoveryRead \/ DiscoveryManual \/ DiscoveryList \/ DiscoveryAcquires
  \/ \E c \in Clients : SelectRead(c) \/ RetryRead(c) \/ CancelRead(c)
  \/ \E c \in Callers :
       \/ SelectMark(c) \/ SelectCheck(c) \/ SelectEnqueue(c) \/ SelectDone(c) \/ SelectStatus(c)
       \/ RetryReset(c) \/ RetryInsert(c) \/ RetryEnds(c)
       \/ CancelDownloads(c) \/ CancelJobs(c) \/ CancelStatus(c)
       \/ CallRaises(c)
       \/ \E i \in Items : SelectActive(c, i) \/ RetryDeposit(c, i) \/ RetryActive(c, i)

\* The tasks, the calls and the workers of the backend are lost; the tables and
\* the transcription containers stay.
Restart ==
  /\ restarts < MaxRestarts
  /\ restarts' = restarts + 1
  /\ lost' = lost \cup UNION {Unfinished(c) : c \in Callers}
  /\ recovered' = FALSE
  /\ run' = [r \in Runs |-> Resting]
  /\ call' = [c \in Callers |-> NoCall]
  /\ depositor' = FreshDepositor
  /\ UNCHANGED <<tables, faults, djob, raced, overtaken, worker, docs, mode, selected, explored, calls>>

Init ==
  /\ item = [i \in Items |-> "none"]
  /\ transcript = {}
  /\ tjob = [j \in JobIds |-> [status |-> "absent", item |-> AnyItem]]
  /\ request = "discovering"
  /\ entries = [i \in Items |-> 0]
  /\ faults = 0
  /\ DownloadsInit
  /\ WorkersInit
  /\ DepositInit
  /\ mode \in {"auto", "discover_only"}
  /\ selected = {}
  /\ call = [c \in Callers |-> NoCall]
  /\ explored = FALSE
  /\ calls = 0
  /\ restarts = 0

Others == <<mode, selected, call, explored, calls, restarts>>

Next ==
  \/ DownloadsNext /\ UNCHANGED <<worker, depositor, docs, Others>>
  \/ TranscriptionNext /\ UNCHANGED <<downloads, depositor, docs, Others>>
  \/ DepositNext /\ UNCHANGED <<downloads, worker, Others>>
  \/ CallNext
  \/ Restart

Spec == Init /\ [][Next]_vars

-----------------------------------------------------------------------------
(* Correctness.                                                            *)

\* A selected item that waits for its download has one on the way, or a call is
\* about to see to it: it is never forgotten between the selections, the
\* retries and the tasks, but for a download that was given up without a word
\* (cancelled, interrupted, or a container that ends without naming its item).
DownloadOwned ==
  \A i \in selected \ lost :
    item[i] = "pending_download" => Active(i) \/ \E c \in Callers : i \in Unfinished(c)

\* An item queued for its transcription has a job that will answer for it, or
\* one that has failed and lets the reconciliation fail it: without that it
\* would neither end nor be seen by retry_failed.  The exceptions are a
\* cancellation and a job that was over before its item was written queued.
QueuedServed ==
  \A i \in Items \ overtaken :
    (item[i] = "queued_transcription" /\ faults = 0) =>
      \/ Served(i)
      \/ \E j \in JobsOf(i) : tjob[j].status = "cancelled"
      \/ \E w \in Workers : WorkerAt(w, "mark_item") /\ worker[w].item = i

\* A deposited document is not taken back into the pipeline by any sequence of
\* selections, retries, faults and restarts, unless its item was downloaded
\* twice, worked on by two calls at once, retried while a worker had yet to write
\* it, or overtaken by its job.
DepositKept ==
  [][\A i \in Items :
       item[i] = "deposited" => item'[i] = "deposited" \/ i \in raced' \cup overtaken']_vars

=============================================================================
