---------------------------- MODULE CorpusCursor ----------------------------
(***************************************************************************)
(* get_corpus: a caller collects the documents of a request as they are    *)
(* deposited.  The stack keeps a cursor per caller, the largest deposit    *)
(* time served; only_new asks for what is behind it.  A call is five round *)
(* trips without a transaction, while the pipeline goes on writing.  The   *)
(* calls that follow the request (request_status, list_requests) derive    *)
(* the same displayed status, without a transaction either.                *)
(***************************************************************************)
EXTENDS Naturals, FiniteSets

CONSTANTS
  Items,    \* the items of the request
  Names,    \* the callers (the cursors of the request)
  Pullers,  \* coroutines that serve get_corpus and request_status
  MaxTime   \* bound: deposits in all

ASSUME CorpusAssumption ==
  /\ IsFiniteSet(Items)
  /\ Names # {}
  /\ MaxTime \in Nat

VARIABLES
  request,   \* acquisition_requests.status
  item,      \* source_items.status, as far as the corpus tells apart
  selected,  \* source_items.selected
  at,        \* source_items.deposited_at; 0 before the first deposit
  clock,     \* the time of the last deposit
  cursor,    \* corpus_pull_cursors.last_pulled_at; 0 without a row
  pull,      \* the calls in progress
  read,      \* ghost: the deposits read by the stateful calls of a caller
  answered   \* ghost: the latest deposit in the answers of its stateful calls

delivery == <<cursor, pull, read, answered>>
pipeline == <<request, item, selected, at, clock>>
vars == <<request, item, selected, at, clock, cursor, pull, read, answered>>

Stages == {"discovering", "discovered", "open_for_upload"}
Stored == Stages \cup {"acquiring", "cancelled", "failed"}
Displayed == Stored \cup {"completed", "partially_failed"}
Modes == {"all", "only_new", "from_cursor", "status"}
PullPC == {"idle", "since", "rows", "counts", "fold", "save", "answer"}
Times == 0 .. MaxTime  \* a deposit is known by its time

Unread == [pc |-> "idle", name |-> CHOOSE n \in Names : TRUE, mode |-> "all", status |-> "acquiring",
           since |-> 0, rows |-> {}, display |-> "acquiring", quiet |-> FALSE, known |-> 0]

\* No call knows of a later time than the last deposit.
PullRecord ==
  [pc : PullPC, name : Names, mode : Modes, status : Stored, since : 0 .. clock,
   rows : SUBSET (0 .. clock), display : Displayed, quiet : BOOLEAN, known : 0 .. clock]

TypeOK ==
  /\ request \in Stored
  /\ item \in [Items -> {"pending", "deposited", "failed"}]
  /\ selected \in SUBSET Items
  /\ at \in [Items -> 0 .. clock]
  /\ clock \in Times
  /\ cursor \in [Names -> 0 .. clock]
  /\ pull \in [Pullers -> PullRecord]
  /\ read \in [Names -> SUBSET (0 .. clock)]
  /\ answered \in [Names -> 0 .. clock]

Init ==
  /\ request \in Stages
  /\ item = [i \in Items |-> "pending"]
  /\ selected = {}
  /\ at = [i \in Items |-> 0]
  /\ clock = 0
  /\ cursor = [n \in Names |-> 0]
  /\ pull = [p \in Pullers |-> Unread]
  /\ read = [n \in Names |-> {}]
  /\ answered = [n \in Names |-> 0]

-----------------------------------------------------------------------------
(* The pipeline, in the statements that the corpus depends on: the other   *)
(* modules say when they are executed.  The deposit worker is alone, so    *)
(* the deposit times increase in the order of the UPDATEs.                 *)

\* Ghost: the calls that have read their rows know that something has changed.
Disturb == pull' = [p \in Pullers |-> [pull[p] EXCEPT !.quiet = FALSE]]

\* select_items, or the slot of an upload, which is inserted selected.  Its
\* callers write the status of the request in another statement, if at all.
Select(i) ==
  /\ i \notin selected
  /\ selected' = selected \cup {i}
  /\ Disturb
  /\ UNCHANGED <<request, item, at, clock, cursor, read, answered>>

\* delete_item: the cleanup or a refused finalization deletes the row of a slot,
\* whatever has become of it (upload_row_deleted).  A row that is gone counts
\* for nothing; the next slot may take its place.
Delete(i) ==
  /\ i \in selected
  /\ selected' = selected \ {i}
  /\ item' = [item EXCEPT ![i] = "pending"]
  /\ at' = [at EXCEPT ![i] = 0]
  /\ Disturb
  /\ UNCHANGED <<request, clock, cursor, read, answered>>

\* update_status: the end of a discovery or of its automatic selection, an
\* explicit selection, the closing of the slots, a cancellation, a failed
\* discovery.  It is unconditional and its callers go by a row read earlier, so
\* it may overwrite any status, and whether an item is selected or not.
UpdateStatus(status) ==
  /\ status \in {"discovered", "acquiring", "cancelled", "failed"}
  /\ request = "open_for_upload" => status \in {"acquiring", "cancelled"}
  /\ request' = status
  /\ UNCHANGED <<item, selected, at, clock, delivery>>

\* mark_deposited.
MarkDeposited(i) ==
  /\ i \in selected /\ item[i] = "pending"
  /\ clock < MaxTime
  /\ clock' = clock + 1
  /\ item' = [item EXCEPT ![i] = "deposited"]
  /\ at' = [at EXCEPT ![i] = clock + 1]
  /\ Disturb
  /\ UNCHANGED <<request, selected, cursor, read, answered>>

\* mark_deposit_failed, or a failure on the way to the deposit.
MarkFailed(i) ==
  /\ i \in selected /\ item[i] = "pending"
  /\ item' = [item EXCEPT ![i] = "failed"]
  /\ Disturb
  /\ UNCHANGED <<request, selected, at, clock, cursor, read, answered>>

\* A retry of a failed item, or a second transcription of a deposited one; the
\* time of the deposit stays.
Reopen(i) ==
  /\ item[i] # "pending"
  /\ item' = [item EXCEPT ![i] = "pending"]
  /\ Disturb
  /\ UNCHANGED <<request, selected, at, clock, cursor, read, answered>>

PipelineNext ==
  \/ \E i \in Items : Select(i) \/ Delete(i) \/ MarkDeposited(i) \/ MarkFailed(i) \/ Reopen(i)
  \/ \E status \in Stored : UpdateStatus(status)

-----------------------------------------------------------------------------
(* The displayed status (status_shape).                                    *)

\* count_by_status.
CountOf(status) == Cardinality({i \in Items : item[i] = status})

\* fold_counts; an item counts as finished whether it is selected or not.
Counts ==
  [selected |-> Cardinality(selected), deposited |-> CountOf("deposited"), failed |-> CountOf("failed")]

\* Faulty: the last item does not have to be finished.
DisplayOneEarly(stored, counts) ==
  IF stored \in Stages \cup {"cancelled", "failed"} THEN stored
  ELSE IF counts.selected = 0 THEN "completed"
  ELSE IF counts.deposited + counts.failed + 1 >= counts.selected
       THEN IF counts.failed > 0 THEN "partially_failed" ELSE "completed"
  ELSE "acquiring"

\* Faulty: a request without a selected item is never finished (BUG-14).
DisplayEmptyOpen(stored, counts) ==
  IF stored \in Stages \cup {"cancelled", "failed"} THEN stored
  ELSE IF counts.selected > 0 /\ counts.deposited + counts.failed >= counts.selected
       THEN IF counts.failed > 0 THEN "partially_failed" ELSE "completed"
  ELSE "acquiring"

\* derive_display_status.
DisplayStatus(stored, counts) ==
  IF stored \in Stages \cup {"cancelled", "failed"} THEN stored
  ELSE IF counts.selected = 0 THEN "completed"
  ELSE IF counts.deposited + counts.failed >= counts.selected
       THEN IF counts.failed > 0 THEN "partially_failed" ELSE "completed"
  ELSE "acquiring"

-----------------------------------------------------------------------------
(* get_corpus.                                                             *)

PullAt(p, pc) == pull[p].pc = pc
Caller(p) == pull[p].name
Stateful(p) == pull[p].mode \in {"all", "only_new"}

\* The request; an explicit cursor is some time the caller was given.
PullRequest(p, n, mode, since) ==
  /\ PullAt(p, "idle")
  /\ mode # "status"
  /\ since \in 0 .. clock
  /\ mode # "from_cursor" => since = 0
  /\ pull' = [pull EXCEPT ![p] = [pc |-> IF mode = "only_new" THEN "since" ELSE "rows", name |-> n, mode |-> mode,
                                  status |-> request, since |-> since, rows |-> {}, display |-> request,
                                  quiet |-> FALSE, known |-> IF mode = "only_new" THEN answered[n] ELSE 0]]
  /\ UNCHANGED <<pipeline, cursor, read, answered>>

\* get_last_pulled_at.
PullSince(p) ==
  /\ PullAt(p, "since")
  /\ pull' = [pull EXCEPT ![p].pc = "rows", ![p].since = cursor[Caller(p)]]
  /\ UNCHANGED <<pipeline, cursor, read, answered>>

\* list_deposited_for_source: strictly after the cursor.
Deposited(since) == {at[i] : i \in {j \in Items : item[j] = "deposited" /\ at[j] > since}}

PullRows(p) ==
  /\ PullAt(p, "rows")
  /\ pull' = [pull EXCEPT ![p].pc = "counts", ![p].rows = Deposited(pull[p].since), ![p].since = 0,
                          ![p].quiet = Stateful(p)]
  /\ read' = IF Stateful(p) THEN [read EXCEPT ![Caller(p)] = @ \cup Deposited(pull[p].since)] ELSE read
  /\ UNCHANGED <<pipeline, cursor, answered>>

\* The failed rows and the counts of the items; the status of the request is
\* the one read at first.
PullCounts(p) ==
  /\ PullAt(p, "counts")
  /\ pull' = [pull EXCEPT ![p].pc = IF Stateful(p) /\ pull[p].rows # {} THEN "save" ELSE "answer",
                          ![p].display = DisplayStatus(pull[p].status, Counts)]
  /\ UNCHANGED <<pipeline, cursor, read, answered>>

\* The latest deposit among the rows.
Latest(p, t) == t \in pull[p].rows /\ \A other \in pull[p].rows : other <= t

\* Faulty: the cursor of the call that commits last (BUG-25).
PullSaveOverwrites(p) ==
  /\ PullAt(p, "save")
  /\ \E t \in Times : Latest(p, t) /\ cursor' = [cursor EXCEPT ![Caller(p)] = t]
  /\ pull' = [pull EXCEPT ![p].pc = "answer"]
  /\ UNCHANGED <<pipeline, read, answered>>

\* Faulty: the cursor is the time of the call.
PullSaveNow(p) ==
  /\ PullAt(p, "save")
  /\ cursor' = [cursor EXCEPT ![Caller(p)] = clock]
  /\ pull' = [pull EXCEPT ![p].pc = "answer"]
  /\ UNCHANGED <<pipeline, read, answered>>

\* Faulty: the cursor is the first time not served yet.
PullSaveNext(p) ==
  /\ PullAt(p, "save")
  /\ \E t \in Times : Latest(p, t) /\ cursor' = [cursor EXCEPT ![Caller(p)] = t + 1]
  /\ pull' = [pull EXCEPT ![p].pc = "answer"]
  /\ UNCHANGED <<pipeline, read, answered>>

\* upsert_cursor, with its GREATEST.
PullSave(p) ==
  /\ PullAt(p, "save")
  /\ \E t \in Times :
       /\ Latest(p, t)
       /\ cursor' = [cursor EXCEPT ![Caller(p)] = IF t > cursor[Caller(p)] THEN t ELSE cursor[Caller(p)]]
  /\ pull' = [pull EXCEPT ![p].pc = "answer"]
  /\ UNCHANGED <<pipeline, read, answered>>

PullAnswer(p) ==
  /\ PullAt(p, "answer")
  /\ IF Stateful(p) /\ pull[p].rows # {}
     THEN \E t \in Times : Latest(p, t) /\ answered' = [answered EXCEPT ![Caller(p)] = IF t > @ THEN t ELSE @]
     ELSE UNCHANGED answered
  /\ pull' = [pull EXCEPT ![p] = Unread]
  /\ UNCHANGED <<pipeline, cursor, read>>

\* request_status, or the turn of the request in list_requests: the row.
StatusRequest(p) ==
  /\ PullAt(p, "idle")
  /\ pull' = [pull EXCEPT ![p] = [Unread EXCEPT !.pc = "fold", !.mode = "status", !.status = request,
                                                !.quiet = TRUE]]
  /\ UNCHANGED <<pipeline, cursor, read, answered>>

\* Then the counts, and what else is displayed.
StatusCounts(p) ==
  /\ PullAt(p, "fold")
  /\ pull' = [pull EXCEPT ![p].pc = "answer", ![p].display = DisplayStatus(pull[p].status, Counts)]
  /\ UNCHANGED <<pipeline, cursor, read, answered>>

\* A round trip raises, or the backend dies: the caller has no answer.
PullLost(p) ==
  /\ ~PullAt(p, "idle")
  /\ pull' = [pull EXCEPT ![p] = Unread]
  /\ UNCHANGED <<pipeline, cursor, read, answered>>

PullNext ==
  \E p \in Pullers :
    \/ PullSince(p) \/ PullRows(p) \/ PullCounts(p) \/ PullSave(p) \/ PullAnswer(p) \/ PullLost(p)
    \/ StatusRequest(p) \/ StatusCounts(p)
    \/ \E n \in Names, mode \in Modes, since \in Times : PullRequest(p, n, mode, since)

Next == PipelineNext \/ PullNext

Spec == Init /\ [][Next]_vars

-----------------------------------------------------------------------------
(* Correctness.                                                            *)

\* Everything deposited up to the cursor of a caller has been read by one of its
\* calls, however the calls and the deposits interleave: what only_new leaves
\* out is never a document that was passed over.
CursorCovered ==
  \A n \in Names, i \in Items :
    item[i] = "deposited" /\ at[i] <= cursor[n] => at[i] \in read[n]

\* A call of only_new does not serve again what an earlier call of the same
\* caller had answered when it began, even if other calls commit their cursor
\* in the reverse order (BUG-25).
NoRepeat ==
  \A p \in Pullers : pull[p].mode = "only_new" => \A t \in pull[p].rows : t > pull[p].known

\* A caller that is told the corpus is complete has read the document of every
\* selected item that did not fail, unless an item moved between the rows and
\* the counts of that very call.
CompleteHasAll ==
  \A p \in Pullers :
    (PullAt(p, "answer") /\ Stateful(p) /\ pull[p].quiet /\ pull[p].status = "acquiring"
       /\ pull[p].display \in {"completed", "partially_failed"})
      => \A i \in selected : item[i] = "failed" \/ at[i] \in read[Caller(p)]

\* A caller that polls the status of an acquiring request is told that it goes on
\* exactly as long as a selected item is neither deposited nor failed: the
\* counts, taken over all the items, never end it early, and never keep it open
\* when nothing is left to do, or when nothing is selected, because no item
\* matched or every slot is gone (BUG-14), unless an item moved during that very
\* call.
StatusTold ==
  \A p \in Pullers :
    (PullAt(p, "answer") /\ pull[p].mode = "status" /\ pull[p].quiet /\ pull[p].status = "acquiring")
      => (pull[p].display = "acquiring" <=> \E i \in selected : item[i] = "pending")

-----------------------------------------------------------------------------
(* The calls in progress, their cursor and the rows are one implementation *)
(* of the delivery that its callers rely on.                               *)

Corpus == {at[i] : i \in {j \in Items : item[j] = "deposited"}}

Stack == INSTANCE Delivery WITH corpus <- Corpus, last <- clock, taken <- read

\* Whatever the calls that overlap, each stateful call catches up with all there
\* is, and the cursor of a caller never goes back, never points at something it
\* was not served and never passes over a document it has not been served.
DeliverySpec == Stack!Spec

=============================================================================
