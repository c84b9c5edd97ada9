# Formal models of the Role Builder backend

Role Builder acquires media for a corpus. A caller submits a channel, a playlist
or a set of files; the backend discovers the items, downloads or receives them,
extracts the audio of the videos, has them transcribed by a pool of worker
containers and deposits one document per item in docflow. Everything is driven
by status columns of PostgreSQL tables, by asyncio loops in one backend process,
and by Docker containers (scrapers, transcription workers).

This directory holds TLA+ modules for the parts that carry the logic, TLC
configurations that check them on small instances, and TLAPS proofs, for every value
of the constants, of all the safety properties that TLC finds to hold. `PROJECT.json` gives, for each
definition, the source lines it stands for, for each property a faulty variant of
the code that breaks it, and the list of hazards the properties are aimed at.

    tlc -config ScrapeSafety.cfg MCScrapeOrchestrator    # a run
    tlapm UploadSafetyProofs.tla                         # the proofs of a module

## The system

Paths are relative to `src/backend/src/role_builder/` unless they start with `docker/`.

| Part | State | Operations | Interacts with | What makes it correct |
|---|---|---|---|---|
| scraping_jobs queue (`db_helpers/scraping_jobs.py`) | one row per job, `status` | insert, claim (SKIP LOCKED), processing/done/failed, cancel, requeue at start | orchestrator, request layer | a row leaves an outcome never, a claim takes one pending row |
| scraper orchestrator (`services/scraper_orchestrator.py`) | semaphore, in-flight tasks, stop event | recover, acquire, claim, process, release, drain | queue, containers, event handlers | permits add up, one task per job, no job is lost, jobs end |
| event handlers (`services/event_handlers.py`) | none (tables) | discovered, item_done, item_failed | sources, items, transcription jobs | each event takes effect once, a failed discovery is reported |
| request layer (`services/acquisition/{submission,selection,auto_select,admin}.py`) | `acquisition_requests.status` | submit, select, cancel, retry | all tables | a cancelled request stays cancelled, a request gets an answer |
| upload intake (`services/acquisition/upload/{intake,finalize,cleanup}.py`) | `source_items`, presigned URLs, bucket | slot, finalize, expire, sweep | bucket, transcription queue | a slot is taken once, ends, and is never removed from the pipeline |
| audio extraction (`.../upload/extraction_worker.py`) | `source_items.status`, attempt | recover, claim, attempts, outcome | bucket, ffmpeg, transcription queue | a crash repeats it and finds its input |
| transcription queue and workers (`db_helpers/transcription_jobs.py`, `docker/transcription-worker/`) | `transcription_jobs` | insert, claim, done, failed, reconcile dead items | item table | an item is transcribed once, a failed job is noticed |
| deposit (`services/deposit/`, `db_helpers/deposit_queue.py`) | `source_items.status`, attempt | recover, claim, deposit, mark | docflow | one document per passage, no item lost |
| corpus delivery and status (`services/acquisition/{corpus,status,status_shape}.py`) | `corpus_pull_cursors` | pull everything, pull since the cursor, pull since an explicit cursor, displayed status | deposit, selection | nothing is skipped or delivered twice, the status ends when the work does |
| secret store and wallets (`services/secret_store.py`, `routes/{wallets,user_secrets}.py`) | `user_wallets`, `user_secrets`, cached vault clients, the vault | register and delete a wallet, create, delete and read a secret | vault, services | a row has its value, a value has its row |
| transcription keys and credentials (`routes/{transcription_keys,credentials}.py`, `services/credit_monitor.py`) | `user_transcription_keys`, `user_credentials` | create, test, promote, demote, delete, poll the balances | secret store, providers | one active primary key at most, none lost by the way |
| user workers (`services/worker_manager.py`, `credit_basculer.py`) | `transcription_workers`, containers | spawn, stop, idle stop, exhausted key | transcription queue | no caller at this commit, see below |
| scheduler, lifespan (`services/scheduler.py`, `main.py`) | periodic jobs, background loops | start, stop | everything | |
| websocket relay, migrations, auth, legacy routes, MCP facade, frontend | | | | not modelled, see below |

What is hard in it:

* **Interleaving.** The loops, the HTTP calls and the periodic jobs share the
  event loop and interleave at every `await`; worker containers run in parallel.
  Hardly a transaction spans two statements, and many decisions are taken on a row
  read several awaits before it is written.
* **Crash and restart.** A redeployment kills the coroutines anywhere; the recovery
  at the start is one UPDATE per queue. Worker containers survive it.
* **Partial failure.** An operation is three to five separate writes; what an exception
  leaves behind is what the next operation finds.
* **Two stores.** A secret is a row in PostgreSQL and a value in a vault that no transaction
  joins; a corpus is rows, counts and a cursor read in three statements.
* **Bounds.** A semaphore released in four places, attempts counted per claim.

## The modules

| Module | Models | Code |
|---|---|---|
| `ScrapeOrchestrator` | the scraping queue, its orchestrator, the discovered event, submission, selection, cancellation | `scraper_orchestrator.py`, `scraping_jobs.py`, `event_handlers.py`, `auto_select.py`, `selection.py`, `submission.py`, `admin.py`, `main.py` |
| `JobBoard` | abstract: what those who enqueue a job are promised; refined by the scraping queue and by the transcription jobs | - |
| `ItemTable` | the SQL statements on an upload request's items and transcription jobs | `source_items*.py`, `transcription_jobs.py`, `deposit_queue.py`, worker `db.py`, `transcription_entry.py` |
| `UploadIntake` | slots, PUT, finalization, expiry, cleanup, extraction worker | `upload/*.py` |
| `Transcription` | worker containers and the reconciliation of dead items | `docker/transcription-worker/worker/{main,db}.py`, `scheduler.py` |
| `Deposit` | the deposit worker and the documents it writes | `services/deposit/*.py` |
| `UploadPipeline` | composes the previous four with cancel, retry, close and the restarts | `admin.py`, `intake.py`, `main.py` |
| `ScrapedDownloads` | download jobs, the tasks that run them, item_done and item_failed | `scraper_orchestrator.py`, `scraping_jobs.py`, `event_handlers.py` |
| `ScrapedPipeline` | composes `ItemTable`, `ScrapedDownloads`, `Transcription` and `Deposit` with discovery, automatic and explicit selection, retry, cancel and restarts | `auto_select.py`, `selection.py`, `admin.py`, `source_items.py` |
| `CorpusCursor` | get_corpus and its cursors, the displayed status, over the statements of the pipeline they depend on | `corpus.py`, `corpus_pull_cursors.py`, `status.py`, `status_shape.py` |
| `Delivery` | abstract: what a caller of get_corpus is promised; refined by `CorpusCursor` | - |
| `AccountTables` | wallets, secrets and services with their foreign keys and unique index | migrations `0001`, `0009`, `db_helpers/*.py` |
| `SecretStore` | wallets and secrets, the client cache, the vault | `secret_store.py`, `routes/{wallets,user_secrets}.py`, `harpocrate/client.py` as used |
| `ServiceDefinitions` | transcription keys, platform credentials, the credit monitor | `routes/{transcription_keys,credentials,secret_selection}.py`, `db_helpers/{transcription_keys,credentials}.py`, `credit_monitor.py`, `*_validator.py` |
| `AccountServices` | composes the previous three with the restarts | |
| `ScrapeOrchestratorProofs` | proofs: types, permits, tasks and rows, the refinement of `JobBoard` | |
| `UploadPipelineProofs`, `UploadSafetyProofs` | proofs: types, documents, deposits, claims and the refinement of `JobBoard`; raw videos, transcription jobs, deleted slots and ready audio of an upload | |
| `ScrapedPipelineProofs`, `ScrapedDepositProofs` | proofs: types, downloads, queued items, documents, deposits, claims and the refinement of `JobBoard`; deposited items of a scraped source | |
| `ItemTableProofs` | lemmas on `ItemTable`, `Transcription` and `Deposit` for both pipelines: types, account of documents, workers and their jobs | |
| `CorpusCursorProofs`, `AccountServicesProofs` | proofs: delivery and the refinement of `Delivery`; secrets and primary keys | |
| `MC...` | the instances TLC checks: symmetry sets, action constraints that bound the runs | |

`ItemTable`, `Transcription` and `Deposit` are shared by the two pipelines: an uploaded and a
scraped item differ in how they get into the transcription queue and back out of `failed`.
The two models of the scraping queue are two abstractions of it: `ScrapeOrchestrator` has
the loop, the semaphore and the discover jobs with many rows; `ScrapedDownloads` has the
download jobs of an item, with the recovery and the tasks but without the semaphore
(the number of `Runs`), so that an item can be followed to the end.

**Granularity.** An action is what a coroutine does from one `await` to the next; an
`await` is a round trip to PostgreSQL, an operation of the object store or an event of
a container, so an action holds at most one effect on what is shared. An UPDATE over
several rows is one action. A coroutine is a record with a program counter (`pc`) and
the values it carries across an `await`: that is where stale reads live. So `task[t]` is
one `_process_and_release`, `call[c]`, `upload[u]` and `admin[a]` are HTTP calls,
`extractor`, `depositor`, `sweep` and `loop` the background loops, `worker[w]` a
container.

**Exceptions** (`Fault`) may be raised by any round trip, at most `MaxFaults` times. An
exception sends the coroutine where its `except` and `finally` clauses do, in particular
nowhere when the code has none, and the interrupted statement has had no effect. **A
restart** loses the coroutines and leaves the tables, the bucket and the containers.

**Abstractions.**

* In `ScrapeOrchestrator` a download job is a row of its source; what it does to its item
  is in `ScrapedDownloads`, where done, failed and cancelled rows are all `over`.
* Rows of the two job tables are numbered in the order of their insertion and claimed in
  that order (every caller inserts with priority 0). The extraction and the deposit
  claim by `updated_at`: the model lets them take any item, which has more behaviours.
* The clock is a flag per slot that may be raised at any moment after the slot exists.
* A slot's URL expires with the slot; a PUT on a valid URL makes the object whatever the
  status of the item.
* Two reads of `finalize_upload` (the request, the item) are one action: nothing it does
  before the next await depends on a write that could come between them.
* A transcription, an ffmpeg run and a deposit are a success or a failure. A container
  ends: the code has no timeout for one that hangs.
* A container that dies is taken to be replaced at once; its job stays claimed.
* A single request is modelled: requests share only the single-threaded workers.
* `CorpusCursor` has the pipeline's statements with weaker guards than the pipeline gives
  them (any selected item may be deposited, fail, be taken back or, as a slot, be deleted at
  any time; the status of the request is written apart from the selection, over any status
  and whether anything is selected or not), so what holds there holds for every way of
  executing them. A deleted slot leaves its place to the next one. Deposits have distinct, increasing
  times: `deposited_at` is `now()` in single-row transactions of one worker.
* In the account model the arguments of a call are any rows; a path of the vault contains the
  identifier of its secret, so looking it up and acting on it is one step. A vault call that
  raises may have taken effect. A transaction of PostgreSQL (the promotion of a key) is two
  steps: the snapshot of the rows it demotes, then the commit, which fails when it would
  violate the unique index or a foreign key.

## What TLC checks

| Run | Instance | Properties | Distinct states |
|---|---|---|---|
| `scrape_safety` | 1 auto source, 1 caller, cap 1, 3 jobs, 1 exception, 1 restart | `TypeOK` `PermitLedger` `ExclusiveRun` `NoOrphan` `OutcomeFinal` `BoardSpec` | 187,314 (symmetry) |
| `scrape_liveness` | 1 source, cap 2, 2 jobs, 1 restart | `JobsSettle` `DiscoveryAnswered` | 70,088 |
| `upload_safety` | 1 audio file or 1 video, 2 client calls, 3 jobs, 2 attempts, 1 retry, 1 exception, 1 restart | `TypeOK` `DocumentsAccounted` `DepositOwned` `RawKept` `OneTranscription` `AudioOwned` `DeletedExpired` `ClaimsHeld` | 722,865 (symmetry) |
| `upload_liveness` | 1 audio file, 1 client call, 2 workers, 1 retry, 1 restart | `TranscribedSettles` `TranscriptionAnswered` `SlotsEnd` `PoolSpec` | 40,622 |
| `scraped_safety` | 1 item, 2 download tasks, 3 downloads, 3 jobs, 1 worker, 2 clients and the discovery, 3 calls, 1 exception or restart | `TypeOK` `DownloadOwned` `QueuedServed` `DocumentsAccounted` `DepositOwned` `ClaimsHeld` `DepositKept` | 388,432 (symmetry) |
| `corpus_safety` | 2 items, 1 caller, 2 concurrent calls, 2 deposits | `TypeOK` `CursorCovered` `NoRepeat` `CompleteHasAll` `StatusTold` `DeliverySpec` | 562,811 (symmetry) |
| `account_safety` | 1 wallet, 1 secret, 2 keys, 1 credential, 2 concurrent calls, 1 poll, 1 exception or crash | `TypeOK` `SurvivorKeepsValue` `NoOrphanValue` `PrimaryKept` | 530,034 (symmetry) |

Each comment above a property says what it means; in short:

* `PermitLedger`: free permits, the loop's and the tasks' always add up to the cap, plus
  the permits released twice. `ExclusiveRun`: a job has at most one task, which its
  unconditional status updates rely on. `NoOrphan`: without exceptions every claimed or
  processing row has a task, so a graceful stop leaves nothing to requeue.
  `OutcomeFinal`: a settled row never moves. `BoardSpec`: all that refines `JobBoard`.
* `JobsSettle`: a pending job ends, through crashes. `DiscoveryAnswered`: a request whose
  discovery was enqueued leaves `discovering`, unless the process died on it.
* `DocumentsAccounted`: an item has at most one document per passage through
  `transcribed`. `DepositOwned`: without exceptions an item that is `depositing` is in
  the hands of the worker or about to be requeued. `RawKept`: as long as a video may
  have to be extracted, again after a crash, its raw object exists (retries, for which
  it does not, and expired slots excepted). `OneTranscription`: an item has one
  transcription job whatever calls and crashes compete, until a retry or a cancellation.
  `AudioOwned`: an audio file that is ready and not queued is in the hands of the call, the
  extraction or the retry that made it ready, unless something raised or the backend was
  restarted. `DeletedExpired`: whatever the calls and the cleanup remove, and however long
  they take, is a slot that had expired.
* `ClaimsHeld`: without exceptions and dead containers, a transcription job that is claimed
  is in the hands of a worker. `PoolSpec`: all that refines `JobBoard`, with as many places as there are workers:
  an inserted job is run at most once, by one worker, and not once it is cancelled, although
  a worker writes its outcome over a cancellation.
* `TranscribedSettles`, `TranscriptionAnswered`, `SlotsEnd`: a transcribed item gets over
  with the deposit, a queued item whose job is alive gets an answer, an expired slot ends.
* `DownloadOwned`: a selected item that waits for its download has one on the way, or a call
  is about to see to it; only a download given up without a word (`lost`: cancelled,
  interrupted by an exception or a restart, or a container that names no item) leaves it
  alone. `QueuedServed`: a queued item has a job that will answer or a failed one that lets
  it fail, unless the job was cancelled or over before the item was written (`overtaken`).
  `DepositKept`: no sequence of selections, retries, faults and restarts takes a deposited
  item back into the pipeline, unless two downloads or two calls worked on it at
  once, or it was taken back from another status than `failed` or while a worker had yet to write
  it (`raced`), or its job overtook it (`overtaken`). The three sets are ghosts: each marks a window that the
  code leaves open, so the property says that there is no other.
* `CursorCovered`: all that was deposited up to the cursor of a caller has been read by its
  calls, so `only_new` passes over nothing. `NoRepeat`: `only_new` never serves again what an
  answered call of the caller had served when it began. `CompleteHasAll`: a caller told
  that the corpus is complete has read every selected item that did not fail, unless an item
  moved between the rows and the counts of that call. `StatusTold`: the displayed status of an
  acquiring request is `acquiring` exactly as long as a selected item is neither deposited
  nor failed, although the counts are those of all the items. Nothing selected is reached
  in both ways: `acquiring` is written without a selection (automatic selection without a
  match, upload closed without a slot), or the selected slots are deleted; without the
  branch of `derive_display_status` for it (BUG-14) the run fails.
  `DeliverySpec`: all that refines `Delivery`: whatever calls compete, a caller takes all
  there is, and its cursor moves forward only, over nothing it has not taken.
* `SurvivorKeepsValue`: a secret that is in the database has its value in the wallet, whatever
  calls compete with its deletion. `NoOrphanValue`: a value in the vault has its row once the
  calls about it are over (`leaked` marks removals that failed, found no wallet, or were lost
  in a crash). `PrimaryKept`: the user does not lose the active primary key by a promotion
  that fails or by two at once. Its `TypeOK` has the references between rows.

**Bounds.** The constants named `Max...` are the only bounds: rows inserted, exceptions,
restarts, retries. (`MaxItems` limits the items an upload request asks for: in
`upload_safety` it is the audio file or the video.) Three job rows are an item's first
job, that of a retry or of a competing call, and one more; one exception and one restart
may happen at any step, and both together in one behaviour, which is what every recovery
in the code is written for (`scraped_safety` has one or the other). One item is enough for
the safety runs because items meet only
in the workers, which hold one at a time, and no property relates two items; two client
calls are what it takes for a stale read to meet a write. In `scraped_safety` the
discovery and two calls, or three calls, are any order of selections, retries and
cancellations, and a third job is that of a second retry; one mishap is enough to be in any of
the windows, there and in `account_safety`. In `corpus_safety` two deposits, of two items
or of one that was taken back,
are what it takes for cursors to be committed in the reverse order. Action
constraints (`ACTION_CONSTRAINT` in the configurations) keep four runs small by limiting what
competes with what:

* `LateCallsAlone` (`upload_safety`): one client call at a time after an exception or a
  restart and during an administration call; no client call after a retry, and no second
  attempt of an extraction, together with an exception or a restart.
* `OneMishap` and `LastAlone` (`scraped_safety`): one exception or one restart, and from then
  on one task, two tasks and calls together, one once the second call has begun, and no
  second call once there is a second transcription job; two calls at a time, one task and one
  call once there is a second job or the last call; the last call and the last job without
  a mishap.
* `ReadersAlone` (`corpus_safety`): a status, a pull from an explicit cursor or any call of a
  request that is not acquiring is alone with the pipeline, and the status changes during a
  call only if the call has read `acquiring` (any other is displayed as it was read).
* `TwoAtATime` (`account_safety`): two operations at a time, one after a mishap.

The proofs below depend on none of these bounds and constraints: they cover every
interleaving. Deadlock is not checked: when the bounds are used up
and every job has settled there is nothing left to do (`corpus_safety`, whose callers
never stop, checks it), and a stopped process that has used its restarts stays stopped.

**Fairness.** Weak fairness for each coroutine and container (`LoopStep`, `TaskStep(t)`,
`CallStep(c)`, `UploadStep(u)`, `ExtractStep`, `DepositStep`, `WorkerStep(w)`,
`AdminStep(a)`), for the two periodic jobs (`SweepStep`, `Reconcile`) and for the start
after a drain: asyncio runs what is ready, APScheduler runs its jobs, and the deployment
says `restart: unless-stopped` (`docker-compose.pve2.yml:11`). Nothing is assumed of the
client, of the clock, of exceptions or of crashes. Within a worker step the outcome is
free. The liveness runs have no exceptions: the code retries none of them before the next
restart, and a worker that dies keeps its job for ever (see the gaps).

### Where the code and its documentation disagree

Five runs check a sentence of the repository that the code does not keep.

| Run | Sentence | What happens |
|---|---|---|
| `scrape_cap` | at most `max_concurrent_scrapers` jobs at once (`scraper_orchestrator.py:8`) | a claim that raises releases the semaphore twice: the cap grows by one for good |
| `scrape_cancel_undone` | the end of a discovery does not undo a cancellation (`auto_select.py:36`) | the test is on a snapshot read before the selection, the write is unconditional |
| `scrape_black_hole` | a failed discovery takes the request out of `discovering` (`scraper_orchestrator.py:156`) | a crash between the two writes leaves it there |
| `upload_row_deleted` | `delete_item` is never used on an item in the pipeline (`source_items_upload.py:76`) | the cleanup deletes a row it listed before a finalization took it |
| `upload_extraction_stuck` | an extraction ends in success or `failed` (`extraction_worker.py:9`) | a retried video whose raw object is gone stays `extracting_audio` |

### Gaps no document speaks of

The models have these behaviours; they contradict no sentence of the repository, so no
run states a property about them, and the properties above are worded around them.

* A scraping job cancelled between its claim and `mark_job_processing` is run all the same.
* An exception of `mark_job_done` leaves the row `processing` until a restart runs it again.
* The job of an item is inserted before the item is written `queued_transcription`; a
  worker that finishes in between has its `transcribed` overwritten, and the
  reconciliation sees no failed job. So `TranscriptionAnswered` is about items whose job
  is alive.
* `has_job_for_item` counts failed jobs: a retried video is queued without a new job and
  failed again by the next reconciliation.
* A crash or an exception between `audio_ready` and `queued_transcription` leaves the item
  in a status that neither a recovery nor a retry looks at; `AudioOwned` says that nothing else does.
* A worker that dies or whose handling of an outcome raises leaves its transcription job
  `claimed`; nothing requeues it. `ClaimsHeld` says that nothing else leaves one behind.
* A transcription job cancelled while a worker runs it is marked done afterwards.
* A worker marks its job done before it writes the item. In between, the reconciliation sees an
  older failed job and none that is active, and fails the item of a retry that has just
  succeeded, which is not quite what `db_helpers/transcription_jobs.py:121` means it to do;
  the item becomes `transcribed` all the same. A `retry_failed` in between takes it back, and it
  may be deposited and then queued again: `DepositKept` counts it among the `raced` ones.
* An exception of `mark_deposited` leaves the item `depositing` until a restart, which
  deposits it again: a second document, on a second passage.
* `recover` of the two loops is outside their `try`: its exception ends the loop.
* `close_upload_request` overwrites a cancellation committed after its read.
* `retry_failed` works on the rows it read: two calls requeue the same item twice.
* A download whose item list is missing from its payload (Bugs/BUG-01), a container that dies
  or an exception of the handlers ends a download without a word: the item stays
  `pending_download`, which `retry_failed` does not look at; a new selection does.
* A download requeued by a restart repeats its events: a deposited item may be queued,
  transcribed and deposited again. The same follows from two selections that both see no
  active download.
* A `retry_failed` between `item_failed` and the end of the download job finds that job
  active and skips the item silently.
* An answer lost after the cursor was written: the documents of that call are behind the
  cursor, and `only_new` does not serve them. A call without `only_new` advances the cursor
  too, and callers that give no name share one. The model has the lost answer: `CursorCovered`
  is about what was read, not about what arrived.
* A document deposited between the rows and the counts of a pull makes the corpus complete
  without being in the answer.
* The displayed status compares finished items, selected or not, with the selected ones. With
  the legacy selection, which can deselect, a request could end early;
  `docs/specs/v2/01-protocole-mcp.md:147` speaks of the selected items. The modelled
  selection never deselects. The legacy selection also accepts sources of this layer and gives
  a job to an item of any status: it would download a deposited item again.
* A client built while its wallet is deleted stays in the cache; it is of no use, since the
  row is looked up before the cache.
* Promoting a key that is not active demotes the active primary one, and the user has none.
* A vault that cannot be reached marks the tested key invalid; the credit monitor writes
  `exhausted` from a balance it read earlier, after a test may have made the key active again.
* A secret whose insert was committed but reported failed is compensated and loses its value.
* A worker registers with a column `worker_id` (`docker/transcription-worker/worker/db.py:169`)
  that no migration creates.
* The requeue at the start takes every claimed row: it supposes one backend process.

## What is proved

TLAPS proves, for every set of sources, items, callers, tasks and workers and every bound,
from the named assumptions of the modules only (`ConstantsAssumption`: there is a source,
finitely many task slots, at least `MaxConcurrent + MaxFaults` of them; `ItemAssumption`,
`IntakeAssumption`, `DepositAssumption`, `PipelineAssumption`, `DownloadAssumption`,
`ScrapedAssumption`: there is an item, videos are items, the discovery is not a client, the
limits are natural numbers, the numbers of attempts are positive; `WorkersAssumption`: the
workers are finitely many; `CorpusAssumption`: the items
are finitely many, there is a caller; `AccountAssumption`, `ServiceAssumption`: there is a secret
and a service, keys are not credentials, the monitor is not a caller, the local store is not a
wallet):

| Theorem | Statement | Argument |
|---|---|---|
| `TypeCorrect` | `Spec => []TypeOK` | inductive with `JobsOfTasks`: a live task's job is a row |
| `LedgerHolds` | `Spec => []PermitLedger` | inductive over the types; each step adds a task and consumes the loop's permit, or the reverse |
| `CapWithoutFailedClaim` | `Spec => [](surplus = 0 => CapRespected)` | from the ledger: what `scrape_cap` refutes holds until a claim raises |
| `RunsAreExclusive` | `Spec => []ExclusiveRun` | `RunInv` |
| `OutcomesAreFinal` | `Spec => OutcomeFinal` | every step from `RunInv` keeps the outcomes |
| `NothingOrphaned` | `Spec => []NoOrphan` | inductive over `RunInv`: only an outcome or an exception takes a task from its row |
| `ImplementsBoard` | `Spec => BoardSpec` | `BoardInv` |
| `UploadTypeCorrect` | `Spec => []TypeOK` | one lemma per component, over the tables it shares |
| `DocumentsAreAccounted` | `Spec => []DocumentsAccounted` | `Accounted` |
| `DepositsAreOwned` | `Spec => []DepositOwned` | inductive over the types, since exceptions are only added to |
| `RawVideoKept`, `TranscribedOnce` | `Spec => []RawKept`, `Spec => []OneTranscription` | `UploadInv`, one invariant for both |
| `UploadClaimsHeld`, `ScrapedClaimsHeld` | `Spec => []ClaimsHeld` | inductive over the types and `PoolInv` |
| `UploadImplementsPool`, `ScrapedImplementsPool` | `Spec => PoolSpec` | `PoolInv` |
| `DeletedHadExpired` | `Spec => []DeletedExpired` | `UploadInv` |
| `ReadyAudioOwned` | `Spec => []AudioOwned` | inductive over `UploadInv` |
| `ScrapedDocumentsAccounted`, `ScrapedDepositsOwned` | `Spec => []DocumentsAccounted`, `Spec => []DepositOwned` | the lemmas of the upload pipeline |
| `ScrapedTypeCorrect` | `Spec => []TypeOK` | `TypeInv`, with `RunsOwn`: which row each task holds |
| `DownloadsAreOwned` | `Spec => []DownloadOwned` | `AllOwned` over the types and `Known` |
| `QueuedAreServed` | `Spec => []QueuedServed` | `Queued` over the same |
| `DepositsAreKept` | `Spec => DepositKept` | `Orderly` over all the previous |
| `Types`, `Covering`, `NoRepetition`, `Completeness`, `Told` | the five invariants of `corpus_safety` | `IInv` |
| `ImplementsDelivery` | `Spec => DeliverySpec` | `IInv` |
| `AccountTypeCorrect` | `Spec => []TypeOK` | inductive, with the references between rows |
| `SurvivorsKeepTheirValue`, `NoValueIsOrphaned` | the two invariants on secrets | `StoreInv` |
| `PrimaryIsKept` | `Spec => PrimaryKept` | `ServiceInv` |

Hardly one of the properties is inductive. What each needs besides:

**Runs and the board.** `ExclusiveRun`: from a state where a task runs a row that is `pending`,
a claim would give the row a second task. `RunInv` therefore says which statuses the row of a
task may have at each point of the task (`TaskRows`; `cancelled` is among them, `pending`
never) and that no task is alive before the recovery, whose requeue would make a running
row pending. The same invariant makes outcomes final: only a task that has not written its
outcome updates a row unconditionally, and its row is not done or failed yet. For the board,
`BoardInv` adds the ledger and that the surplus of permits does not exceed the exceptions
(`SurplusBounded`), so that a claim finds room on the board, whose cap is
`MaxConcurrent + MaxFaults`. `BoardRead` reads the board off
the statuses and the tasks at work; a step of a task goes on (`GoesOn`), writes the outcome
(`Settles`) or is thrown out of its job (`Drops`), and each of the three is a step of the board
or none.

**Documents of an upload.** A document may be written from any state where the worker is at
`deposit`. `Accounted` adds to the documents of an item the deposit in progress and the
passage not yet claimed and says that together they do not exceed the passages. For the
other components the proof needs only `Passage`: a step elsewhere makes no item
`depositing`, and none `transcribed` without counting it. The lemmas speak of the shared
tables and the deposit only (`ItemTableProofs`), and serve both pipelines: each shows that its
other components make passages.

**Transcription jobs and the workers.** The board must not be read off the status of a row: a
cancellation, the deletion of an item and a late `mark_item` write the row of a job that a worker
still holds. `Stage` therefore reads it off the workers first. `PoolInv` says that the job of a
worker is a row that has been claimed, that it is not `claimed` any more when the worker has yet
to write the item, and that no two workers hold one job; the claim keeps the last part, since it
takes a pending row. Under it a row that moves is a move of the board (`PoolReads`, `PoolMoves`).
Everything outside the workers inserts one row or ends some (`RowStep`): an insertion puts a
job on the board, and what is ended was waiting (it is settled) or held or over (nothing moves). A
claim finds room because the held jobs are as many as their holders at most, and the
claimer is none of these (`RoomInPool`).

**Raw videos and transcription jobs of an upload.** Each call acts on what it saw two or three
awaits ago. `UploadInv` says what is left of it at each stage: a call about to take a slot has
seen the object, and it is there or the slot expired (`UploaderInv`); objects are removed only
under expired slots (`SweepInv`) or of videos that left the extraction (`ExtractorInv`); two
calls are never both past the claim of one item (`Apart`), for the claim is an UPDATE with its
status in the WHERE clause; a job is inserted for an item that has none, or was touched by a
retry or a cancellation (`TableInv`, `RetryInv`). A row is deleted by a sweep that listed it
when its slot had expired, or by the finalization of such a slot, so `DeletedExpired` needs what
the sweep and the calls carry across their awaits. For `AudioOwned` each component is shown to hold, after its
step, every item that is ready and was not before, and to let go of none that stays ready (`CallsKeep`, `ExtractorKeeps`,
`RetriesKeep`); the other steps make no item ready (`NoneReady`).

**Downloads of a scraped source.** `Known`: whatever a row, a task or a call names is an item that
was listed and is never deleted. `AllOwned` tells apart who may still act for an item that
waits: a row in flight whose task has not come to its end (`Awaited`), a call that has picked the
item (`Handled`) or has it on its list (`Listing`). Both parts are needed: a call that
finds the item active leaves it alone, so "active" must mean that something is still to come.
`Queued` says that a worker's job is a row of the worker's item, that a task about to write its
item has inserted a row, and that a queued item whose jobs are all done has a worker about to
write it.

**Deposited items.** `DepositKept` forbids one step, but it may be prepared dozens of steps
before: a stale selection, a second download, a late worker. `Orderly` says that an item that is
neither raced nor overtaken is in the hands of one actor at a time (`Cycle`): one download in
flight, whose row no one else touches, at most one job running and one worker on it, no call
choosing it while a download is active; as long as a download, a task or a call has yet to hand the
item over it is `pending_download` and no job of it runs (`InOrder`); once it is
transcribed no worker holds it. Every step that could break it (a recovery or a restart with a
task at work, a second call for the item, a retry of what has not failed) puts the item among
`raced` or `overtaken`. When the marking of a stale retry (`Stale`) is
weakened, the proof fails where it should, at lemma `FreshIsIdle`.

**Delivery.** In `CorpusCursor` a call may be anywhere between its reads. `IInv` says of the
tables that an item that is deposited has a time (`ItemsOk`) and that up to the cursor, which no
answer exceeds, everything has been read (`CursorsOk`), and of a call at each stage (`PullOk`)
what its values still mean: everything deposited up to its latest row has been read, so that
saving it keeps the cursor covered; the rows lie behind what it knew to be answered; and as
long as nothing has moved, the counts it folded are those of the items. A deposit falls after
every time a call may hold and a deleted slot only leaves less to cover, which is why they
disturb none of this. Completeness and the
displayed status compare numbers and speak of sets: lemma `Finished` goes from one to the other,
by the cardinalities of the selected, deposited and failed items. The same invariant gives the
refinement: a cursor is written where the code writes it, several awaits after the rows were
read and possibly after those of a competing call; that it moves forward is the `GREATEST` of the
upsert, that it passes over nothing is `PullOk`.

**Secrets and keys.** `StoreInv` follows a secret through the two stores: a creation has no row,
and its value is in the vault from its `create` on (`CreateInv`); a deletion removes the value
when the row is gone (`DropInv`); an identifier is used by one creation (`CreatedOnce`); a value
is that of a row, of a call that has yet to decide, or leaked (`ValueInv`). The exceptions are
the ghosts' (`unsure`: an insert that was committed and reported failed). For the keys
`ServiceInv` has that a promotion does not demote its own key and that no other call
writes a key that is being created, so that a commit that takes a primary key away gives another.

TLC finds `BoardInv`, `UploadInv`, `PoolInv`, `Orderly` with all it rests on, `StoreInv` and `ServiceInv`
to hold on the instances of the runs above. Doing so for `DepositKept`
with a third call and a third job showed that a retry in the
middle of a late answer of a worker takes a deposited item back, which is why such a
retry marks the item (see the gaps).

Only model-checked: the liveness properties `JobsSettle`, `DiscoveryAnswered`,
`TranscribedSettles`, `TranscriptionAnswered` and `SlotsEnd` (fairness and `ENABLED` are out of
the prover's reach) and the five counterexamples. Every invariant, every action property and
the refinements of the other runs have their theorem; `PoolSpec` of the scraped pipeline has its
theorem and no run.

## What is not modelled, and the plan

Not modelled because there is little state or control of its own: transcription providers
and the docflow gateway (a success or a failure), authentication, the encryption of local
secrets, MCP facade (formatting over the services), migrations (once, under a lock), the
frontend, deployment. The vault client is modelled as the secret store uses it, without its
grants and key derivation. The provisioning of user workers has no caller at this commit
(`routes/transcription_keys.py:47` only logs the intention), so its loop finds no row, and
what it would do to the claims of a running worker cannot happen. The websocket relay forwards
notifications that nothing depends on. The legacy routes write the same tables; what differs
is among the gaps above.

Built: `ScrapeOrchestrator` with `JobBoard`; `ItemTable`, `UploadIntake`, `Transcription`,
`Deposit`, `UploadPipeline`; `ScrapedDownloads`, `ScrapedPipeline`; `CorpusCursor` with
`Delivery`; the account modules; the proofs above. What remains, the most important first:

1. An abstract document life cycle (chosen, at work, transcribed, deposited, failed) that both
   pipelines refine, from `UploadInv` and `Orderly`.
2. What holds in place of the sentences the code does not keep, as theorems like
   `CapWithoutFailedClaim`: a cancellation that no discovery overlaps sticks, a failed discovery
   is reported when the process does not die on it, a row that no sweep has listed is not deleted.
3. The allocation of request keys, and the user workers once something starts them.
