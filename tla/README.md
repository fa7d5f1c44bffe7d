# QualityPilot in TLA+

QualityPilot is a FastAPI backend (`backend/app`) with a React client
(`frontend/src`) for analysing PCB quality problems: a LangGraph workflow
retrieves evidence, queries read-only business systems, drafts a
recommendation and waits for a human decision. Around it are an append-only
audit trail, an error history that raises alerts through an outbox, the
retention of checkpoints, and a knowledge base with embeddings.

Everything durable is in one PostgreSQL database, but no transaction spans two
stores: the audit trail, the LangGraph checkpoints, the outbox and the uploaded
files are written one after the other by concurrent requests and processes,
each of which may die in between. That is where the models are.

## Contents

| Module | What it is |
|---|---|
| `AlertOutbox` | outbox table, delivery workers, leases, retries, faults |
| `AlertPromise` | what the outbox promises about an alert (abstract) |
| `AlertOutboxProofs` | its theorems |
| `ApprovalRuns` | runs, approval requests, audit trail, checkpoints |
| `DecisionRegister` | a write-once decision, published later (abstract) |
| `ApprovalRunsProofs` | its theorems |
| `CheckpointRetention` | archiving and restoring next to requests that resume |
| `CheckpointRetentionProofs` | its theorems |
| `AlertScheduler` | scheduler, lifespan, metrics and alert routes, composed with `AlertOutbox` |
| `AlertSchedulerProofs` | its theorems, and those of `AlertOutbox` it inherits |
| `KnowledgeBase` | upload, backfill and lists: files, rows and vectors |
| `KnowledgePromise` | what readers of the knowledge base may count on (abstract) |
| `KnowledgeBaseProofs` | its theorems |
| `TextSplitter` | cutting a text into chunks, as functions |
| `TextSplitterProofs` | its theorem, by induction over the text |
| `AnalysisRun` | one run from its request to its answer: search, tools, model |
| `AnalysisRunProofs` | its theorems |
| `NumberLemmas` | least and greatest numbers of a set, for the proofs by induction |
| `ServiceErrors` | how calls of the services fail, and what that is answered with |
| `AnalysisPage` | the page on which an approver reads and decides |
| `MC*` and `*.cfg` | finite instances for TLC |

How they hang together: `AlertScheduler` extends `AlertOutbox` and shares its
variables; `KnowledgeBase` extends `TextSplitter` and `ServiceErrors`;
`AnalysisRun` extends `ServiceErrors` and implements the start request of
`ApprovalRuns`; `AlertOutbox`, `ApprovalRuns`, `KnowledgeBase` and
`AlertScheduler` each implement a smaller specification. Among the proofs,
`AlertSchedulerProofs` instantiates `AlertOutboxProofs`, `KnowledgeBaseProofs`
extends `TextSplitterProofs`, and both `TextSplitterProofs` and
`AnalysisRunProofs` extend `NumberLemmas`.

To check: `tlc -config outbox_safety.cfg MCAlertOutbox.tla` (and likewise for
every run in `PROJECT.json`), and `tlapm` on each of the modules
`AlertOutboxProofs`, `ApprovalRunsProofs`, `CheckpointRetentionProofs`,
`AlertSchedulerProofs`, `NumberLemmas`, `TextSplitterProofs`,
`KnowledgeBaseProofs` and `AnalysisRunProofs`.

## Inventory

Paths are relative to `backend/app` unless they start with `frontend`.

| Component | State | Operations | Interacts with | Hard behaviour | Correct when |
|---|---|---|---|---|---|
| Outbox store `agent/alerts.py` | `agent_alert_outbox`: status, attempts, due time, lease | `enqueue`, `claim_next`, `mark_delivered`, `mark_failed` | schedulers of every process, two routes | concurrent claims, leases that run out, late results, lost workers | one row per fingerprint; a lease excludes and the latest attempt decides unless a worker is late in reading its claim back; every alert is settled, once |
| Delivery `agent/alert_delivery.py` | none | `deliver`, `process_one` | the webhook, the store | ambiguous timeouts, classes of status codes | delivered implies acted upon; only plain rejections are final |
| Scheduler `agent/alert_scheduler.py`, `main.py` | the task, cycle counters | `start`, `stop`, `run_cycle_once`, `snapshot` | metrics, store, delivery | cancellation in the middle of a cycle, a cycle that raises late | cycles do not overlap; the loop survives errors; counters agree with the table |
| Alert routes `api/routes/agent_alerts.py` | none | `evaluate`, `process`, status | store, delivery, scheduler | race with the schedulers | the same as the scheduler's |
| Metrics `agent/metrics.py` | none (aggregates) | `snapshot` | audit and error tables | window boundaries | counts fall into their window |
| Approval and audit `api/routes/agent.py`, `agent/audit.py` | `agent_audit_events` | approve, read | workflow, client | two stores without a transaction, replays, rivals, reused ids | one decision per run, applied as recorded; replays are answered alike |
| Workflow `agent/workflow.py` | LangGraph checkpoints | `start`, `get`, `approve` | retrieval, tools, generator | failure in a node, two resumes of one interrupt | final status follows the decision; failed runs get none |
| Run errors `agent/run_errors.py` | `agent_run_error_events` | `append`, classify | start route, metrics | the error write itself fails | the stage is the node that failed |
| Retention `agent/retention.py` | archive manifests and payloads | archive, restore, preview | LangGraph's tables | table lock, copy and delete, resumed runs | nothing is lost, threads with a fresh checkpoint stay, a restore is exact |
| Generation `agent/drafting.py`, `services/generation` | none | `generate` | model API | retries around a format correction, fallback | bounded requests; a draft always results |
| Business tools `agent/business_tools.py` | none | `collect_business_context` | MES/QMS adapters | concurrent queries, timeouts | one failure does not hide other results |
| Ingestion `api/routes/knowledge.py`, `services/document_ingestion.py`, `file_storage.py`, `document_parser.py` | upload directory, `knowledge_documents`, `knowledge_document_chunks` | upload, list | embedding, file system | file and rows without a transaction | a row has its file unless the acknowledgement of its commit was lost; leftovers only after a crash or a removal that fails |
| Embedding `services/embedding` | chunk vectors | embed, backfill | embedding API | retries, order of vectors, concurrent backfills | each vector belongs to its chunk, written once |
| Search `services/knowledge_search.py`, `agent/retrieval.py` | none | vector, keyword, fused search | database | two transactions around a call, ranks, ties, duplicates | fusion keeps the order of the channels |
| Splitter `services/text_splitter.py` | none | `split_text` | ingestion | boundaries, progress | terminates, covers the text, keeps the size |
| Approval client `frontend/src/Analysis.tsx`, `lib.ts` | attempt key and request id | submit, refresh | approval route | answers that arrive while a dialog is open, retries, decisions edited in between | a decision is for the draft that was reviewed; a retry keeps its id |
| Other pages `frontend/src/Knowledge.tsx`, `Search.tsx`, `App.tsx` | view state | render, read | API | aborted reads | - |
| Security `agent/security.py` | JWKS cache | authenticate, roles | identity provider | - | role check before effect |
| Observability `observability.py` | counters, in-flight gauge | middleware | every request | exceptions, streaming | the gauge is balanced |
| Configuration, lifespan `core/config.py`, `main.py`, `db.py` | settings | validate, start, stop | all | order of shutdown | lease longer than the timeout, ... |
| Evaluation, scripts, migrations, schemas | - | offline or declarative | - | - | - |

`PROJECT.json` lists each with its status, and the places where this code can
go wrong in a way a test would hardly reach, with the property that covers it.

## The outbox (`AlertOutbox`)

`outbox` is the table by fingerprint (which is unique, so it names the row),
`worker` is what each sequential caller of `evaluate` and `process_one` is in
the middle of, `tokens` stands for the UUIDs of leases, `processed` for what
the receiver has done, `overtaken` for the alerts of which a late worker has
read a claim that was not its own. Each action is a piece of code that nothing else can
interleave with:

* `EnqueueCheck`, `EnqueueInsert`: the read, and the INSERT with its unique
  constraint (`enqueue`).
* `ClaimSelect`, `ClaimCommit`: `SELECT ... FOR UPDATE SKIP LOCKED LIMIT 1`
  and the commit of the lease (`alerts.py:149`). The lease counts from
  `claimed_at`, read before the SELECT, so a lease may be over when it becomes
  visible. The id that breaks ties is random: any row with the least due time
  may be first.
* `ClaimRefresh`: `session.refresh` (150), a SELECT in a transaction of its own.
  The record with which the worker posts and records its result is what this
  SELECT returns, so `claim_token` (the token the worker has written) and
  `lease_token` (the token of its record) are different fields. When a worker
  reads another's claim because its own lease was over, the alert joins
  `overtaken`, a history variable that no action reads.
* `Deliver`: the POST with every class of outcome. Timeouts, transport errors,
  429, 5xx and unexpected exceptions may or may not have been acted upon.
* `MarkDelivered`, `MarkFailed`, `LeaseLost`: one fenced UPDATE, which waits for
  a row lock, or the `ValueError` when it matches no row. The caller of
  `process_one` drops the lease then.
* `Tick`, `Die`: time, and death or cancellation of a worker at any point.

`RetryDelay` is `min(base * 2^(n-1), max)` in whole seconds; the configured
floats are abstracted to naturals. `last_error_kind` is the outcome. Clocks of
different hosts are one clock: the skew of two hosts is a lease that is a
little shorter or longer, and leases of any length are covered.

Bounds: `MaxFaults` bounds deaths and steps of the clock at which a busy worker
outlives its lease; time passes only while something is due in the future, so
no bound on the clock is needed. Two alerts and two workers give every race of
a holder with a successor and every choice between rows; `MaxAttempts = 2`
has a retry and a last attempt; a lease of two seconds can run out while the
row is selected, posted or answered.

Fairness (`FairSpec`): every statement a worker has begun ends, because the
webhook has a timeout, and the scheduler's loop keeps claiming whatever a
cycle raised (`_run_forever`). Nothing forces an evaluation or a fault.
Liveness has one-second leases and a receiver that accepts or times out.

### Runs

* `outbox_safety`: the invariant, the bound on attempts, leases, fencing,
  finality, and the refinement of `AlertPromise`. Leases and fencing
  (`LeaseProtects`, `LatestAttemptDecides`) are those of the worker that made
  the claim as long as the alert is not in `overtaken`. Afterwards only the
  fence remains: whoever changes a row has its current token and its attempt
  count, but two workers may have them, also a worker that was itself in time
  and reads the claim of one that overtook it. What does not depend on who
  holds a token holds throughout: a settled row is final, an alert fails for a
  reason, delivered means acted upon, and the promise.
* `outbox_refresh` (violated): `docs/PROJECT_STATUS.md:189` and `:354` say that
  a worker whose lease is over cannot put its result in place of that of the
  new one. It can when its lease is over at its own commit: another worker
  reclaims the row between the commit and the refresh, the refresh reads the
  other's token, and the late result passes the fence while the other still
  posts (`OnlyClaimantDecides`).
* `outbox_liveness`: every queued alert is settled.
* `outbox_attempts` (violated): `docs/PROJECT_STATUS.md:355` says that an alert
  fails when it reaches the maximum number of attempts. A lease lost in the
  last attempt is reclaimed for one more. `AttemptsBoundedByFaults` is what
  does hold: one extra attempt per lost lease.
* `outbox_redirect` (violated): a 3xx is recorded as delivered, against the
  at-least-once delivery of `docs/PROJECT_STATUS.md:354`. In the other runs
  the receiver does not redirect.

### Proofs (`AlertOutboxProofs`)

For all alerts, workers, settings and fault bounds. `OutboxInv` strengthens the
type invariant with: a row lock is exclusive and its row stays due until the
commit (`LockInv`); a token is written by one claim, and the lease beside it is
that of the claim (`TokenInv`); a record carries the attempts of the row whose
token it carries, and unless the alert was overtaken the token is that of the
worker's own claim (`RecordInv`); a worker with a success has reached the
receiver (`AnswerInv`). Each part has a lemma
with one step per action. The action properties and the refinement follow from
the invariant and the actions; the two theorems about deliveries assume that
the receiver does not redirect. The bound on attempts needs `BudgetInv`: a
pending row has attempts left, and a row whose attempts are used up has a
holder whose lease has not run out, or a fault still to be accounted for.

## Runs and approvals (`ApprovalRuns`)

`checkpoint` is the latest LangGraph checkpoint of each run, `audit` the row of
`agent_audit_events`, `handler` the state of each delivery of an approval
request between two awaits: `Receive` (role check and first read), `Judge`
(second read, early answers), `CheckExisting` and `InsertEvent`
(`append_decision`), `Approve` (the read of `workflow.approve`), `Load`,
`RequestApproval`, `Finalize` (`ainvoke`: LangGraph loads once and puts one
checkpoint per node), `Recheck` (the answer to the loser of a race), `Crash`.
`StartRun`, `RunNode`, `StartReturns`, `StartFails` are the start request; the
client knows the run id only when it has returned.

A payload is the run, the request id, the author (identity, authentication and
comment, which the code compares together) and the decision. The scenario of
`MCApprovalRuns` has five deliveries: a request and its retransmission, a rival
with the other decision, the same request id for another run, and an author
without the role. That is every way two requests can be related. LangGraph's
behaviour (a checkpoint after each node; a resume continues from the latest
checkpoint it has loaded; later puts win) is external.

Runs:

* `approval_safety`: `ApprovalInv`, accepted requests agree, an accepted
  decision is in the checkpoint, a retransmission is not refused when the
  original was accepted, failed runs stay undecided, and the two stores
  implement `DecisionRegister`.
* `approval_liveness`: with one run, two crashes and clients that retransmit
  until they have an answer, a recorded decision is applied for good. On the
  way a duplicate may put the pending checkpoint of `request_approval` on top
  of the final one, so a reader can see a completed run as pending again; the
  property says that this heals. Fairness is a request that is served to its
  end unless it dies, and the retry of the client
  (`frontend/src/Analysis.tsx:170` keeps the request id for that).
  Without the retry a decision can stay recorded and unapplied: nothing else
  in the backend resumes a run.

Proofs (`ApprovalRunsProofs`): `ApprovalInv` for all runs, requests and crash
bounds. Its core is `HandlerOK`: what a request knows between two awaits (the
audit event equals its payload, the run is decidable, the decision has been
put, or can never be recorded, `Barred`) is still true of both stores, because
events are never replaced, checkpoints never lose a decision and failed runs
never become decidable. `StableStep` and `BarredStays` prove that stability
once; `HandlerFrame` uses it for every handler that does not move, and
`HandlerMoves` treats the one that does. The other theorems are consequences.

## Retention (`CheckpointRetention`)

`source` holds the live rows of a thread as bundles, one per transaction of
LangGraph, and `written` all bundles ever put; a bundle is a checkpoint with its
blobs, or the rows of `checkpoint_writes`, which LangGraph commits before the
checkpoint they lead to and which carry no time. `archives` are manifest and payload; `lock` is the
operator whose transaction holds `SHARE ROW EXCLUSIVE` on the three tables.
`BeginArchive` computes the cutoff, `LockAndCount` takes the lock and makes the
checks, `CopyToArchive` and `DeleteSource` compare row counts, `LockAndCheck`
and `CopyToSource` are the restore, `Abort` is any failure inside a
transaction. The lock holds up LangGraph's writes but not its reads: a request
that has loaded the thread (`LoadThread`) puts its writes and its checkpoints
(`PutWrites`, then `RequestApproval` or `Finalize`) after the archive commits.
The counts of the three tables are one count of bundles; a restore's count
comparison is left out, since the payload tables refuse updates and deletes.

Runs:

* `retention_safety`: no bundle is lost whatever fails or resumes; the lock
  makes the counts agree; at most one active archive (which the code ensures
  by its lookup under the lock, before the unique index would); a restore
  gives back exactly the payload. `OnlyOldThreadsLeave`: a thread loses rows
  only when all of its checkpoints are older than the period, even when the
  archive waited for its lock. That is all that can be said: the code looks at
  the last checkpoint (`retention.py:163`), so the fresh writes of a resume
  whose checkpoint is not there yet go with an old thread, though
  `docs/INTERVIEW_KNOWLEDGE.md:865` speaks of the time of the last write. They
  are in the payload, and `NothingLost` covers them. One thread, two operators,
  two resumed requests, four days and two manifests: an archive, a restore and
  a second archive with resumes in all positions. Threads do not interact
  except through the lock, which both operators contend for.

A request that was already resuming makes an archived thread live again; the
tests build that state on purpose and want the restore refused, so it is no
property that archived threads have no live rows.

Proofs (`CheckpointRetentionProofs`): all of `retention_safety` for any threads,
operators, requests and periods. `RetentionInv` is inductive: the holder of the
lock relies on what it has counted and copied (`LockInv`), rows are numbered
and finite, so that counting them means something, and at most one archive of
a thread is active (`RowsInv`), and requests that wait or resume name what
exists, with a cutoff that the passing of days only makes older
(`RequestInv`). `LockFrame` says that an operator without the lock relies on
nothing and that nothing moves under the one that has it; `RowsPut`,
`RowsDelete` and `RowsRestore` are the three steps that move rows. `NothingLost`
is inductive next to it, the others are consequences.

## The scheduler (`AlertScheduler`)

The module extends `AlertOutbox`: its workers are the scheduler of each process
and each request to `/agent/alerts/evaluate` and `/process`. Alerts are hours,
since the fingerprint of an alert is made from the hour of its snapshot
(`alert_fingerprint`). To the outbox it
adds

* `app`, the lifespan of `main.py`: `Startup`, `Stop` (which cancels the task),
  `Cancelled` (the exception arrives at whatever the task waits for),
  `CloseClient`, `Closed`, and `Crash`;
* `loop`, where a cycle is: `SnapshotTotals`, `SnapshotStages`, `SnapshotKinds`
  (three statements of a READ COMMITTED transaction, each of which sees what
  is committed when it begins), `QueueFound`, `QueueCheck`, `QueueInsert`, then
  `DrainClaim`, `DrainPost`, `DrainRecord` until the batch is full or nothing
  is due, and `CycleReturns`. A request runs a part of the same steps, after
  `Evaluates` or `Drains` has checked the role of its principal;
* `tally` and `status`, the counters of the cycle under way and of the
  scheduler; `made` is a history of what it really did;
* what goes wrong: `Breaks` (a statement raises at any await), `DrainAckLost`
  (an UPDATE is committed and raises), `DrainLeaseLost`. `Interrupted` is what
  all of them do to the outbox: the transaction rolls back, the lease stays, a
  POST under way may have been acted upon.

Run `scheduler`:

* `SchedulerInv`: the status of a serving process says that its scheduler runs;
  the counters never exceed what was done to the table, and equal it as long
  as no cycle has failed. It is inductive with the parts of the proof (below).
  The counters are not equal afterwards: `run_cycle` returns its counts only at
  its end, so those of an alert settled before a later one of the batch raises
  are lost (`alert_scheduler.py:92`).
* `ClientOpenWhilePosting`: shutdown ends the task before its client.
* `BreakdownsCoverTotal`: three statements are not one snapshot, but the
  breakdowns can only be ahead of the total that raises a warning.
* `ImplementsOutbox`: a stop, a crash or a broken cycle is to the outbox what
  the death of a worker is, so all that is proved of `AlertOutbox` holds here,
  and no more: a late refresh is possible here too;
  the fault bound of the implemented specification is the sum of both bounds.
* `WarningIsQueued`, `StopCompletes`, `LoopSettlesAlerts`: a warning of an hour
  is queued before the hour ends, a stop ends, every alert is settled, by the
  loop alone.

Bounds: one process and one request (two processes share nothing but the
outbox, and the races of two workers there are those of a scheduler and a
request), two hours, one error event, a batch of two (so that one alert can be
settled before the next raises), one break and one lost lease.

Fairness (`FairComposedSpec`): time passes, a process that is down is started
again, a shutdown and a cycle go from one await to the next. Nothing forces an
error, a request, a stop or a failure; they are bounded. `WF` of `Cycle` is
justified by `_run_forever`, which survives every exception but cancellation,
and by the timeout of the webhook client.

Proofs (`AlertSchedulerProofs`): all safety of the run, for any processes,
requests, hours and settings, and `SchedulerImplementsOutbox`. The invariant
is joint: `OutboxInv` of the instance of `AlertOutbox` that is implemented,
`SchedulerInv` and `BreakdownsCoverTotal`. `SchedulerInv` is the status and the
counters together with where a task, its worker and its client may be at each
phase of the lifespan (`TaskInv`), the counts of a cycle against what it has
done (`CountInv`), the hour and the counts of a snapshot against the errors
that are there (`SnapshotInv`), and the account of faults (`BreakInv`): the
faults so far, and one for each task whose cancellation has not arrived yet, are
at most `MaxFaults` and the breaks so far. A stop is counted as a break when it
is asked for and as a fault of the outbox when it arrives, which is why the
fault bound of `ImplementsOutbox` suffices.
Each part speaks of one worker at a time; its lemma shows that a step of one
worker keeps it (`TaskStep`, `CountStep`, `SnapshotStep`, `BreakStep`) and a
frame lemma that it does not touch the others. `SchedulerInherits` then
carries the theorems of `AlertOutboxProofs` over to the composition.

## The knowledge base (`KnowledgeBase`, `TextSplitter`, `KnowledgePromise`)

`documents` and `chunks` are the tables, `files` and `temporary` the upload
directory, `request` what each request is in the middle of. The upload runs
`RefuseUpload` or `PrepareUpload`, `EmbedUpload`, `EmbedBatch` and `EmbedFails`
until the vectors are complete, `StoreTemporary` and `StoreReplace` (the write
under a `.tmp` name and the rename), `CommitUpload`, `Refresh`. A commit that
raises has been rolled back or applied (`CommitUploadFails`), and is followed
by `RemoveFile`, which may raise as well (`RemoveFileFails`), like the removal
of the `.tmp` after a write that failed (`StoreFails`); `uncleaned` are the
uploads whose removal failed. A backfill reads its targets in one transaction, embeds with
none open, and updates row by row (`WriteVector`, which waits for rows locked
by another backfill, as `UPDATE ... WHERE embedding IS NULL` does). `CommitBackfill` ends the
transaction and `AnswerBackfill` answers, after the client of the service is
closed, which may fail (`CloseFails`): a backfill can have written its vectors
and die or be answered 500. `CountDocuments`, `PageDocuments`, `CountChunks`,
`PageChunks` are the lists, with the total and the page read by two statements;
a page is the whole list, `limit` and `offset` are left out. `Dies` ends a
request at any await; a write or a rename that its thread has begun goes on
without it (`ThreadEnds`).

The embedding service answers a batch with any list of indices, in any order,
repeated, missing or out of range, and with vectors of no use: `Malformed` and
`Parsed` are `_parse_embeddings`. A retry (`Raise`) starts all batches over.
`Old` is a document from before the embedding column was added (migration
0003), the only one whose chunks can be without vectors.

`TextSplitter` is `split_text` on offsets, over texts of four kinds of
characters. The search for a break looks at the character after the target
too, so a chunk may have one character more than `chunk_size` when it ends in a
break; `SplitSound` says that, and that chunks cover the text, advance, and
overlap by no more than `Overlap`.

Run `knowledge`:

* `KnowledgeInv`: a document has all of its chunks, each with its own vector or
  none, the service is asked at most `MaxRetries + 1` times for a batch,
  backfills do not lock the same row, and a list never shows fewer rows than
  the total beside it.
* `UploadsAccounted`: which files may exist without rows and which rows
  without files. A commit that is applied without an acknowledgement loses its
  file (`ackLost`); a request that dies leaves its file or its `.tmp`, and so
  does one answered 500 whose removal of it failed as well. Nothing else does:
  a refused upload, also one whose embedding failed, leaves neither file nor
  row. Nothing in the code cleans up what is left.
* `BackfillsCountOnce`: concurrent backfills share the chunks, each reports what
  it wrote; one that is refused or dies before its commit has written nothing,
  and one that has written, even if it dies or is answered 500 afterwards, has
  left nothing of the document to do.
* `ChunksCoverText`: `SplitSound` for every normalised text up to the bound.
* `KeepsPromise`: the tables implement `KnowledgePromise`: documents appear
  whole, vectors belong to their chunks, are written once and never change.
* `RequestsEnd`: what has begun is answered, or dies. Backfills take their row
  locks in the order of the chunks' index, hence do not deadlock.

Bounds: one upload, one creation, two backfills and one list, in the three
combinations of `MCTogether` (uploads touch only their own document, so two of
them do not interact); texts of up to five characters with chunks of three,
an overlap of one and batches of two, so that there are one to four chunks and
one or two batches; one retry and two faults. Fairness is `WF` of each
request's next step: the service has a timeout, statements end, and a lock is
held only by a request that goes on. `Sizes` are the numbers of chunks of a
new document: none, or those a text is split into.

Proofs (`TextSplitterProofs`, `KnowledgeBaseProofs`): all safety of the run,
for any requests of any kind, any combination of them, any texts and settings.

`SplitIsSound` is an induction over the offset. The library's induction
theorems take an operator, which no prover here can instantiate, so it is by a
least counterexample: a nonempty set of numbers has a least element
(`LeastNumber`, from the well-foundedness of the natural numbers), and the
offset just before it leads to a contradiction. The same argument shows first
that the recursive function of cuts exists at all (`CutsExist`): a table of it
can be built for the last positions and extended by one to the left, since a
cut looks ahead only (`CutsLookAhead`).

Every request is described by what it knows of itself and the tables:
`PhaseInv`, `VectorsInv`, `CallsInv`, `LocksInv`, `TotalsInv`, and `TraceInv` or
`WorkCounted` by its kind. The joint invariant `KnowledgeSound` is that of all
requests and of the tables; `KnowledgeInvariance` shows it in two halves: one
lemma per action says that the request that moves keeps its own description
and that the tables only grow (documents are added whole, vectors filled in,
locks taken by the mover alone; `Grows`), and `OthersKeep` that under such a
step every other request's description still holds. `ParsedInOrder`
is the heart of the vectors: what `_parse_embeddings` accepts, in whatever
order it came, is one vector for each text in the order of the texts. The
refinement classifies each step as adding one document, filling in vectors, or
neither (`StepKinds`), and maps the three to `Publish`, `Fill` and a stutter.

## An analysis run (`AnalysisRun`, `ServiceErrors`)

One start request with everything its nodes call; runs share nothing but the
knowledge base, which grows in between (`Uploaded`). `status` is that of the
latest checkpoint, `phase` what the running node waits for.

* Retrieval: `SearchKeywords`, `CheckSearchable`, `EmbedQuery`,
  `SearchVectors`, `SearchBoth`, `SearchKeywordsOnly`. Distances are the
  database's: a search returns any ranking of any part of what it sees, up to
  its limit. `Fuse` is reciprocal rank fusion in whole units of `1 / Unit`,
  where `Unit` is a multiple of every divisor that occurs (`UnitAssumption`;
  there is one for all settings), so that scores are exact.
* Business tools: `CallTools`, `ToolReturns` (what an adapter returns may be
  too much, of another system or doubled: `Acceptable`), `ToolFails`,
  `ToolsReturn`. They are asked at once and end in any order.
* Draft: `DraftByRule`, `CreateProvider`, `AskFails`, `AskGarbled`,
  `AskAnswered`. One correction of the format inside each try, checks of the
  citations, and the fallback.
* `NodeRaises` is the classification of the error, its row in the history,
  which may not be written, and the answer. Besides the failures of the
  embedding service and the doubled tool, a node may raise what nobody
  expects: a search (`SearchRaises`), the drafting node, which catches only the
  errors of the generation service (`DraftRaises`), and the workflow around
  the nodes, at any of its awaits (`WorkflowRaises`). `Breaks` are these three.

Run `analysis`:

* `FusionKeepsOrder`: a fused ranking respects what the two channels agree on.
  The channels are read in two transactions around a call, so they may rank
  what is not the same knowledge base; no property says that they do.
* `DraftIsGrounded`: a draft cites only what was found, each piece once, and
  proposes nothing without citing.
* `NodesInv`: tools do not hide each other's results, and their records stay in
  the order of the tools; requests to the model are
  bounded by the `2 * (N + 1)` of `docs/PROJECT_STATUS.md:88`; the error
  history agrees with the checkpoint and the answer (`ErrorsAgree`: the stage
  of an error is the node that ran, `drafting` and `workflow` included, a
  retryable one was answered 503, an unexpected one 500, and an error of a
  service ends a run in retrieval only). With the two above and the parts of
  the proof it is inductive.
* `ImplementsRuns`: these nodes put the checkpoints of `ApprovalRuns` in the
  same order, so the run that `ApprovalRuns` decides about is this one.
* `RunEnds`: every request is answered, and by a draft unless the embedding
  service fails or something unexpected breaks the run; a model that fails
  never keeps it from its draft.

Bounds: three chunks of which one may appear or be embedded meanwhile, top two
of three candidates; no tools or two, each with at most one record more than
allowed; one retry. The five requests of `MCRequests` cover every mode of
search, both providers and the draft by rule. Fairness: `WF` of the work of the
request, all of whose calls have timeouts. `Breaks` are not fair: nothing has to
break.

Proofs (`AnalysisRunProofs`): the safety of the run for any knowledge base,
payload, number of tools and records, and settings. `NodesInv` is inductive:
next to what it is for, it holds the status that each phase belongs to
and that a run that is not over has no error
(`ProgressInv`), what is known between two searches (`HitsInv`), what an
adapter may have left (`ToolsInv`), and what has been asked (`AskingInv`: no
try sends more than `PerTry` requests; the total alone, `RequestsBounded`, is
not inductive). There is one lemma per action. Three of the steps are
arguments of their own:

* `FuseKeepsOrder`: a chunk that no channel ranks lower than another has at
  least its score in each channel and more in one, since `Unit` has no rest by
  any rank (`ShareValue`, `SharePlace`), so every sorted list has it first, and
  a cut of a sorted list keeps the order.
* `FlattenIsConcatenation`: the community modules define `FlattenSeq` by a
  recursive function; that the function exists for lists of any length, that
  each entry comes from one list, and that entries of earlier lists come first is
  shown once by least counterexamples, and `ContextEntries` reads the order of
  the business records from it.
* `CitedValue`, `FallbackGrounded`: what a draft cites is distinct and was found.

For the refinement, `RunStarts`, `RunNodeStep`, `RunReturns` and `RunFails` are
the steps of `ApprovalRuns` as they look under the mapping; `RetrieveMaps`,
`GatherMaps` and `WriteMaps` find for each step of a node the one it is.

## The analysis page (`AnalysisPage`)

`page` is the component's state and refs, `calls` its requests under way,
`hash` the address. A change of address aborts only the load it replaces; other
requests return to whatever is shown by then. `Reload`, `Navigate`,
`HashChange`, mounting and unmounting are modelled, and the answers of
requests whose component is gone. The approver can use what a modal dialog
leaves usable. What is typed in the dialog is two fields: `signer`, of which there
must be one, and `comment`, which an accepted decision clears, and both of which
are part of the key of an attempt.

Run `page_review` (violated): `frontend/README.md:33` has a draft approved or
rejected after a confirmed review. The dialog and its ticked box belong to the
page and not to a run: an analysis that finishes while the dialog is open
replaces the run under it, and the confirmation given for one draft decides
another. The server cannot notice, since the request is a proper decision on
the run it names.

## Checked, proved, assumed

Proved for all constants, under the assumptions named in the modules
(`SettingsAssumption` and its like are what `core/config.py` validates): every
invariant, action property and refinement that a passing run checks, of all
six components (`AlertOutbox`, `ApprovalRuns`, `CheckpointRetention`,
`AlertScheduler`, `KnowledgeBase` with `TextSplitter`, `AnalysisRun`). Each
follows from an inductive invariant that TLC checks as well, as part of an
invariant of its run.

Only model-checked: all liveness (`EventuallySettled`, `DecisionIsApplied`,
`WarningIsQueued`, `StopCompletes`, `LoopSettlesAlerts`, `RequestsEnd`,
`RunEnds`): it rests on fairness, and neither `WF` nor `ENABLED` is within
reach of the prover. The runs that expect a violation show one by a trace, and
`AnalysisPage` has only such a run, so nothing is proved of it.

Proved and no property of a run: `SplitIsSound` (TLC checks it for the texts
of `knowledge` through `ChunksCoverText`), `SchedulerInherits`, and the joint
invariant `KnowledgeInvariance`.

PostgreSQL's isolation and locks,
LangGraph's checkpointing, httpx and the webhook receiver are modelled as the
code uses them and are not verified.

Every property of a passing run has a mutant in `PROJECT.json`: a plausible
bug in one definition, written next to it, with which TLC finds the property
violated.

## Plan

1. Done: `AlertOutbox`, `ApprovalRuns` and `CheckpointRetention` with proofs.
2. Done: `AlertScheduler`, `KnowledgeBase` with `TextSplitter`, `AnalysisRun`
   with `ServiceErrors`, `AnalysisPage`.
3. Done: the proofs of `AlertScheduler`, `TextSplitter`, `KnowledgeBase` and
   `AnalysisRun`, with their refinements.
4. The request id of the page over edits and timeouts, composed with
   `ApprovalRuns`: a decision changed and changed back is sent with a new id,
   which the server treats as another request.

## Not modelled

* Token verification (`agent/security.py` beyond the roles): a function of one
  token and of a library; the cache of keys belongs to the library.
* The in-flight gauge and counters of `observability.py`: each request counts
  itself in one coroutine, with a `finally`; nothing else touches the entry.
* The knowledge and search pages: forms that show what one request returned.
* The search route: the retriever's searches for a client instead of a run.
* Parsing of file formats and validation of settings: one input, one answer.
  The settings' ranges are the assumptions on the constants.
* Evaluation and maintenance scripts: sequential and offline.
* Migrations and schemas: declarations. The constraints that matter are in the
  guards (unique fingerprint, one decision per run, one active archive,
  append-only tables).
