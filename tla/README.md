# ScrapeFlow: specifications and proofs

TLA+ models of ScrapeFlow (`src/`), the TLC runs that check them on small
instances, and theorems about them that TLAPS checks for every value of the
constants. The modules are translated from the source; `PROJECT.json` gives, for
every definition, the file and lines it stands for.

## The system

ScrapeFlow scrapes, crawls and extracts pages on behalf of its users. An API
process (FastAPI, SQLAlchemy) owns the rows in Postgres. Temporal workflows do
the work; the activities they call run in worker processes and write the same
rows. Results go to MinIO, host slots and rate limits are kept in Redis.

| Part | State it keeps | Operations | Talks to | Module |
| --- | --- | --- | --- | --- |
| Job lane: `workflows/job.py`, `activities/job_runs.py`, `routers/jobs.py`, `core/dispatch.py` | `jobs`, `job_runs`; the workflow's position | create, start, mirrors, record objects, finish, cancel, permanent delete | Temporal, ledger, webhooks | `JobRun` |
| Crawl lane: `workflows/crawl.py`, `activities/crawls.py`, `routers/crawls.py` | `crawls`, `crawl_queue`, `crawl_pages`; pages in flight | create, admit URLs, claim pages, record a page, finish, cancel, permanent delete, continue as new | Temporal, ledger, host slots, webhooks | `Crawl` |
| Batch lane: `workflows/batch.py`, `activities/batches.py`, `routers/batch.py` | `batches`, `batch_items` | create, fan out, item mirrors, finish, cancel | the job lane's workflows as children | `Batch` |
| Pipeline lane: `workflows/pipeline.py`, `activities/db.py`, `activities/webhook.py`, `routers/pipelines.py` | `pipeline_runs`, `pipeline_run_blocks` | trigger, block mirrors, record storage, effect blocks, cancel | Temporal, ledger, receivers | `PipelineRun` |
| Pipeline definitions: `pipelines/*.py`, `routers/pipelines.py` | `pipelines`, `pipeline_versions` | validate, create, edit, delete, choose the version to run | pipeline lane | `PipelineDefinition`, `SavedPipelines` |
| Schedules: `workflows/scheduled_job.py`, `activities/schedules.py`, `core/schedules.py`, `scripts/migrate_schedule.py` | schedule columns of `jobs`; Temporal Schedules | arm, edit, disarm, delete, tick admission, wait, skip, migrate, reconcile | quota, job lane | `Schedule` |
| Webhook delivery: `workflows/webhook_delivery.py`, `activities/webhook_deliveries.py`, `core/webhook_delivery.py` | `webhook_deliveries` | write a row, start, attempt, back off, sweep, retry by hand | receivers | `WebhookDelivery` |
| Storage ledger and quota: `core/ledger.py`, `core/quota.py`, `scripts/cleanup_old_runs.py`, `scripts/reconcile_storage_ledger.py` | `storage_objects`, `user_quotas`, the bucket | charge, release, read the meters, admit under the user's lock, clean up, reconcile | all lanes | `Storage`, and inside the lanes |
| Host limiter: `core/host_limiter.py`, `workflows/steps.py` | leases in Redis | acquire, poll, release | all lanes | `HostSlots` |
| Live status: `core/job_notifier.py`, the status sockets, `useLiveSocket.ts` | LISTEN connection, subscribers' queues | subscribe, notify, health check, reconnect | browsers | `Watch` |
| Rate limiter: `core/rate_limit.py`; users, keys, statistics: `routers/users.py`, `routers/admin*.py`; fetching and extraction: `src/*-worker` | Redis windows; `users`, `api_keys` | one transaction or script each | | in part, see Not modelled |

What is hard in it is in what these parts share. A row has several writers: the
API's cancel and delete, and activities that Temporal runs *at least once*, so
an attempt may be repeated, its answer lost after its commit, or it may be
timed out and run on beside its successor. A workflow may be cancelled at every
`await`, together with the result it awaits included. A charge, a refund and
the removal of an object are three stores' business. Starts of workflows are
made after the commit, best effort. A row in Postgres says what a Schedule in
the engine should do. `PROJECT.json` lists these places as "hazards", each at
its line, with the properties that cover it.

## Modules

| Module | What it is |
| --- | --- |
| `JobRun` | the job lane: runs of one user, their charges and objects, and everything that can be lost, late or repeated around them |
| `JobRunContract` | what a client may count on of a run: `JobRun` implements it, `Batch`'s children are it |
| `JobRunProofs` | theorems about `JobRun` |
| `Crawl`, `MCCrawl`, `CrawlProofs` | one crawl: its frontier, its workflow's main coroutine and page tasks |
| `Batch`, `BatchProofs` | one batch: its request, its children, its close |
| `PipelineRun`, `PipelineRunProofs` | one run of a pipeline: the block loop, its mirrors and its cancels |
| `PipelineContract` | what the owner of a pipeline run may count on: `PipelineRun` implements it |
| `PipelineDefinition` | the validator and the readers of what it accepts |
| `SavedPipelines` | concurrent requests on pipelines and their versions |
| `PipelinesProofs` | theorems about these two |
| `Schedule`, `ScheduleProofs` | recurring jobs: rows, Schedules, ticks, meters, the migration |
| `WebhookDelivery`, `MCWebhookDelivery` | deliveries, their workflows and the sweep |
| `Storage`, `MCStorage` | bucket, ledger and counter under every pass that moves them |
| `HostSlots`, `MCHostSlots` | the leases of one host and the workflows that wait for them |
| `Watch`, `MCWatch` | from a row's commit to the page that shows it |
| `NotificationProofs` | theorems about `WebhookDelivery` and `Watch`: what is told of an outcome |
| `SharedProofs` | theorems about `Storage` and `HostSlots`: what the lanes share |

Where one proof module extends two components, the definitions of one of them
carry its name (`StorageInit`, `WatchNext`, `DefinitionSpec`), since both are in
scope.


How they meet. `Batch` composes with the job lane through `JobRunContract`: a
child's moves are the contract's, and `ItemsKeepContract` shows that the
batch's own writers, cancel, finish and failed start, keep each run within it,
while `ContractHolds` shows that the real child does. `JobRun!hooks` and
`Crawl!hooks` are the rows that `WebhookDelivery!WriteRow` creates: the lanes
show that a row is written with the outcome, the delivery module what becomes
of a row. `ledger` in `JobRun`, `Crawl`, `PipelineRun` and `Storage` is one
table: the lanes show when they charge, `Storage` what overlapping charges,
releases and reconciliations make of it. `PipelineRun` takes its chain of
blocks from what `PipelineDefinition` accepts. A tick's child in `Schedule`,
after its admission, is a run of `JobRun`. The host slot each lane takes as one
step is `HostSlots`, the notification of each mirror `Watch`.

### JobRun

Per run: the row (`status`, `walled` for the storage error and the stage it
was for, `resultOf` for `result_path`, `hooks`), the store (`ledger`, `used`
for `storage_bytes_used`, `stored`), the API (`request`; per release `deleting`,
`freed`, `stale`) and the workflow (`pc`, `ret`, `asked`, `plan`, `cancelled`). A run is one scrape
stage and, if its job has an LLM step, one LLM stage; a stage's objects are one
unit of storage.

* An activity is one atomic step where its transaction holds the run's row
  lock: `JobRunStarted`, `JobRunProcessing`, `ReadLlmSettings`, `FinishJobRun`,
  `RecordOnStoppedRun`, `RecordAtWall`. The charge is two, `BeginCharge` and
  `CommitCharge`: `check_storage_quota` reads the counter without a lock.
  Whatever needs the run's lock waits in between (`txn`).
* At-least-once delivery: an attempt may be made whenever its call is in
  `asked`, also after the call was answered or given up ("rerun"). An answer is
  taken only by the call that is still awaited.
* `create_job`'s failed start is `StartRefused`, an accepted start the client saw
  fail `StartAmbiguous`, and a crash between commit and start `ApiDies`.
* A cancel from the engine is noted by a database step and ends a wait for the
  host slot. `CancelWithResult` is `task.done()` with a cancel delivered in the
  same activation: `_finish` re-raises.
* A release of the run's storage (a permanent delete by the user or an
  administrator, the deletion of the user, the nightly cleanup) is `BeginDelete`
  (enumerate the ledger, remove objects), then `CommitDelete`, `RefuseDelete` (an
  object stayed) or `AbortDelete`. `Releases` names how many may be open on one
  run: no lock keeps two apart, and each may follow another. One that commits
  takes its rows (`Take`); what another had enumerated of them is `stale` there
  and is refunded once more when that one commits, which `twice` counts. Refunds
  are applied at the commit; the row lock of `user_quotas` which the decrement
  takes is over-approximated by allowing more interleavings.
* A worker's attempt given up by the engine may write its objects later
  (`AbandonAttempt`, `AbandonedWrite`).

`JobRunContract` is the abstract specification: a run moves from pending through
running, and perhaps processing, to one outcome; outcome, result and webhook
row change in one step. It also says what it does not promise: a request whose
start failed may fail a run whatever it became. The refinement mapping is the
identity on the three variables a client sees.

### Crawl

The rows: `status` and counters of the crawl, `queue` (`crawl_queue`) and `page`
(`crawl_pages`) by URL, `ledger`, `stored`, `hooks`. The workflow: `pc`/`ret`
for the main coroutine, `task`/`reply` for the page tasks, and its fields
`inFlight`, `finished`, `stop`, `failure`, `cancelReq` under their names.

* The main coroutine holds the event loop between awaits: "loop" and "settle" are
  points where no page task moves (`Yielded`).
* Every activity locks the crawl's row for all it does, so it is one step.
  `claim_crawl_pages` may also be timed out, run on, and commit after its retry
  or after the end (`ClaimTimesOut`, `LateClaim`).
* `DeliverCancel` has the three things a cancel can do: interrupt a wait, be
  noted by a database call and take effect when it is answered, or escape while
  a failure is being drained.
* Continue-as-new is `Settle`'s second disjunct: the fields start afresh, the
  rows and the calls already asked remain.

Abstracted: a page and its objects are its URL, the frontier having one row per
URL; which pages a claim takes (any, instead of the oldest); depth, scope and
SSRF decide which URLs are refused, a choice here; a sitemap's entries arrive
with the links of the page; the host slot is one step;
`is_continue_as_new_suggested` is left to `PagesPerRun`; the crawl has a webhook
URL; the user's other storage is not counted, so `used` is the number of ledger
rows.

### Batch

Rows: `run`, `result`, `item`, `batch` with `completed` and `failed`, and
`announced` for its webhook. Workflow: `pc`, `next` to be started, `child`. The
transactions of a mirror, the cancel and the finish are two steps each, the
runs' locks (`mirror`, `held`) and then the batch's lock with the commit, since
it is between the two that another writer may close the batch. The counters are
recounted from the items (`Recount`). A child may end without an outcome (its
own calls exhausted), never start, or leave a stray mirror attempt behind.
`Relabelled` names the one state in which counters and items differ: a request
that believed its start failed overwrote a batch the engine runs.

### PipelineRun and PipelineContract

`run`, `block`, `output` and `note` are the rows; `at` and `act` the position in
the block loop and in its block; `engine` what became of a cancel. Content
blocks (scrape, clean) store, charge and hand on an object; effect blocks
(validate, webhook) pass on their input. A mirror is one transaction under the
run's row lock, and may be served again while its answer is outstanding. The
engine's cancel is delivered once: taken at the next boundary, passed on to an
effect block's wait, or raised with an answer (`Heard`, `InsideTry`: inside the
`try` of the loop it becomes a failure, outside it escapes). A mirror that was
timed out may still write (`Overrun`, `LateWrite`; `late` holds what such writes
carry).

`PipelineContract`: blocks in order, one at a time, each on the one before;
nothing begins or is delivered again after the run is over or its cancel is
requested; completed only with every block, failed only with the block that
failed. Its three exceptions are the three places where the code promises
less, and are named in its head. The refinement maps "running" and "waiting"
blocks to "active" and the failed start to a flag.

### PipelineDefinition and SavedPipelines

`PipelineDefinition` lets an owner draft: a chain of blocks that departs in at
most `MaxFlaws` places (type, source, format, engine, rule kind, declared input,
ceiling) from a well-formed one. `Accepted` is the conjunction of the
validator's rules, and a run then executes the definition as
`PipelineWorkflow` and the workers read it, each block taking no time or the
most its budget allows. The two sides are translated from different files:
that what the one admits is what the other can do is what the run checks.

`SavedPipelines` splits each request of `routers/pipelines.py` at its awaits:
what it reads first and what it commits. What may still refuse a commit are the
database's constraints, name and version uniqueness and the runs' foreign key.

### Schedule

`row` is the job's status, cron and lane, `clock` the engine's Schedule, `tick`
a ScheduledJobWorkflow, `run` the run a tick was admitted to. A request reads, commits the fields that
are dirty, then tells the engine; a call to the engine may be refused, may
succeed although the client saw it fail, or be overtaken. A permanent delete
tells the engine first (`Forget`, best effort and only on v2), then deletes the
row and with it the job's runs (`Drop`), or keeps the job when an object stayed
(`KeepsJob`). An admission reads the
job before it takes the user's lock and finds its own run when it is a retry.

The meters count rows, as the two quota views do, and each lane as it makes
them. `first` is the run made with a job, `others` and `units` single runs and
batches (one slot, a unit for each item). A crawl is admitted against the pages it may
fetch, holds one slot while it is open, and each page it claims later
(`ClaimPage`) takes a unit that nothing asks for. A pipeline's run is one unit;
it holds a slot only while one of its blocks runs, and each block that begins,
or begins again after a wait, takes it without being admitted (`BlockRuns`).
Deleted rows are counted no more (`Drop`, `RowsDeleted`). So what holds of a
meter is what admissions granted: `Slots` are the submissions in flight without
running blocks, `Admitted` the units without claimed pages. The meters
themselves may be passed (Observations).

`mover` is the migration script between its engine call and its commit,
`Reconcile` its `--reconcile` pass. Where a crash, a lost answer, a second writer
or a failed move of an active schedule to v2 sets row and engine apart, the job
joins `drift` until a reconciliation.

### WebhookDelivery

Time is relative: `due` is `next_attempt_at` minus now, `nap` what is left of
the workflow's sleep, `Tick` lets one unit pass. An attempt posts while it holds
the row's lock (`BeginAttempt` … `EndAttempt`), as the code does, so a second
attempt waits; an attempt the engine timed out goes on as a stray. The attempt
may be lost before its commit, after it, or with its answer. `RetryLoads` and
`RetryWrites` are the administrator's retry, whose ORM writes only the columns
that differ from what it loaded. `Sweep` reads at most `SweepBatch` overdue
rows, the oldest first, and starts them one by one; a start whose workflow id is
taken does nothing.

### Storage

`bucket`, `ledger` (object to recorded size), `counter`, and two release passes,
each a permanent delete, a nightly cleanup or the deletion of a user: it reads
the rows it will release, removes objects one at a time, any of which may fail,
and commits rows, refund and cascade together, or loses its transaction. A
worker stores an object under its artifact's key, at first or again: `Store`
repeats, also after a pass or a walk has removed the object, and `again` of that
pass or walk holds the objects that came back so. The branch for runs older than the ledger stats its objects instead. The
reconciliation walks a listing it took at its start, then drops rows whose
object is missing and sets the counter from a sum it read before. `tangled`
says that two transactions that move the counter overlapped (two overlapping
releases both decrement), `unread` holds rows
that came after a pass had read the ledger, `owed` what the counter is known to
hold for no row. A repeated upload has the size of the first.

### HostSlots

Every duration is what is left of it and `Tick` takes a unit from all, so time
has no bound; a Tick waits for what the engine would not let last longer. A call
to Redis may be lost before it ran, run late, or lose its answer. `delay` is the
part of the next poll that doubles with each ask. The lease, its
key's expiry and the scrape's own time limits are separate clocks, which
`SlotsHold` relates.

### Watch

`statuses` is a row per run, `wire` the notifications under way, `queue` a
subscriber's, `conn` the LISTEN connection ("half": lost and not noticed).
Three sockets read and then subscribe (`Early`); the pipeline's subscribes
first. A mirror notifies in its own transaction (`Advance`). `Silent` are the
transitions a request commits without a notification (`AdvanceSilently`): a
pipeline's run failed at its start, from whatever an ambiguous start has made of it; a
batch said to run once it was started. `quiet` remembers the runs whose last
transition was one of these. A page whose socket closes without an end opens another.

## Runs

| Run | Instance | What it shows |
| --- | --- | --- |
| `jobrun_perils` | 1 run, limit 2, 2 releases at a time, every peril, 2 budgeted per behaviour, fair | no path charges, stores, announces or frees inconsistently; each step is one of the contract; the run ends and gives back its slot |
| `crawl` | 5 URLs, 4 pages at most, 2 in flight, storage for 2, continue-as-new after 3; 1 budgeted peril besides repeats, cancels and a delete, fair | counters and ledger match the pages, fetches stay within their bounds, a closed crawl stays closed, every crawl closes |
| `batch` | 3 items, 2 in flight, 2 perils, fair | counters, items, runs and status agree; closed is closed; each item's run keeps the job lane's contract; every batch closes |
| `pipeline` | all chains of 3 blocks, 2 attempts, storage for 1, 2 perils, fair | what is handed on is charged; the run implements `PipelineContract`; it ends |
| `definition` | all drafts of up to 4 blocks, at most 3 allowed, at most 2 flaws | what is accepted runs as it was saved, within budgets nothing before can cut |
| `saved` | 2 clients, 4 requests, 3 pipelines, limit 1, 3 versions | a run's version outlives edits and deletes beside it; a kept secret is the one of the version before |
| `schedule` | 2 jobs (one armed by v1), 2 ticks, 2 requests, 1 crawl at a time, cap 1, 1 concurrent, 2 monthly, 2 perils, fair ticks | what admissions granted stays within the meters, and what requests armed within the cap; Schedules follow rows, deleted ones too; every tick ends |
| `webhook` | 2 rows, 2 attempts, sweep of 1, 2 perils for one row, fair | no needless second acceptance, outcomes earned and final, sleeps match rows, every row ends |
| `storage` | 3 objects (one from before the ledger), 2 passes, 1 reconciliation, 1 failure or repeated upload | the counter is accounted for, no row is dropped over its object unless a worker put it back meanwhile, a reconciliation left alone repairs everything |
| `storage_orphan` | the same | see Findings |
| `hosts` | 3 scrapes, 2 slots, one long attempt, 1 peril | the limit holds, leases outlive scrapes, nothing is left, no wait passes the cap |
| `watch` | a page on a job of 2 runs, one on a pipeline's run, whose start may fail without a notification, queues of 1, 1 loss, fair sockets | connections are counted, the socket that subscribes first misses nothing that was notified, both clients are told an end |

Every property of a passing run has a mutant: an edit of one modelled
definition such as a programmer could make, under which TLC finds the property
violated. They are the operators whose comment says "Mutant of" or "A bug".

### Bounds

`MaxPerils` (`MaxFailures` in `Storage`, repeated uploads included) bounds the
failures of one behaviour, never its length; repeated attempts, lost answers, cancels and deletes are not counted where the table
says "besides". Each bound was chosen for a case that needs it:

* Job lane. Two budgeted perils let any two of a lost start, an abandoned worker,
  an aborted transaction and a failed removal meet on one run. Two
  releases overlap, and one may begin after another has committed or aborted: the
  run reaches a counter below the ledger, which `twice` accounts for. The
  statements about several runs (the shared counter) are theorems.
* Crawl. One URL finds the frontier full, a page is left over when the storage
  limit is hit with two in flight, and three finished pages force a
  continue-as-new with pages to come. Four URLs with two budgeted perils were
  run as well, without an error; that takes too long to be kept.
* Batch. Three items with two in flight leave one to be started after a cancel,
  a failed start or a close; with one item outcome and close coincide.
* Pipeline. Three blocks have a first, a middle and a last; storage for one unit
  with up to two content blocks makes the limit bind in mid-run; the second
  attempt is the last.
* Definition. A block's rules look at the block before it and at its source, so
  three blocks hold every pair; two flaws let one hide the other. 14000 s lies
  between the budgets of scrape, clean, webhook and of scrape, LLM, webhook, so
  that both verdicts occur.
  The fourth block only exceeds the ceiling.
* Saved pipelines. Two requests in flight are the race; four let a pipeline be
  made, edited, run and deleted.
* Schedule. A meter of one with two jobs is where two admissions collide; a
  monthly limit of two ends the month within a behaviour. Two requests are an
  edit and a delete on one job, or a submission of another lane beside either.
* Webhook. Two attempts have a first, a last and a backoff between; a sweep of
  one row with two overdue is where starvation would show.
* Host slots. Durations are scaled, keeping their order: poll and answer below
  the margin, the wait's cap a few polls. Three scrapes at two slots have one
  that waits, and one longer than the other's lease.
* Watch. A queue of one overflows at the second update. `Silent` has the failed
  start from each state; a batch's silent transition is covered by the theorems.

Deadlock checking is off where a system comes to rest (all runs over, all
requests used). `definition`, which has no other end, and `hosts`, whose clock
ticks on, keep it.

Symmetry: clients, pipelines and names in `saved`, the two passes in `storage`,
the two short scrapes in `hosts`. None of these checks liveness.

### Fairness

Fair is what the engine and the processes promise: a call is attempted until it
is answered or given up, a timer fires, an activation runs, a Schedule keeps
firing, and the request that committed a row goes on unless it crashes, a
peril. `JobRun` gives strong fairness to steps that wait for a row lock, since
Postgres queues waiters but the lock is taken and released many times; `Batch`
does so for a finish that a mirror can overtake. `Crawl` asks for less: weak
fairness of the request, and of the whole of engine and workers, so that it
holds for any order in which these serve calls. `Watch` assumes a page that is
kept open and a socket that times out; not that a notification arrives.

Not assumed: that a best-effort start is made, that the engine hears of a
cancel, that a failure happens, that a receiver ever accepts. Where the code has
nobody to end a run, after an API crash between commit and start or when the
finishing call exhausted its retries, the liveness property names it
(`gaveUp`, `escaped`, `over`, `cutShort` or `stranded` in `RunEnds`, `CrawlEnds` and
`BatchEnds`) instead of the model leaving it out.

## Proofs

All are for any number of runs, rows, attempts and failures, and use only the
named assumptions on the constants. `JobRun`:

* `TypeCorrect`: `Spec => []TypeOK`, one lemma per group of actions.
* `EndedRunsAreStopped`: `EndedRunIsStopped` is not inductive: that a workflow which
  ended has stopped its run depends on the answer that made it end, which may
  be old. `FlowInv` ties, for each run, the position to the status the row can
  have had there (`InOrder`), the row to the calls made so far (`Reached`), and
  an answer in hand to the status now (`Answered`: a run never goes back).
* `CompletedRunsAreCharged`: `PayInv` says that the workflow passes a charge only when
  the ledger holds the objects or the run is over (`PaidFirst`), that a
  finish call carries the last stage charged (`RightResult`), and what a delete
  may have released (`Released`).
* `ChargedObjectsAreStored`: `StoreInvOf`: an open charge, and a charge that may yet be made,
  is for objects that exist. Hence no discard can come between.
* `CounterCovers`, `CounterSums`: the counter against the cardinality of the
  ledger. Without overlapping releases the counter is never below the ledger;
  with them, by at most the units they refunded `twice`, whichever charges,
  refunds, aborts and cascades cross. It rests on `Released`: what an open release has
  freed is still in the ledger, since rows another took meanwhile are `stale`.
  `CounterSums` is equality, only where nothing is permanently deleted: a delete that races a charge breaks it
  (Observations).
* `OutcomesAnnounced`: `OutcomeAnnounced` is inductive run by run. `Settles` has what a
  step may do to a row's outcome: nothing, take it where no webhook is due, or
  write the webhook with it.
* `NothingIsOrphaned`: `OrphanInvOf` says that a stored object is charged, or awaited: the
  workflow is at a place from which every path charges or discards it
  (`Awaited`), and that a released object does not come back (`Tidy`), because only a
  call to charge makes a ledger row (`Entitled`) and only an abandoned attempt, which
  the property excepts, stores after it.
* `Refinement`: `Spec => ContractHolds`, one lemma per group of actions.

The proofs go action by action; since an action touches one run, `StepsAreLocal`
reduces an invariant of all runs to that of the run that moved.

`WebhookDelivery`: `TypeCorrect`, `AcceptedOnceHolds`, `OutcomesAreEarned`, `SleepsMatchRows`
and `DeliveredRowsStay`, all from one inductive invariant `Inv` per row: who may hold the
row's lock (`Locked`), that a row not yet written has nothing
(`Unwritten`), that an unfinished row has attempts left, that acceptances are
accounted for by the row's state and the lost commits (`Accounted`), and the two
properties themselves. `AcceptedOnce` needs `Accounted`, because an acceptance
is counted before it is committed.

`Crawl`: `CrawlInvHolds`, and from it `CountersHold`, `ChargesHold`, `FetchesHold` and
`ClosedHolds`, for any site, any bounds and any number of perils. None of the four is
inductive. `CrawlInv` ties, for each URL, its row in the queue to its page's and
its task (`Frontier`). That a claim overfills nothing, however late or
repeated, rests on its input: it was told of the pages in flight (`Asks`,
`Claiming`), so what is claimed besides is handed back first, and the claimed,
the charged and the new pages together stay within the bounds (`Bounds`). That
no page is fetched twice rests on a task that ends having recorded its page, or
set the failure that keeps the main coroutine from claiming again (`Once`);
continue-as-new is what breaks it. `Closing` has the finish_crawl answer that
the workflow returns on.

`Batch`: `BatchInvHolds`, and from it `BatchAgreesHolds`, `ClosedBatchesStay` and
`BatchKeepsContract`. `BatchAgrees` is not inductive: a recount is right only if
no other writer is between its two locks. `BatchInv` adds who holds which run's
lock and what it is about to write (`Locks`), and what the request, the workflow
and the rows can be at the same time (`Lifecycle`). `ItemsKeepContract` is an
instance of the contract per item; its proof shows which of the contract's
steps each of the batch's own writers is.

`PipelineRun`: `RunInvHolds`, `OutputsCharged`, and `RunKeepsPromise`, the refinement of
`PipelineContract`. That a block's output is charged depends on what a mirror
that outlived its call may still write: `RunInv` says how the run's row follows
the workflow (`RunFollows`), what the blocks before, at and after the workflow's
place can be (`InOrder`), which late writes there can be (`Lateness`), how often
the webhook was told (`Telling`), and what is charged at each place (`Paid`). The
refinement takes the contract's step from the action, with the places that
`InOrder` leaves.

`HostSlots`: `HostInvHolds`, `LeasesHold`, `WaitsAreCapped`. A lease lasts as long as its
scrape because of arithmetic over clocks: `LeaseLasts` keeps, for each place of
a scrape, the lease's remainder against all that is left of the scrape (`Rest`),
and the slack that remains of the margin after a pause and an ask. It uses
`Answer + PollMax < Margin` and `0 < BusyPoll <= PollMax`, which the source's
constants satisfy (`DurationsAssumption`), and no other relation of durations.

`Storage`: `StorageInvHolds`, `StorageAlwaysHolds`, `RowsAreKept`, `RepairsComplete`. The
sum of a ledger is the cardinality of its bytes (`BytesOf`), so that what a row
adds and a release takes are facts about finite sets (`BytesSplit`,
`BytesOfMore` and the lemmas beside them). `StorageInv` says where objects, rows and
a pass's position can be (`Placed`, `PlacedPass`: what an open pass or the walk has
removed is gone from the bucket, or it is in `again`, because a worker stored it once more);
which transactions make the counter `tangled`
when they overlap (`Apart`); that a row a pass will delete is over an object it has
removed, failed on, not read or seen stored again (`Covered`), which is
`NoRowIsDroppedOverItsObject`: a charge or an upload in that window is all that can
leave an object without its row, whatever fails;
that what the counter holds beyond the ledger is what passes have yet to release
(`Accounted`, with an account for each open pass); and what a walk has seen so
far (`Walked`, and `Repairing` for one beside which nothing moved). It assumes that
there are finitely many objects, that the old ones are among them, and that
`Nobody` is neither an object nor a pass.

`Watch`: `WatchInvHolds`, `CountsAreExact`, `NothingIsMissed`. A socket misses nothing
because of three places a status can be: what it told, its queue, the wire.
`Follows` says that one which subscribed before it read, and whose connection has
not gone since, has the last of them equal to what its run has come to, as long as
that was notified (`quiet` names the runs where it was not, until they are notified
of again), and `Wired` that the wire never says what a run has not come to. It assumes a finite
set of watchers, for the count.

`Schedule`: `ScheduleInvHolds`, `MetersAlwaysHold`, `EngineFollows`. What admissions granted
is bounded by counting (`SlotsHold`, `MonthHolds`, `Armed`): only an admission adds to
`Slots`, `Admitted` and, but for the migration, to the armed schedules, and it looked at
more than these, under the lock it adds them under; blocks and pages, which nobody admits, are in neither
sum. That a failed PATCH arms nothing needs that only a write that leaves a schedule active is ever undone
(`Sound`, `SoundRequest`). For the engine, `Tracked` says of a job that is not in `drift` that one
writer at most is on it, that the row is what this writer read or wants, and that the
engine's Schedule is still the one of what it read; `Reconciling` that the rows
a reconciliation read are still those of the jobs nobody has touched since. The
proof needs two or more requests on a job to put it in `drift`, and showed that a
failed move to v2 does too, whatever lane the schedule came from.

`SavedPipelines`: `SavedInvHolds`, `RunsStayPinned`, `SecretsAreCarried`. Neither property
is inductive: a run's row and an edit's next definition are made from what the
request read, before its commit. `SavedInv` says that what a request in flight
read is still what the rows say, unless they are gone (`Pending`): versions are
never rewritten, so an edit was made from the version it numbers itself after,
and `Conflict` is what makes that one still the latest when the edit is saved.
A pipeline's rows stay, appear, grow by a version or vanish (`Evolves`), and they
vanish only where no run has them. The proof needs that what stands for no name and for
no secret is neither (`NamesAssumption`, `SecretsAssumption`).

`PipelineDefinition`: `DefinitionInvHolds`, `SavedRuns`, `BudgetsHold`, for any limits on
the number of blocks, on a run's time and on a draft's departures. Validator
and interpreter are related block by block (`Wiring`): what a block has handed on
is the object of the nearest content block, and that object is what its
reference type promises (`ObjectOf`), so that the next block's input is what
`TypesFit` looked at. `OnTime` bounds the time spent by the sum of the needs of the
blocks behind; a block's need covers what it can take, the wait for its host
and the database included (`TimeLeft`), and the run's budget covers the sum
(`NeedsGrow`). The readers of a definition are recursive functions;
`RecursionIsFunction` shows that such a function exists, by the least place where
it would not, and so what it is at each block.

The inductive invariants were first checked by TLC on the instances of the runs.

Every safety property a run checks, invariant, action property or refinement, is
a theorem. Only model-checked is liveness (`RunEnds`, `PendingEnds`, `CrawlEnds`,
`BatchEnds`, `TicksEnd`, `EndsAreTold`), which depends on fairness and on what is
enabled, and is beyond the prover.

## Findings

* `storage_orphan`: the reconciliation script attributes an object to a run or a
  page, never to a pipeline's block (`reconcile_storage_ledger.py:107`). What a
  block has stored and not charged yet counts as an orphan and is removed.

## Observations

Seen while modelling and reachable in the models (or next to them), without a
run of their own. The models have the code's behaviour; the properties name the
exception.

Job lane and its neighbours:

* A retried `record_job_objects` that finds the storage limit reached fails a run
  whose objects are charged (`job_runs.py:186`, against the docstring at 172).
* `_finish` does not note a cancel delivered with a result (`job.py:236`, against
  230): the workflow ends and the run stays active.
* A charge between a permanent delete's enumeration and its commit is taken by the
  cascade without a refund (`jobs.py:486`).
* `fail_unstarted_run` (`dispatch.py:68`) and `fail_unstarted_crawl` (`:245`) overwrite a
  cancel, or after an ambiguous start an outcome; `fail_unstarted_batch` also leaves
  `completed` stale. A crash between commit and start leaves a row active for ever.

Crawl and webhooks:

* A cancel while a failure is being drained ends the workflow without
  `finish_crawl`, and pages fetched are never recorded (`crawl.py:177`).
* A retried admission of a refused seed lets the crawl complete with no page
  (`crawl.py:203`). Continue-as-new forgets a failure noted while the last pages
  of a run end (`crawl.py:230`): the page is fetched again, which `FetchesBounded` excepts.
* A page whose record exhausts its retries leaves its objects in MinIO, as do
  screenshots uploaded before `BlockedPage` is raised.
* An administrator's retry of a row whose workflow sleeps has no effect until the
  old timer fires (`admin.py:448`); one that loaded a pending row just before it
  was exhausted is lost (`admin.py:439`).

Pipelines:

* A cancel after a "running" mirror that committed and lost its answer leaves the
  block's row "running" for ever. A cancel raised with an answer outside the
  loop's `try` (`pipeline.py:301`) leaves the run running with no workflow; inside
  it, a block fails whose object exists uncharged. A mirror that outlived its
  call can overwrite a block's outcome.
* `create_pipeline` counts without a lock, so two requests can pass the limit. A run
  request that read before a soft delete still starts a run. An update that
  races a hard delete ends in an unmapped error.

Schedules and meters:

* A crawl's pages are checked against the month when it is admitted and charged
  as they are claimed (`crawls.py:44`), so two crawls, or a crawl and other runs, pass the
  monthly limit. A pipeline's run frees its slot between blocks and takes it again
  without asking (`quota.py:9`), so the concurrent limit is passed too.
* A delete that cannot reach the engine leaves a Schedule that fires for no job (it is
  answered "stopped"), as its docstring says (`schedules.py:120`).
* An admission reads the job before the user's lock: a run can be admitted for a
  schedule paused meanwhile. An admission that exhausts its retries after its commit leaves a
  pending run without a workflow, which holds a slot.
* Overlapping edits can leave the engine with the older Schedule, and a removal
  beside a resume a row that is active without a cron; only `--reconcile` repairs
  the first. `--reconcile` beside a request can undo the Schedule just put.
* `migrate_schedule.forward` restores "active" without asking the cap, from a row it
  read before. A v1 schedule that a failed PATCH moves to v2 fires nowhere, although
  every armed schedule is said to be a Temporal Schedule (`routers/jobs.py:111`); nor
  does one that overlapping edits had left without a lane. The latter takes six
  requests, beyond the run's bound: the proof of `EngineFollows` found it.

Shared parts:

* A job's permanent delete, an administrator's, the deletion of its user and the nightly
  cleanup read the rows and decrement without a lock between them
  (`ledger.py:154`, `jobs.py:462`): two that overlap refund one row twice, and the counter
  falls below the ledger. A
 reconciliation beside a
  charge or a release writes a stale sum. A nightly batch none of whose runs
  could be freed stops without a commit though objects are gone. A legacy run
  that the reconciliation gave a row is released twice when the row's removal fails
  and the legacy branch's succeeds (`ledger.py:162`).
* A retried or abandoned attempt uploads to the same key (`scrape.go:57`). Between a
  release's removal and its commit that leaves an object whose row is dropped.
* A lost or late call to Redis leaks a lease until it expires; a lease outlives its
  scrape only because `HOST_LEASE_MARGIN` exceeds the longest poll and the
  activity's timeout together, 60 s against 45 (`DurationsAssumption`).
* The job, batch and crawl sockets read before they subscribe and may miss an
  update until their timeout; a client that is gone holds its connection's
  place until the next send; a job's socket closes with any of its runs' end.
* `create_run`'s failed start commits "failed" without a notification
  (`pipelines.py:635-642`): a page that is already connected learns of it only when
  its socket has timed out, whichever order it read and subscribed in. Nor is a
  batch's "running" notified (`batch.py:131`).
* The rate limiter's `Retry-After` is floored to seconds (`rate_limit.py`): a client that waits so
  long may be refused again.

## Not modelled, and why

* Rate limiter: one Lua script per request, atomic, without a second actor.
* Users, keys, statistics: single-transaction reads and writes; the deletion of a user
  and the quota columns are in `Storage` and the lanes.
* Fetching, rendering, extraction and LLM calls: I/O. Workers appear as what they
  store, answer, take in time and leave behind.
* Depth, scope, robots and SSRF rules: they decide which URLs are refused, a choice
  in the models; they are pure and covered by unit tests.
* Front ends: `useLiveSocket` is in `Watch`; the rest renders what the API answers.
  The MCP server calls the same routes.
* Alembic migrations, gate scripts and replay histories: run once, or data.
* Cron and time zones: a tick is any time. Change detection and the dedup of equal
  results: they choose a payload.
* Quota reset at a month's turn: a behaviour of `Schedule` lies within a month.

## Plan

All lanes and shared parts are modelled, and the safety properties proved. What
could be added is of the model: the rate limiter's window, a schedule over the
end of a month.
