# A TLA+ development for reflowfy

reflowfy runs data pipelines. A *reflow manager* plans an execution (a pipeline
run) into jobs stored in PostgreSQL, sends the jobs to Kafka, and *workers* fetch,
transform and deliver the records of one job at a time. Everything that makes this
hard is a protocol between processes that die, stall and retry, and that meet only
in a few database columns and in a Kafka topic: two kinds of lease on the execution
row, a lease and an attempt counter on every job row, and state columns that are
read in one transaction and written in another. That protocol is what the modules
here describe, from `src/reflowfy`, and what their runs and proofs are about.

Paths below are relative to `src/reflowfy/`.

## 1. Inventory

### Components

| Component | State | Operations | Hard because |
|---|---|---|---|
| Job rows (`reflow_manager/job_manager.py`) | `jobs.state`, `attempts`, `dispatched_at`, `heartbeat_at` | insert, mark dispatched, claim, heartbeat, settle, cancel unstarted, requeue failed, reclaim expired leases | every writer uses its own `WHERE`; some writes have none |
| Execution row (`reflow_manager/execution.py`) | `executions.state`, `plan_complete`, `driver_id`, `driver_heartbeat_at` | create, set state, pause, resume, cancel, reopen, claim / refresh / release the lease, list interrupted | state checks and state writes are separate statements |
| Planning (`pipeline_runner.py`, Phase 1; `app.py`) | planning lease, heartbeat thread, batches saved so far | resolve, save batches, check for a stop, complete, hand over | a plan that is being written looks like one that was abandoned |
| Drive loop (`pipeline_runner.py`, Phase 2; `dispatcher.py`) | driver id, fetched batch, in-flight count, final state | stand by, beat, sweep leases, count, fetch, send, mark, settle, release | acts on counts and states read earlier; several loops compete |
| Worker delivery (`worker/consumer.py`, `worker/executor.py`) | the uncommitted message, the claim | poll, claim, run, beat, report, commit | messages are redelivered and duplicated; the database may be away |
| Crash recovery (`app.py`, `pipeline_runner.py`) | — | free leases of this host, find interrupted executions, resume, fail abandoned plans | runs while the "dead" manager may be alive |
| Execution API (`app.py`, `manager.py`) | — | run, pause, resume, cancel, force-fail, retry-failed | two transactions each, in between anything happens |
| Rate limiter (`rate_limiter.py`) | tokens and last refill per key | acquire, peek | refill arithmetic, shared row |
| Content deduplication (`execution/content_dedup.py`, `content_dedup_scheduler.py`) | record claims | claim, release, confirm, purge by age | a failed job releases claims another run may rely on |
| Dead letter queue (`dlq_scheduler.py`, `dlq_routes.py`) | dead-letter rows, attempts, next retry | poll, dispatch, archive, cancel | crash between dispatch and mark |
| Cron scheduler (`pipeline_scheduler.py`, `schedule_routes.py`) | `next_run_at`, `enabled` | poll, trigger, sync with the registry, reset | crash between trigger and commit |
| Local mode (`local_dispatcher.py`) | — | run jobs inside the drive loop | jobs and loop share one thread and one lease |
| Job pipeline and destinations (`core/`, `transformations/`, `destinations/`, `execution/`) | position of a task pool, the producer's buffer, the attempt | check records, transform, check health, send with retries, close | tasks run concurrently, fail, and are cancelled where they await |
| Sources (`sources/`) | a plan of slices, a point in time | count, cut, fetch | the store changes between the plan and the fetches; boundaries and ties |
| Gateway, registry, start of an execution (`api/`, `core/`, `execution/distributed_executor.py`, `app.py`) | tracker, one registered instance per pipeline and process | forward, validate, create, fork, resolve | answers are lost, ids repeat, executions share an instance |
| Statistics, observability, CLI | none that the protocol depends on | — | — |

### How they interact

The gateway forwards a call to `POST /run` of a manager under a fresh id; the cron
scheduler triggers an execution in its manager, the dead-letter scheduler runs a
pipeline in its own thread. `POST /run` validates, commits the execution row (`pending`, plan incomplete) and queues a
background task. The task takes the planning lease, resolves the source, sets the
execution `running`, inserts jobs batch by batch, marks the plan complete, drops the
planning lease and enters the drive loop, which takes the dispatch lease (the same
column) and refreshes it every pass. Each pass puts back jobs whose leases have run
out, counts what is in flight, fetches pending jobs into the free slots, sends each
to Kafka and then marks it `dispatched`. A worker that receives a message claims
the row with a conditional `UPDATE`, beats while it runs the job (fetch the slice,
check, transform, claim record hashes, send, close), writes the outcome by job id and
commits the offset. When no unfinished job is left the loop
writes the final state and releases the lease. A manager that starts frees the
leases of its host, and resumes every interrupted execution: it enters the drive
loop if the plan is complete, and otherwise waits to learn whether the planner is
alive. API calls write the same rows from other sessions.

### What makes the parts correct

* Job rows: a job is claimed by one worker at a time, is started a bounded number
  of times, and once settled or cancelled is not brought back by a late mark or sweep.
* Drive loop: one loop per execution; a lost message, worker, loop or result is
  noticed by some lease; `completed` is only written when every job was delivered.
* Planning: a fragment of a plan is never dispatched; a live planner is never
  taken for dead; a dead one is noticed.
* API: a cancel leaves no unstarted job behind; what is accepted can run, runs once
  and with its own parameters; what the gateway says of a call stays true.
* Rate limiter: no window of time gets more tokens than a bucket and its refill,
  whoever changes the rate meanwhile; waiting is never lost.
* A job's run: records go out in order, once if nothing fails, and are never dropped
  silently; a failed run gives its claims back; no request outlives the run.
* Sources: the jobs of a plan do not overlap and leave out nothing that stayed.
* Schedulers: a slot fires once, a dead letter runs once at a time and ends.

## 2. Modules

| Module | Models |
|---|---|
| `JobRow` | values of `jobs.state` and what each `UPDATE` of `JobManager` and the worker's claim does to one row |
| `ExecutionRow` | values of `executions.state` and the guards of the operations on it |
| `Dispatch` | Phase 2: workers, drive loops, crash recovery, API, Kafka and lease faults, composed over `JobRow` and `ExecutionRow` |
| `Planning` | Phase 1: the planner, its lease, recoveries in other managers, the API; the drive loop reduced to three steps |
| `RateLimiter` | the token bucket of one execution, shared by manager pods |
| `DeadLetters` | the dead letter queue: pollers, API dispatch, cancelling, archiving |
| `CronScheduler` | the schedules of a pipeline: synchronizing, polling, manual runs |
| `JobRun` | a worker's handling of a deduplicating job, from message to report, and the sweepers |
| `Delivery` | the inside of one run: record check, transformations, health check, send, retries, close |
| `DeliveryContract` | what a run owes its destination; `Delivery` implements it |
| `Slicing` | how the sources are cut into jobs and the jobs are fetched later |
| `RunRequests` | from a call to a planned execution: gateway, `POST /run`, background task, restart |
| `...Proofs` | theorems for every value of the constants of `Dispatch`, `Planning` and `Slicing` (both in `PlanningProofs`), `RateLimiter`, `DeadLetters`, `CronScheduler`, `JobRun`, `Delivery` and `RunRequests` |
| `MC...` | symmetry sets and constant values for TLC; the `.cfg` files give the rest |

The modules meet where the code's components do. `RunRequests` ends where a plan is
saved, `Planning` covers how it is saved and recovered and ends where the drive loop
starts, `Dispatch` starts there and abstracts a job to its outcome, `JobRun` is the
run of a job with a send in two steps, and `Delivery` the run's inside. `RateLimiter`
is the early end of a batch in `Dispatch`; `CronScheduler` and `DeadLetters` call
executions into being.

Operators marked *Mutant* in their comments (`..._any_age`, `..._keeps_jobs`,
`may_run_running`, `window_size_down` and the like) are wrong variants of the operator
that follows them; no specification uses them. They show that each property really
depends on the code: with the variant in the operator's place TLC finds the property
violated.

### Dispatch and the code

One action is one database transaction, one message, or one decision on values read
before. `lpc[l]` is the place of drive loop `l` in `_drive_async` / `_drive_step` /
`_send_jobs` / `_finalize_execution_state`; `wpc[w]` the place of a worker between
poll and commit; `hpc` the place of the API handler. In detail:

* The heartbeat at the top of a pass and the state read after it are one action
  (`drive_step`), as are those of `should_stop`: nothing is decided between them.
* The sweep runs every `LEASE_CHECK_INTERVAL`; the model lets a pass do it or not
  (`skip_sweep`). A pass that waits for a rate-limit token ends its batch early
  (`end_send`); so does a stopped one.
* The in-flight count, the fetch and each send are separate actions, with the stale
  count kept in `free`. The fetch order inside the plan is arbitrary.
* A send and the mark that follows are two actions: a worker may claim or finish the
  job in between. `standing` is a history variable: the workers whose claim has not
  been ended by somebody else's write to the row.
* `_finalize_execution_state` is the two count queries and the write, three actions,
  with its fallback to in-memory counts.
* Errors: the claim that fails open, the result that is only logged, a pass that is
  retried after a database error, a release that fails, a producer that cannot be
  started, a session that stays unusable, a pipeline missing at resume, a resume that
  ends with an exception. A kind of fault is in `FaultKinds` and `MaxFaults` bounds
  how many happen.
* Each slot in `Loops` is a manager process or a background task of one. Endpoints
  are `async` functions without an `await` inside their critical part, so one manager
  handles one call at a time: `hpc` is a single handler. Hosts have distinct names, so
  `release_drivers_on_host` frees only leases of dead loops.
* Left out: counters and statistics columns, texts, what a job does between its claim
  and its result (an `outcome` stands for it), messages that fail validation (the
  dispatcher does not produce them), local mode.

### Planning and the code

`pc[a]` is the step of process `a`: the planner's way through `run_pipeline_jobs` and
`_plan_and_dispatch`, or a resume's through `resume_execution` and `_recover_plan`.
`driver` holds ids of three kinds, as the column does: a planner's (`plan:...`), a
recovery's (`recover:...`) and a loop's (`<host>:...`); only the last is freed by a
restart on the same host. `beating` is the heartbeat thread, which dies with the
process. `old` says that the execution is older than one lease, the test
`_recover_plan` makes before it claims.

`create_jobs` flushes one checkpoint batch; the planner looks at the state before the
first slice and then at most once a second, so after a batch it may or may not look.
`drive` stands for the whole of Dispatch: it stops, or settles the execution.

### Time

`Dispatch` and `Planning` have no clock. A lease is fresh or expired: a claim or a beat makes it
fresh; it expires when its holder is gone (`lease_expires`, `job_lease_expires`,
`driver_lease_expires`), and, as a counted fault, under a holder that is alive but
stalled (`lease_missed`, `..._missed`). This covers every ratio of the code's
timeouts that keeps heartbeats more frequent than leases, and the faults cover the rest.

### RateLimiter and the code

The variables `created`, `tokens`, `max_tokens`, `refill_rate` and `last_update` are the
row of `rate_limit_state`. A token is `Minute` units (60 in the code), so a rate of r per
minute refills r units per second and the code's floating-point tokens become integers.
`get_or_create_state` (with `insert_state` and the unique-key conflict of two inserts) and
`consume_tokens` are two transactions, so another pod may change the rate between them;
`dispatch_jobs_batch` and its loop of attempts and sleeps (`no_token`, `sleep`, `wake`,
`give_up` after `TOKEN_WAIT_SECONDS`) is that of `acquire_token`'s caller. `skew` lets the pods'
clocks differ. `mark` and `watched` observe an arbitrary window of time.

### DeadLetters and the code

`status`, `retry_count` and `due` are the committed columns of `dlq_jobs`: `processing` is
only flushed, so no other session reads it, and a crash loses it with the locks. A poll
(`poll_and_process`) and a pipeline dispatch lock rows with `SKIP LOCKED`, group them by
pipeline and params, run each group inside the transaction and write all outcomes with
one commit. `process_job_immediately` waits for its row, and after a failed run rolls back,
reloads the row without a lock and writes the failure in a further transaction, which is
where another run can come in between. `connection_lost` frees the locks while the
pipeline runs on, and the commit then fails.

### CronScheduler and the code

A cron expression is its period, and `_compute_next_run` the next multiple.
`sync_schedules_from_registry` reads all rows and writes only the ones it found new,
changed or dropped in a later step, as the ORM does; two pods that insert the same row conflict
and the later one fails to synchronize. `_poll_and_trigger` locks the due rows from its query
to its commit; `_trigger_pipeline` creates the execution in a session of its own, so a
crash before the commit fires the slot again. A manual run reads the rows without a lock and
pushes their timers out. `overtaken` records that a writer used a time or a cron expression
which another commit had made out of date; without locks the code cannot exclude it.

### JobRun and the code

A run is one delivery of a message. `_claim_job` is the conditional `UPDATE`; then the slice
is fetched, the job-level hash of an earlier release is looked up (`held_by_other_job`), the
hashes of the records are inserted one by one in one transaction (an insert waits for
another open transaction's equal hash, and a cycle is broken by an error), and the
ones the job holds are selected and committed. `send_with_retry` hands over
what was won; a failed or terminated run releases what it won, then reports. `requeue` is a
retry, `requeue_live` the sweep of a job whose worker stalls; the two
purges delete old claims and old executions.

### Delivery and the code

`for_each_concurrently` in `core/async_utils.py` is shared by a transformation step and a send:
`concurrency` tasks pull from one iterator, the first failure cancels the others where they
await and waits for them. `arrive` is the moment a request takes effect at
the destination, `respond` and `fail` what the task learns of it, so a failed or cancelled request may
have arrived. A message whose task was cancelled may still be in the Kafka producer (`buffered`): it
arrives late, or closing flushes it.
`check_record_type` drops or raises on invalid records, `resolve` picks the next
transformation and enforces the limit on steps, `health_check` compares the consumer lag with its
threshold, `send_raises` retries what is retryable. The refinement mapping to
`DeliveryContract` maps the records due to `items`, what the destination has to `accepted`, and
the verdict (`Verdict`) to the outcome of a closed run. `without` is the list that is left when `check_record_type` or a
step drops records; it is a recursive function of the project's own, so that the proofs can say what it computes.

### Slicing and the code

One mode per way of splitting: Elasticsearch windows over a point in time (`count`, then
`open_point_in_time`, then the scan for cursors, page by page), value ranges with boundaries that
documents may share, sliced scroll, pages of a composite aggregation; SQL id ranges and a
whole query; S3 listings with a pattern; lists of IDs. Planning reads the store in the code's steps and
yields jobs; each job is fetched later in one step, while `insert`, `delete`, `update` (a new sort key) and
`lose_pit` change the store. `stable` is the documents that were there from the start, `moved` those whose
key changed after the plan, `raced` a change between count and point in time.

`key` is a variable: the sort field, the id column or the bucket of each document, 0 where it is missing or NULL.
A missing value sorts last in both orders (`precedes`), is in no range (`_range_clause`), in no bucket and outside MIN and MAX.
`pit_key` keeps the keys of the planning snapshot, from which the boundaries of range windows come; the windows are
read from the live keys. A cursor at a document without the field makes a window of its own (`past_missing`): for a
keyword Elasticsearch's sort value is null, both edges are `None` and the window reads every document that has the field
again; for a number it is the largest or smallest one, and the window is empty. `nulls` chooses between the two.

`IdBasedPipeline.define_jobs` cuts the request's list into `batches`, repeated IDs included, and each batch's source is split
again (`chunks`): a source that `define_source` gave its batch (`ids`), one without `ids`, for which `_get_all_ids` takes the
whole `input_ids` of the request in every batch (`ids_params`), and one whose endpoint has no `{id}`, a single request
(`ids_batch`; what that request asks for is the author's body, here the batch). A plain pipeline's ID source is the case of
one batch. An ID that is gone answers 404 and makes no record. An empty answer for one ID, which `fetch` skips too, is not told apart from it.

### RunRequests and the code

`run_route` and `execute` are the gateway: local validation, the tracker, the POST with its
time-out and its verdicts (`upstream` is answered with 502, `rejected` with 422). `execute_raises` is any other exception, a request that cannot be
encoded or an answer that is not JSON: `execute` sets `FAILED` without `upstream_error`, so it is `rejected` too; `post_run` is a client's own call, with any id. `run_pipeline` is the handler's
checks, `create_execution` the insert whose primary key decides a race, `accept` the reset of the
schedule and the queued task. A task forks the registered instance, sets its
parameters, defines the source, writes `running` and saves the plan; `raise` leads to
`dispatch_failed`. The registered instance and the forks are `Objects`, so that sharing
one would show. `crash`, `restart` and `recover_plan` are a manager's death and the recovery of what it left.

## 3. Runs

| Run | Instance | Shows |
|---|---|---|
| `dispatch_workers` | 2 jobs, 2 workers, 1 loop, a cancel or retry, 2 faults of worker / kafka / lost / db / lease | `AttemptsBounded`, `ClaimExclusive`, `RunnersHoldClaims`, `CancelledJobStays`, `SettledJobStays` |
| `dispatch_loops` | 1 job, 1 worker, 2 loops, all API calls (2), 2 faults of manager / db / producer / registry / resume / session / lease / stall | `DriverExclusive`, `CancelStopsUnstarted`, `CompletedMeansDelivered` |
| `dispatch_settles` | 2 jobs (one oversized), 1 worker, 2 loops, pause and resume, 1 fault | liveness: `Settles` |
| `planning` | 2 batches, the planner and a manager that is started twice, all API calls (2), 2 faults of any kind | `FragmentNeverDriven`, `StoppedPlanIsCancelled`, `LivePlannerProtected`, liveness: `AbandonedPlanSettles` |
| `rate_limiter` | 2 pods, rates 3 and 6, a minute of 4 seconds, clocks up to 1 apart, 4 seconds | `RateRespected`, `SkewBounded`, `WaitIsCredited` |
| `dead_letters` | 2 jobs of one pipeline, 2 pollers, 1 handler, 2 retries, 1 call, 1 fault | `OneRunAtATime`, `CompletedRanOwnParams`, `ArchivedAfterRetries`, liveness: `Ends` |
| `cron` | a kept and a dropped schedule, 2 pods, periods 1 and 2, time 2, 1 manual run, 1 crash | `FiredOncePerSlot`, `NotRerunAfterManual`, `RowsFollowCode`, liveness: `TimerAdvances` |
| `job_run` | 2 jobs with common or repeated records, 3 deliveries, 2 sends, 1 fault | `OneJobDelivers`, `DeliveredOnce`, `NothingLost`, `FailedHoldsNothing`, liveness: `RunsEnd` |
| `delivery` | 3 records, pools of 1 to 3 tasks, Kafka or an API, 2 transformations, 2 attempts, a shutdown | `OutputKeepsOrder`, `NoStrayTasks`, refinement: `ContractKept`, liveness: `Ends` |
| `slicing` | 4 documents, keys with gaps, ties, reversed and missing, lists of 3 IDs with and without a repeat, sizes 1 to 3, 2 changes (insert, delete, new key or none, snapshot lost), every mode | `NoOverlap`, `NothingMissed` |
| `run_requests` | 2 managers, a gateway call, 2 direct calls with equal ids, a dead-letter run, 2 requests made, 1 fault | `OwnPlan`, `OneTask`, `VerdictHolds`, `AcceptedCanRun`, liveness: `Settles` |
| `window_gap` | as `slicing`, snapshot windows | `SnapshotComplete` is **violated** |

Why these bounds are enough to be interesting. Two workers and one job already give
every race on a row, and the second job makes the window and the settling
non-trivial; two loops give every hand-over; `JOB_MAX_ATTEMPTS = 2` lets a job be
swept, run again and be failed by the sweep; two faults combine a loss with a failure
of its repair. Two batches give a state in which the plan is a fragment. Two pods with two rates are
enough to change a rate between another pod's two transactions, and a minute of four seconds lets
buckets fill, cap and run dry. Two pollers and a handler give every pair of transactions on a
dead letter, and two jobs with different params tell a group's run from a job's own. Period 1 beside period 2 makes the old timer of a changed
schedule differ from the new one. Records in opposite order give the deadlock of two
claims; one job with two deliveries gives the re-run, and its repeated record the
duplicate within a job. Three records and three tasks let one task fail while one is in
flight and one has finished. Four documents with sizes 1 to 3 give rounding up and down, a cap and a remainder,
equal keys on a boundary and a cursor at a document without the field; two changes move a document over a boundary and back. Deadlock checking is off where a
finished system has nothing left to do (calls and faults used up); `Slicing` states its end
and keeps the check.

Fairness, from what the code's threads and tasks do. `Dispatch`: every worker and loop
that can go on does (they do not wait for each other), an API handler that has started finishes, and a
lease whose holder is gone expires. Two steps get strong fairness: a loop does not
hand back for ever without sending (the bucket refills, and each batch starts with a
send), and does not skip the sweep for ever (it is due after `LEASE_CHECK_INTERVAL`).
`Planning`: tasks go on, a dead manager is restarted (by its supervisor), time
passes. `DeadLetters`: threads go on and jobs become due. `CronScheduler`: pods go on, a manual run that
was started is finished; time itself is free. `JobRun`: the step of a run that can go on is taken, so waits end when the other
transaction ends. `Delivery`: the event loop runs every task that can go on, and a request is
answered or times out. `RunRequests`: handlers and tasks go on, a dead manager is
restarted, recovery goes through its list. Nothing forces a call or a fault, and nothing stops a beat.

`Settles` of `Dispatch` is checked with the faults after which the code does recover; after a resume
that raises, or a producer that cannot start, it does not, and the execution stays `running` until a
manager restarts. `Settles` of `RunRequests` likewise excludes an execution whose request failed
between its commit and its task, or whose failure could not be recorded.

### Where code and text disagree

`window_gap`: `sources/elastic.py` says of `window_mode="snapshot"` that "the whole execution sees
the index as it was when it started". The number and the size of the windows come from a count made before the
point in time is opened. TLC finds a document indexed in between that pushes another one, there from the
start, past the last window: no job reads it. `NothingMissed` shows that this is the only way for a
stable document to be missed in that mode.

Two more places have no run of their own, because the properties they concern are stated around them:

* `_split_range_windows` says that documents "all land in one window [...] and none is skipped or read twice" (`elastic.py` 593-596).
  A document without the sort field is counted and scanned, but no range matches it (73-80, 620-635): no job reads it.
  If it lies on a cursor and the field is a keyword, the last window has no bounds, and what the others read is read again.
* A 422 of the gateway says, by `_check_status`, that "the execution failed", as opposed to the manager (`api/routes.py` 28-34). An execution the manager accepted
  in an answer the executor cannot read is reported so, and it runs (`distributed_executor.py` 178-193).

### Exceptions of the slicing properties

`NoOverlap` and `NothingMissed` are stated document by document, with three named exceptions. With any clause of them removed
TLC finds a violation in the `slicing` instance, so each is something the code does and not a convenience:

| Exception | Clause | What the code does |
|---|---|---|
| `shifted` | a key changes after the plan, range and SQL | the jobs read live: a document that moves over a boundary between two reads is read twice, or never |
| `shifted` | any change, composite | a job keeps the `after_key` of its page (`elastic.py` 484) and reads the page again: the pages shift |
| `doubled` | a repeated ID | `define_jobs` and `split` do not remove repeats (`id_based_pipeline.py` 199) |
| `doubled` | two batches and a source without `ids` | every batch's source takes the whole request's list (`api.py` 120-128) |
| `doubled` | a keyword missing at a cursor | a window without bounds |
| `unkeyed` | no value of the field; range, SQL, composite | no range, no bucket and no id range has it |

`NothingMissed` also excepts snapshot windows whose count was raced, which is the finding above. Snapshot windows, slices, whole queries
and S3 keys have no other exception, whatever changes.

### Races the models contain and no property forbids

These are part of the actions, because the code behaves so; the properties are stated around them.

* A loop that read `running` before a cancel, a pause or a force-fail writes its final state after it
  (`pipeline_runner.py` 840, 1096); `pause` and `resume` likewise check first and write later.
* `retry-failed` finds the execution running and leaves the jobs to a loop that settles it at that moment
  (`app.py` 344): the jobs stay pending until the next retry. A retry between the two counts of the
  settling makes `completed` untrue, so `CompletedMeansDelivered` excludes retries.
* A worker that lost its lease reports by job id over another claim (`worker/executor.py` 669).
* The planner writes `running` over a cancel made during source resolution (`pipeline_runner.py` 544),
  and a batch saved after its last look at the state stays pending in a cancelled execution (649).
* A recovery fails an execution whose planner completed the plan between its read and its claim (1005, 1010).
* More than `MAX_IN_FLIGHT_JOBS` are in flight when a redelivered message is claimed after the count (883).
* A resume that meets an error before its loop starts is given up (394), and no property catches that: `Settles` leaves the fault out, and
  `dispatch_loops` shows only that the hand-over stays safe with it.
* After a failed immediate run of a dead letter the late write can put a row that was completed or cancelled
  meanwhile back to pending (`dlq_scheduler.py` 354).
* Two runs of one job at a time can drop a record: the second conflicts with the first's hash, and no longer
  finds it after the first released it (`content_dedup.py` 246).
* Documents that move between live reads, that have no sort field, or that a plan names twice: the table above.
* An error between the commit of a new execution and its task leaves it pending until a restart (`app.py` 494).

## 4. Proofs

For every value of the constants: any number of jobs, workers, loops, managers, pods, pollers,
requests, schedules, records, runs, tasks and documents, and any bounds. Each theorem follows the same outline: the invariant
holds initially, one lemma shows that a step preserves it (a case per action, with frame
lemmas for the actions that do not touch its variables), and the property follows.

* `DispatchProofs`: `TypeCorrect`. `AttemptsAreBounded`: inductive together
  with `TypeOK`; its second half (a queued job has a start left) is what makes it so,
  as the claim itself does not look at `attempts`. `ClaimsAreExclusive`: inductive as
  stated. `RunnersHoldTheirClaims` needs in addition that the lease of a running job is fresh (`RunnersInv`);
  from it follow the action properties `SettledJobsStay` and, without conditions on faults,
  `CancelledJobsStay`. `DriversAreExclusive`: from `DriverInv`, that the lease of a live
  owner is fresh, without which a second claim could succeed. `CancelsStopUnstartedJobs`: from
  `CancelInv`, which extends the property to the steps of handlers that cannot requeue and adds that a running
  job was started. `CompletedIsTrue`: from `CompletedInv`, what a loop in its last steps
  may still rely on: jobs it saw finished stay finished between the two counts and the write.
* `PlanningProofs`: `TypeCorrect`. `FragmentsAreNeverDriven`: from `PlanInv`, which adds where
  the planner is: past its plan once the plan is complete, and with all batches saved
  before it says so. `LivePlannersAreProtected`: from `ProtectInv`: as long as no live
  holder missed its lease and no lease operation failed, nobody can claim the
  lease before the planner, because the execution is young, and from then on the planner
  holds a fresh lease, so no recovery gets past its claim. `StoppedPlansAreCancelled`: from `StopInv`, that a planner
  past its plan left nothing pending if the plan is a fragment.
  The same module extends `Slicing`, whose specification is `SplitSpec`. `PartsDoNotOverlap` and `NothingIsMissed`: from `SplitInv`. `Zone(j)` is what job `j` may ever read of the documents that do not move; for each document that is not `shifted` it
  stays what it was when the job was planned (`ZoneFrame`). For a document that is not `doubled` the zones of a plan are disjoint (`Disjoint`); they cover what was there all
  the time and is not `unkeyed` once the plan is done (`Covered`); and a fetched job has read its zone's lasting documents and nothing outside it (`ReadInv`). Each way of splitting has its lemma:
  windows and id ranges are cells of one width, ranges end at the next boundary, slices and chunks are remainders and
  quotients of positions, pages lie beyond the token of the page before (`PagesInv`). For windows the scan's cursors are all multiples of
  the width up to the last document seen, and as many cells of that width as there are windows hold
  the whole count (`ScanInv`, `CursorsFound`).
* `RateLimiterProofs`: `TypeCorrect`. `RateIsRespected`: from `RateInv`, a budget for the observed window: what it got, the tokens
  left and the refill to come stay within bucket and refill, or the window got no more
  than its refill. `SkewIsBounded`: from `SkewInv`, the same balance against `last_update` instead of the
  time. `WaitingIsCredited`: from `WaitInv`, that a bucket nobody else touched was last
  updated before the wait began or already holds a token.
* `DeadLettersProofs`: `TypeCorrect`. `JobsRunOnceAtATime`: from `HoldInv`, a connected transaction holds the locks of its
  rows. `CompletedJobsRan`: from `ParamsInv`, a group shares its params. `JobsAreArchivedAfterRetries`: from `RowInv`
  (what is committed of the rows a transaction works on: its lock keeps them pending until it writes) and `CountInv`: the
  stored `retry_count`, and the value a late write read after its rollback gave the lock up, stay below the failures that happened
  by at least the number of failures still to be written. So a count may get lost between two late writes,
  and none is invented.
* `CronSchedulerProofs`: `TypeCorrect`. `ManualRunsPushTimers`: from `LockInv` (what an open poll saw is still
  the row) and `TimerInv` (a timer is a multiple of its period, later than the last push). `RowsAreDeclared`: from `SawInv` (what a
  starting pod saw of declared rows is still true, or better) and `FollowInv`. `SlotsFireOnce`: from `FiredInv`, which
  counts the firings of the slot at the timer, those before and those after it.
* `JobRunProofs`: `TypeCorrect`. `RecordsDeliveredByOneJob`: from `ClaimInv`, which ties what a run won, may
  still send and has sent to the claim in the table, unless it was deleted. `FailedJobsGiveBack`: from `Alone` (without an overlap
  the row of a job is `running` while a run of it is going, and there is one such run) and
  `HoldInv`: every claim belongs to a settled job or to a run that won it and may still release it.
  `RecordsDeliveredOnce`: from `FirstInv` (of equal records of a slice the first is sent) and `OnceInv` (a delivered record's job
  has settled or its run is at its end, so no second run of the job sends it). `NoRecordIsLost`: from
  `LossInv`: a record nobody delivered has a job that answers for it, one that has not settled and whose run has
  not passed the record over; if the record is claimed, the job that holds the claim is such a job. This is what lets a run leave a record to whoever
  won the race for its claim. `OwnInv` and `SentInv` say which records a run's position, claims and unsent list stand for.
* `DeliveryProofs`: `NoTaskStrays`, inductive as stated. `RecordsKeepOrder`: from `OrderInv`: the list rises, and during a step the result at a
  position is the record at that position, whichever task put it there. `RunKeepsContract`, the refinement of
  `DeliveryContract`: from `ContractInv`, which adds that only records of the list arrive or are buffered (`WireInv`), that an answered
  request is at the destination (`ReachInv`), and, as long as nothing failed, that a pool with records left has a
  task to take them (`AliveInv`) and that every position taken has arrived or is in flight (`TakenInv`); so when
  the pool of a send is over without a failure, all of the list has arrived (`SentInv`).
* `RunRequestsProofs`: `TypeCorrect`. `ExecutionsHaveOneTask`: from `CreatedInv` (a row belongs to the request that
  created it). `PlansAreOwn`: from `TaskInv`, the instance a task works on is its own fork, with its own
  parameters. `AcceptedRequestsCanRun`: from `RunInv`, what the handler checked still holds
  when the task runs, in the same process. `VerdictsHold`: from `CallInv` (uuids are fresh) and `VerdictInv`, that a call
  without a commit, or refused, has no row, and that a call the gateway has finished is not sent again.

Assumptions are the named `ASSUME`s of the modules, which TLC evaluates on every instance: distinct special
values, finitely many jobs in `Dispatch`, constants of the right type, bounds that are naturals (window, fetch limit,
attempts, retries, minute, periods at least 1).

What a recursive function computes (`without`, the kept positions of `JobRun`) is shown by the least number for which the claim would
fail (`NatMin`, from the library's `WFMin`; `NatSetInduction` packs it as an induction over a set of naturals).

Only model-checked: liveness, as fairness is outside the prover's reach: `Settles` (twice), `AbandonedPlanSettles`, `Ends` (twice),
`TimerAdvances`, `RunsEnd`. Every invariant and action property of the runs, and the refinement, is a theorem.

## 5. Not modelled

* Statistics endpoints and the read-only routes of manager and gateway: they keep no state.
* Observability (logging, metrics, tracing), the command line, scaffolding, charts: no part in the protocol.
* Local mode's inside: `local_dispatcher.py` runs one job after the other in the drive loop; its token loop is that of
  `RateLimiter`, its job is that of `JobRun` without other workers. The local executor
  behind the gateway's factory has no caller.
* Clients, authentication and serialization of sources and destinations, hashing, templates of documentation: I/O or
  data that no property tells apart. Health checks other than the consumer lag are a nondeterministic answer.
* Counter and statistics columns of jobs and executions: display data, recomputed from the job rows.
* `rate_limiter.can_dispatch` and `dispatcher.dispatch_job`: nothing on the dispatch path calls them.

Left for later work: an abstract life cycle of an execution which `Dispatch` implements up to the races above.
