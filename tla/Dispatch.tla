------------------------------ MODULE Dispatch ------------------------------
(***************************************************************************)
(* Phase 2 of one execution, in distributed mode: the plan is saved, and   *)
(* drive loops of the reflow manager send its jobs to Kafka, workers claim *)
(* and run them, the lease sweep puts lost ones back, and an operator      *)
(* pauses, resumes, cancels, force-fails or retries through the manager's  *)
(* API.  All of them meet only in the database (one execution row, one row *)
(* per job) and in the Kafka topic; every action is one transaction, one   *)
(* message or one decision taken on values read by an earlier action.      *)
(*                                                                         *)
(* Time is not modelled.  A lease is fresh or expired; what keeps it fresh *)
(* (a heartbeat, a claim) clears the flag, and the flag may be raised when *)
(* its holder is gone, or, as a counted fault, while it is merely stalled. *)
(***************************************************************************)
EXTENDS JobRow, ExecutionRow, Integers, FiniteSets

CONSTANTS
    Jobs,                   \* the jobs the plan saved
    Oversized,              \* those whose message Kafka refuses as too large
    Workers,                \* worker processes, one message at a time each
    Loops,                  \* slots for drive loops, in any manager process
    MAX_IN_FLIGHT_JOBS,     \* the in-flight window
    DISPATCH_FETCH_LIMIT,   \* job payloads loaded per pass
    JOB_MAX_ATTEMPTS,       \* claims a job gets before the sweep fails it
    ApiCalls,               \* the API operations the operator uses
    MaxCalls,               \* bound: API calls made
    FaultKinds,             \* the kinds of fault that happen
    MaxFaults,              \* bound: faults that happen
    MaxMessages,            \* bound: messages of one job waiting in the topic
    NoJob, NoDriver, DeadDriver

ASSUME JobsAssumption == IsFiniteSet(Jobs) /\ Oversized \subseteq Jobs /\ NoJob \notin Jobs
ASSUME LoopsAssumption == NoDriver \notin Loops /\ DeadDriver \notin Loops /\ NoDriver # DeadDriver
ASSUME BoundsAssumption ==
    /\ MAX_IN_FLIGHT_JOBS \in Nat \ {0}
    /\ DISPATCH_FETCH_LIMIT \in Nat \ {0}
    /\ JOB_MAX_ATTEMPTS \in Nat \ {0}
    /\ MaxCalls \in Nat /\ MaxFaults \in Nat /\ MaxMessages \in Nat

VARIABLES
    execution,      \* executions.state
    driver,         \* executions.driver_id; DeadDriver: an id no live loop has
    driverExpired,  \* driver_heartbeat_at is older than DRIVER_LEASE_SECONDS
    jobState,       \* jobs.state
    attempts,       \* jobs.attempts
    expired,        \* the job's lease has run out
    topic,          \* messages of each job no worker holds
    wpc, wjob,      \* worker: where it is, and the job of its message
    holds,          \* worker: its message is not yet committed nor redelivered
    standing,       \* history: workers whose claim nobody else's write has ended
    lpc, role,      \* drive loop: where it is, and what started it
    batch, current, \* drive loop: fetched jobs still to send; the one just sent
    free,           \* drive loop: free slots of the in-flight window as counted
    verdict,        \* drive loop: final state it is about to write
    hpc,            \* API handler: the step it takes next
    calls, faults,  \* API calls and faults so far
    happened        \* history: which of the Telling events have happened

rowVars == <<jobState, attempts, expired>>
driverVars == <<driver, driverExpired>>
workerVars == <<wpc, wjob, holds>>
loopData == <<role, batch, current, free, verdict>>
loopVars == <<lpc, role, batch, current, free, verdict>>
apiVars == <<hpc, calls>>
faultVars == <<faults, happened>>
vars == <<execution, driver, driverExpired, jobState, attempts, expired, topic,
          wpc, wjob, holds, standing, lpc, role, batch, current, free, verdict,
          hpc, calls, faults, happened>>

Init ==
    /\ execution = "running"
    /\ driver = NoDriver /\ driverExpired = FALSE
    /\ jobState = [j \in Jobs |-> "pending"]
    /\ attempts = [j \in Jobs |-> 0]
    /\ expired = [j \in Jobs |-> FALSE]
    /\ topic = [j \in Jobs |-> 0]
    /\ wpc = [w \in Workers |-> "idle"]
    /\ wjob = [w \in Workers |-> NoJob]
    /\ holds = [w \in Workers |-> FALSE]
    /\ standing = {}
    \* The planner of this execution goes straight into its drive loop.
    /\ \E p \in Loops :
          /\ lpc = [l \in Loops |-> IF l = p THEN "claim" ELSE "off"]
          /\ role = [l \in Loops |-> IF l = p THEN "planner" ELSE "resumer"]
    /\ batch = [l \in Loops |-> {}]
    /\ current = [l \in Loops |-> NoJob]
    /\ free = [l \in Loops |-> 0]
    /\ verdict = [l \in Loops |-> "failed"]
    /\ hpc = "idle" /\ calls = 0
    /\ faults = 0 /\ happened = {}

\* The events some promise of the program is conditional on: three kinds of
\* fault, and a job put back by /retry-failed.
Telling == {"stall", "lease", "db", "retry"}

\* A fault of kind k happens and is counted.
fault(k) ==
    /\ k \in FaultKinds
    /\ faults < MaxFaults
    /\ faults' = faults + 1
    /\ happened' = happened \cup ({k} \cap Telling)

JobsIn(S) == {j \in Jobs : jobState[j] \in S}

\* The claims on the rows in S no longer stand: someone else wrote the row.
revoke(S) == standing' = {w \in standing : wjob[w] \notin S}

----------------------------------------------------------------------------
(* Workers: consumer.py and executor.py. *)

\* The consumer polls one message.
receive(w, j) ==
    /\ wpc[w] = "idle"
    /\ topic[j] > 0
    /\ topic' = [topic EXCEPT ![j] = @ - 1]
    /\ wpc' = [wpc EXCEPT ![w] = "received"]
    /\ wjob' = [wjob EXCEPT ![w] = j]
    /\ holds' = [holds EXCEPT ![w] = TRUE]
    /\ UNCHANGED <<execution, driverVars, rowVars, standing, loopVars, apiVars, faultVars>>

\* The conditional UPDATE matched the row: this delivery runs the job.
claim_job(w) ==
    LET j == wjob[w] IN
    /\ wpc[w] = "received"
    /\ jobState[j] \in claimable
    /\ jobState' = [jobState EXCEPT ![j] = "running"]
    /\ attempts' = [attempts EXCEPT ![j] = @ + 1]
    /\ expired' = [expired EXCEPT ![j] = FALSE]
    /\ wpc' = [wpc EXCEPT ![w] = "running"]
    /\ standing' = standing \cup {w}
    /\ UNCHANGED <<execution, driverVars, topic, wjob, holds, loopVars, apiVars, faultVars>>

\* It matched nothing: the job runs elsewhere or is settled, so it is skipped.
skip_job(w) ==
    /\ wpc[w] = "received"
    /\ jobState[wjob[w]] \notin claimable
    /\ wpc' = [wpc EXCEPT ![w] = "commit"]
    /\ UNCHANGED <<execution, driverVars, rowVars, topic, wjob, holds, standing, loopVars,
                   apiVars, faultVars>>

\* The claim fails open: with the database unreachable the job runs unclaimed.
claim_job_error(w) ==
    /\ fault("db")
    /\ wpc[w] = "received"
    /\ wpc' = [wpc EXCEPT ![w] = "running"]
    /\ UNCHANGED <<execution, driverVars, rowVars, topic, wjob, holds, standing, loopVars, apiVars>>

\* A beat refreshes the row of a running job, whoever claimed it.
heartbeat_job(w) ==
    /\ wpc[w] = "running"
    /\ jobState[wjob[w]] = "running"
    /\ expired[wjob[w]]
    /\ expired' = [expired EXCEPT ![wjob[w]] = FALSE]
    /\ UNCHANGED <<execution, driverVars, jobState, attempts, topic, workerVars, standing, loopVars,
                   apiVars, faultVars>>

\* The job ended, and its outcome is written by job_id, whatever the row says.
update_job_in_db(w, outcome) ==
    LET j == wjob[w] IN
    /\ wpc[w] = "running"
    /\ jobState' = [jobState EXCEPT ![j] = outcome]
    /\ expired' = [expired EXCEPT ![j] = FALSE]
    /\ wpc' = [wpc EXCEPT ![w] = "commit"]
    /\ revoke({j})
    /\ UNCHANGED <<execution, driverVars, attempts, topic, wjob, holds, loopVars, apiVars, faultVars>>

\* The write failed: it is logged and the outcome is lost.
update_job_in_db_error(w) ==
    /\ fault("db")
    /\ wpc[w] = "running"
    /\ wpc' = [wpc EXCEPT ![w] = "commit"]
    /\ standing' = standing \ {w}
    /\ UNCHANGED <<execution, driverVars, rowVars, topic, wjob, holds, loopVars, apiVars>>

\* The offset is committed after success and failure alike.  A worker the
\* group evicted gets CommitFailedError and goes on with the next message.
commit_offset(w) ==
    /\ wpc[w] = "commit"
    /\ wpc' = [wpc EXCEPT ![w] = "idle"]
    /\ wjob' = [wjob EXCEPT ![w] = NoJob]
    /\ holds' = [holds EXCEPT ![w] = FALSE]
    /\ UNCHANGED <<execution, driverVars, rowVars, topic, standing, loopVars, apiVars, faultVars>>

\* The group rebalances mid-job: Kafka delivers the message again.
rebalance(w) ==
    /\ fault("kafka")
    /\ holds[w]
    /\ holds' = [holds EXCEPT ![w] = FALSE]
    /\ topic' = [topic EXCEPT ![wjob[w]] = @ + 1]
    /\ UNCHANGED <<execution, driverVars, rowVars, wpc, wjob, standing, loopVars, apiVars>>

\* The worker is killed or shut down mid-job: the row stays as it is, and the
\* uncommitted message is delivered again.
worker_crash(w) ==
    /\ fault("worker")
    /\ wpc[w] # "idle"
    /\ topic' = IF holds[w] THEN [topic EXCEPT ![wjob[w]] = @ + 1] ELSE topic
    /\ wpc' = [wpc EXCEPT ![w] = "idle"]
    /\ wjob' = [wjob EXCEPT ![w] = NoJob]
    /\ holds' = [holds EXCEPT ![w] = FALSE]
    /\ standing' = standing \ {w}
    /\ UNCHANGED <<execution, driverVars, rowVars, loopVars, apiVars>>

\* A message is lost: retention, a deleted topic, an offset committed past it.
lose_message(j) ==
    /\ fault("lost")
    /\ topic[j] > 0
    /\ topic' = [topic EXCEPT ![j] = @ - 1]
    /\ UNCHANGED <<execution, driverVars, rowVars, workerVars, standing, loopVars, apiVars>>

----------------------------------------------------------------------------
(* Leases running out. *)

\* Something is alive that keeps the lease of an in-flight job from mattering:
\* a worker that runs it and beats, or a message that will be picked up.
JobAlive(j) ==
    IF jobState[j] = "running"
    THEN \E w \in Workers : wpc[w] = "running" /\ wjob[w] = j
    ELSE topic[j] > 0 \/ \E w \in Workers : wpc[w] = "received" /\ wjob[w] = j

\* The worker or the message is gone for longer than the lease.
job_lease_expires(j) ==
    /\ jobState[j] \in InFlightStates
    /\ ~expired[j]
    /\ ~JobAlive(j)
    /\ expired' = [expired EXCEPT ![j] = TRUE]
    /\ UNCHANGED <<execution, driverVars, jobState, attempts, topic, workerVars, standing, loopVars,
                   apiVars, faultVars>>

\* A live worker missed its beats (stalled event loop, no database), or a
\* message waits in a backlog for longer than the dispatch lease.
job_lease_missed(j) ==
    /\ fault("lease")
    /\ jobState[j] \in InFlightStates
    /\ ~expired[j]
    /\ JobAlive(j)
    /\ expired' = [expired EXCEPT ![j] = TRUE]
    /\ UNCHANGED <<execution, driverVars, jobState, attempts, topic, workerVars, standing, loopVars,
                   apiVars>>

driver_lease_expires ==
    /\ driver = DeadDriver
    /\ ~driverExpired
    /\ driverExpired' = TRUE
    /\ UNCHANGED <<execution, driver, rowVars, topic, workerVars, standing, loopVars, apiVars, faultVars>>

\* A live loop stalls for longer than DRIVER_LEASE_SECONDS.
driver_lease_missed ==
    /\ fault("stall")
    /\ driver \in Loops
    /\ ~driverExpired
    /\ driverExpired' = TRUE
    /\ UNCHANGED <<execution, driver, rowVars, topic, workerVars, standing, loopVars, apiVars>>

----------------------------------------------------------------------------
(* Drive loops: pipeline_runner.py and dispatcher.py. *)

\* Where a loop is past its claim of the dispatch lease and still driving.
DriveSteps == {"step", "sweep", "count", "fetch", "gate", "send", "mark",
               "sync", "final1", "final2", "final3"}

goto(l, pc) == lpc' = [lpc EXCEPT ![l] = pc]

\* heartbeat_driver matched the row and the execution is still running.
owns_and_running(l) == driver = l /\ execution = "running"

\* resume_execution reads the execution; a settled one is not resumed.
resume_execution(l) ==
    /\ lpc[l] = "resume"
    /\ goto(l, IF execution \in TERMINAL_STATES THEN "off" ELSE "unfinished")
    /\ UNCHANGED <<execution, driverVars, rowVars, topic, workerVars, standing, loopData, apiVars,
                   faultVars>>

\* The pipeline is no longer registered (a redeploy dropped it).
resume_pipeline_missing(l) ==
    /\ fault("registry")
    /\ lpc[l] = "unfinished"
    /\ execution' = "failed"
    /\ goto(l, "off")
    /\ UNCHANGED <<driverVars, rowVars, topic, workerVars, standing, loopData, apiVars>>

\* With nothing unfinished it settles the execution itself, without a lease.
resume_counts(l) ==
    LET unfinished == JobsIn({"pending", "dispatched", "running"}) IN
    /\ lpc[l] = "unfinished"
    /\ goto(l, IF unfinished = {} THEN "final1" ELSE "claim")
    /\ role' = [role EXCEPT ![l] = IF unfinished = {} THEN "settler" ELSE @]
    /\ verdict' = [verdict EXCEPT ![l] = "failed"]
    /\ UNCHANGED <<execution, driverVars, rowVars, topic, workerVars, standing, batch, current, free,
                   apiVars, faultVars>>

\* Mutants: a claim that ignores the owner, and one that never takes over.
may_claim_driver_always(l) == TRUE
may_claim_driver_free_only(l) == driver \in {NoDriver, l}

\* The WHERE clause of claim_driver: nobody owns the execution, this loop
\* does, or the owner's heartbeat is stale.
may_claim_driver(l) == driver \in {NoDriver, l} \/ driverExpired

claim_driver(l) ==
    /\ lpc[l] = "claim"
    /\ may_claim_driver(l)
    /\ driver' = l /\ driverExpired' = FALSE
    /\ goto(l, "step")
    /\ UNCHANGED <<execution, rowVars, topic, workerVars, standing, loopData, apiVars, faultVars>>

\* The UPDATE matched nothing: another loop drives the execution.
stand_by(l) ==
    /\ lpc[l] = "claim"
    /\ ~may_claim_driver(l)
    /\ goto(l, "standby")
    /\ UNCHANGED <<execution, driverVars, rowVars, topic, workerVars, standing, loopData, apiVars,
                   faultVars>>

\* Standing by ends when the execution is no longer running; otherwise the
\* loop tries again.
stop_waiting(l) ==
    /\ lpc[l] = "standby"
    /\ goto(l, IF execution = "running" THEN "claim" ELSE "release")
    /\ UNCHANGED <<execution, driverVars, rowVars, topic, workerVars, standing, loopData, apiVars,
                   faultVars>>

\* The counts a loop that stops waiting returns are read outside any retry.
stop_waiting_error(l) ==
    /\ fault("db")
    /\ lpc[l] = "standby" /\ execution # "running"
    /\ goto(l, "abort")
    /\ UNCHANGED <<execution, driverVars, rowVars, topic, workerVars, standing, loopData, apiVars>>

\* The top of a pass: heartbeat, then read the execution's state.
drive_step(l) ==
    /\ lpc[l] = "step"
    /\ driverExpired' = (driverExpired /\ driver # l)
    /\ goto(l, IF owns_and_running(l) THEN "sweep" ELSE "release")
    /\ UNCHANGED <<execution, driver, rowVars, topic, workerVars, standing, loopData, apiVars, faultVars>>

\* The lease sweep, one transaction.
reclaim_expired_leases(l) ==
    LET swept == {j \in Jobs : jobState[j] \in InFlightStates /\ expired[j]} IN
    /\ lpc[l] = "sweep"
    /\ jobState' = [j \in Jobs |-> reclaim_expired_lease(jobState[j], expired[j], attempts[j],
                                                         JOB_MAX_ATTEMPTS)]
    /\ expired' = [j \in Jobs |-> expired[j] /\ j \notin swept]
    /\ revoke(swept)
    /\ goto(l, "count")
    /\ UNCHANGED <<execution, driverVars, attempts, topic, workerVars, loopData, apiVars, faultVars>>

\* Less than LEASE_CHECK_INTERVAL since the last sweep.
skip_sweep(l) ==
    /\ lpc[l] = "sweep"
    /\ goto(l, "count")
    /\ UNCHANGED <<execution, driverVars, rowVars, topic, workerVars, standing, loopData, apiVars,
                   faultVars>>

free_slots == MAX_IN_FLIGHT_JOBS - Cardinality(JobsIn(InFlightStates))

\* Count the jobs: settle when none is left, send when there is room, or wait.
count_jobs(l) ==
    LET pending == JobsIn({"pending"}) IN
    /\ lpc[l] = "count"
    /\ goto(l, IF pending = {} /\ JobsIn(InFlightStates) = {} THEN "sync"
               ELSE IF pending # {} /\ free_slots > 0 THEN "fetch" ELSE "step")
    /\ free' = [free EXCEPT ![l] = free_slots]
    /\ UNCHANGED <<execution, driverVars, rowVars, topic, workerVars, standing, role, batch, current,
                   verdict, apiVars, faultVars>>

\* Jobs of one planned batch share their created_at, so any of them may be first.
get_pending_jobs(l) ==
    LET pending == JobsIn({"pending"})
        limit == IF free[l] < DISPATCH_FETCH_LIMIT THEN free[l] ELSE DISPATCH_FETCH_LIMIT
    IN
    /\ lpc[l] = "fetch"
    /\ \E S \in SUBSET pending :
          /\ Cardinality(S) <= limit
          /\ S = pending \/ Cardinality(S) = limit
          /\ batch' = [batch EXCEPT ![l] = S]
    /\ goto(l, "gate")
    /\ UNCHANGED <<execution, driverVars, rowVars, topic, workerVars, standing, role, current, free,
                   verdict, apiVars, faultVars>>

\* The Kafka producer cannot be started: the exception ends the drive loop.
get_producer_error(l) ==
    /\ fault("producer")
    /\ lpc[l] = "gate"
    /\ goto(l, "abort")
    /\ UNCHANGED <<execution, driverVars, rowVars, topic, workerVars, standing, loopData, apiVars>>

\* should_stop: always asked before the first send, then about once a second.
should_stop(l) ==
    /\ \/ lpc[l] = "gate"
       \/ lpc[l] = "send" /\ batch[l] # {}
    /\ driverExpired' = (driverExpired /\ driver # l)
    /\ goto(l, IF owns_and_running(l) THEN "send" ELSE "step")
    /\ batch' = [batch EXCEPT ![l] = IF owns_and_running(l) THEN @ ELSE {}]
    /\ UNCHANGED <<execution, driver, rowVars, topic, workerVars, standing, role, current, free,
                   verdict, apiVars, faultVars>>

send_job(l, j) ==
    /\ lpc[l] = "send"
    /\ j \in batch[l] \ Oversized
    /\ topic[j] < MaxMessages
    /\ topic' = [topic EXCEPT ![j] = @ + 1]
    /\ batch' = [batch EXCEPT ![l] = @ \ {j}]
    /\ current' = [current EXCEPT ![l] = j]
    /\ goto(l, "mark")
    /\ UNCHANGED <<execution, driverVars, rowVars, workerVars, standing, role, free, verdict, apiVars,
                   faultVars>>

\* Kafka reports an error for a message it kept: the loop hands back unmarked.
send_job_error(l, j) ==
    /\ fault("kafka")
    /\ lpc[l] = "send"
    /\ j \in batch[l] \ Oversized
    /\ topic[j] < MaxMessages
    /\ topic' = [topic EXCEPT ![j] = @ + 1]
    /\ batch' = [batch EXCEPT ![l] = {}]
    /\ goto(l, "step")
    /\ UNCHANGED <<execution, driverVars, rowVars, workerVars, standing, role, current, free, verdict,
                   apiVars>>

\* on_unsendable: the job fails, whatever its row says by now.
fail_unsendable_job(l, j) ==
    /\ lpc[l] = "send"
    /\ j \in batch[l] \cap Oversized
    /\ jobState' = [jobState EXCEPT ![j] = "failed"]
    /\ expired' = [expired EXCEPT ![j] = FALSE]
    /\ revoke({j})
    /\ batch' = [batch EXCEPT ![l] = @ \ {j}]
    /\ UNCHANGED <<execution, driverVars, attempts, topic, workerVars, lpc, role, current, free,
                   verdict, apiVars, faultVars>>

\* on_sent, after the send.
mark_dispatched(l) ==
    LET j == current[l] IN
    /\ lpc[l] = "mark"
    /\ jobState' = [jobState EXCEPT ![j] = mark_job_dispatched(@)]
    /\ expired' = [expired EXCEPT ![j] = @ /\ jobState[j] \notin {"pending", "dispatched"}]
    /\ current' = [current EXCEPT ![l] = NoJob]
    /\ goto(l, "send")
    /\ UNCHANGED <<execution, driverVars, attempts, topic, workerVars, standing, role, batch, free,
                   verdict, apiVars, faultVars>>

\* The batch is sent, or the dispatcher hands back early: no token in time,
\* the chunk is spent, or Kafka refused a message.
end_send(l) ==
    /\ lpc[l] = "send"
    /\ batch' = [batch EXCEPT ![l] = {}]
    /\ goto(l, "step")
    /\ UNCHANGED <<execution, driverVars, rowVars, topic, workerVars, standing, role, current, free,
                   verdict, apiVars, faultVars>>

\* Mutant: a cancelled job counts as finished.
all_finished_or_cancelled == \A j \in Jobs : jobState[j] \in FinishedStates \cup {"cancelled"}

\* total_finished = expected_total, every job row being counted in both.
all_finished == \A j \in Jobs : jobState[j] \in FinishedStates

none_failed == \A j \in Jobs : jobState[j] # "failed"

\* The counts _drive_step passes on as a fallback.
sync_counts(l) ==
    /\ lpc[l] = "sync"
    /\ verdict' = [verdict EXCEPT ![l] =
                      IF all_finished /\ none_failed THEN "completed" ELSE "failed"]
    /\ goto(l, "final1")
    /\ UNCHANGED <<execution, driverVars, rowVars, topic, workerVars, standing, role, batch, current,
                   free, apiVars, faultVars>>

\* _finalize_execution_state takes the failed count from one query ...
finalize_count_failed(l) ==
    /\ lpc[l] = "final1"
    /\ verdict' = [verdict EXCEPT ![l] = IF none_failed THEN "completed" ELSE "failed"]
    /\ goto(l, "final2")
    /\ UNCHANGED <<execution, driverVars, rowVars, topic, workerVars, standing, role, batch, current,
                   free, apiVars, faultVars>>

\* ... and the finished count from a second one.
finalize_count_finished(l) ==
    /\ lpc[l] = "final2"
    /\ verdict' = [verdict EXCEPT ![l] = IF all_finished THEN @ ELSE "failed"]
    /\ goto(l, "final3")
    /\ UNCHANGED <<execution, driverVars, rowVars, topic, workerVars, standing, role, batch, current,
                   free, apiVars, faultVars>>

\* Either query failed: the fallback counts decide.
finalize_fallback(l) ==
    /\ fault("db")
    /\ lpc[l] = "final1"
    /\ goto(l, "final3")
    /\ UNCHANGED <<execution, driverVars, rowVars, topic, workerVars, standing, loopData, apiVars>>

\* The swallowed exception left the session unusable: the write raises, but not
\* the DBAPIError the loop retries on, and neither the release nor the planner's
\* last write gets through.
finalize_session_lost(l) ==
    /\ fault("session")
    /\ lpc[l] = "final1"
    /\ driver' = IF driver = l THEN DeadDriver ELSE driver
    /\ goto(l, "off")
    /\ UNCHANGED <<execution, driverExpired, rowVars, topic, workerVars, standing, loopData, apiVars>>

\* The final state is written over whatever the execution row holds by now.
finalize_execution_state(l) ==
    /\ lpc[l] = "final3"
    /\ execution' = verdict[l]
    /\ goto(l, IF role[l] = "settler" THEN "off" ELSE "release")
    /\ UNCHANGED <<driverVars, rowVars, topic, workerVars, standing, loopData, apiVars, faultVars>>

\* Leaving the loop gives the lease up, if it is still this loop's.
release_driver(l) ==
    /\ lpc[l] \in {"release", "abort"}
    /\ driver' = IF driver = l THEN NoDriver ELSE driver
    /\ driverExpired' = (driverExpired /\ driver # l)
    /\ goto(l, IF lpc[l] = "abort" /\ role[l] = "planner" THEN "abort_failed" ELSE "off")
    /\ UNCHANGED <<execution, rowVars, topic, workerVars, standing, loopData, apiVars, faultVars>>

\* The release failed: the id stays in the row, and no loop has it any more.
release_driver_error(l) ==
    /\ fault("db")
    /\ lpc[l] \in {"release", "abort"}
    /\ driver' = IF driver = l THEN DeadDriver ELSE driver
    /\ goto(l, IF lpc[l] = "abort" /\ role[l] = "planner" THEN "abort_failed" ELSE "off")
    /\ UNCHANGED <<execution, driverExpired, rowVars, topic, workerVars, standing, loopData, apiVars>>

\* An exception that leaves the planner's task fails the execution; a resumed
\* loop only logs it.
dispatch_failed(l) ==
    /\ lpc[l] = "abort_failed"
    /\ execution' = "failed"
    /\ goto(l, "off")
    /\ UNCHANGED <<driverVars, rowVars, topic, workerVars, standing, loopData, apiVars, faultVars>>

\* Not even that could be written: it is logged.
dispatch_failed_error(l) ==
    /\ fault("db")
    /\ lpc[l] = "abort_failed"
    /\ goto(l, "off")
    /\ UNCHANGED <<execution, driverVars, rowVars, topic, workerVars, standing, loopData, apiVars>>

\* A database error inside a pass: the loop rolls back and starts a new pass.
loop_db_error(l) ==
    /\ fault("db")
    /\ lpc[l] \in DriveSteps /\ role[l] # "settler"
    /\ goto(l, "step")
    /\ batch' = [batch EXCEPT ![l] = {}]
    /\ current' = [current EXCEPT ![l] = NoJob]
    /\ UNCHANGED <<execution, driverVars, rowVars, topic, workerVars, standing, role, free, verdict,
                   apiVars>>

\* In a resume that is not driving, the exception ends the background task.
resume_failed(l) ==
    /\ fault("resume")
    /\ \/ lpc[l] \in {"resume", "unfinished"}
       \/ lpc[l] = "final3" /\ role[l] = "settler"
    /\ goto(l, "off")
    /\ UNCHANGED <<execution, driverVars, rowVars, topic, workerVars, standing, loopData, apiVars>>

\* The process of a loop dies; its id stays in the row.
manager_crash(l) ==
    /\ fault("manager")
    /\ lpc[l] \notin {"off", "dead"}
    /\ driver' = IF driver = l THEN DeadDriver ELSE driver
    /\ goto(l, "dead")
    /\ batch' = [batch EXCEPT ![l] = {}]
    /\ current' = [current EXCEPT ![l] = NoJob]
    /\ UNCHANGED <<execution, driverExpired, rowVars, topic, workerVars, standing, role, free, verdict,
                   apiVars>>

\* A manager starts: on the host of the dead one it frees its lease, and it
\* resumes the execution if it finds it running.
recover_interrupted_executions(l, sameHost) ==
    /\ lpc[l] = "dead"
    /\ driver' = IF sameHost /\ driver = DeadDriver THEN NoDriver ELSE driver
    /\ driverExpired' = (driverExpired /\ ~(sameHost /\ driver = DeadDriver))
    /\ role' = [role EXCEPT ![l] = "resumer"]
    /\ goto(l, IF execution = "running" THEN "resume" ELSE "off")
    /\ UNCHANGED <<execution, rowVars, topic, workerVars, standing, batch, current, free, verdict,
                   apiVars, faultVars>>

----------------------------------------------------------------------------
(* The manager's API: app.py and manager.py.  A handler reads the state it *)
(* checks in one transaction and writes in the next.                       *)

called(op, step) ==
    /\ op \in ApiCalls
    /\ hpc = "idle"
    /\ calls < MaxCalls
    /\ calls' = calls + 1
    /\ hpc' = step
    /\ UNCHANGED <<execution, driverVars, rowVars, topic, workerVars, standing, loopVars, faultVars>>

\* A background task that resumes the execution.
start_resume ==
    \E l \in Loops :
        /\ lpc[l] = "off"
        /\ goto(l, "resume")
        /\ role' = [role EXCEPT ![l] = "resumer"]
        /\ UNCHANGED <<batch, current, free, verdict>>

pause_execution == execution \in PausableStates /\ called("pause", "pause")

pause_write ==
    /\ hpc = "pause"
    /\ execution' = "paused"
    /\ hpc' = "idle"
    /\ UNCHANGED <<driverVars, rowVars, topic, workerVars, standing, loopVars, calls, faultVars>>

resume_call == execution \in ResumableStates /\ called("resume", "resume")

resume_write ==
    /\ hpc = "resume"
    /\ execution' = "running"
    /\ hpc' = "idle"
    /\ start_resume
    /\ UNCHANGED <<driverVars, rowVars, topic, workerVars, standing, calls, faultVars>>

cancel_execution == execution \in CancellableStates /\ called("cancel", "cancel")

cancel_write ==
    /\ hpc = "cancel"
    /\ execution' = "cancelled"
    /\ hpc' = "cancel_jobs"
    /\ UNCHANGED <<driverVars, rowVars, topic, workerVars, standing, loopVars, calls, faultVars>>

\* The second transaction of a cancel.
cancel_unstarted_jobs ==
    /\ hpc = "cancel_jobs"
    /\ jobState' = [j \in Jobs |-> cancel_unstarted_job(jobState[j])]
    /\ expired' = [j \in Jobs |-> expired[j] /\ jobState[j] \notin {"pending", "dispatched"}]
    /\ hpc' = "idle"
    /\ UNCHANGED <<execution, driverVars, attempts, topic, workerVars, standing, loopVars, calls,
                   faultVars>>

force_fail == execution \in CancellableStates /\ called("fail", "fail")

force_fail_write ==
    /\ hpc = "fail"
    /\ execution' = "failed"
    /\ hpc' = "idle"
    /\ UNCHANGED <<driverVars, rowVars, topic, workerVars, standing, loopVars, calls, faultVars>>

retry_failed_jobs == execution # "paused" /\ called("retry", "retry")

\* Failed jobs (those whose error matches) go back to the queue.
requeue_failed ==
    /\ hpc = "retry"
    /\ \E S \in SUBSET JobsIn({"failed"}) :
          /\ jobState' = [j \in Jobs |-> IF j \in S THEN requeue_failed_job(jobState[j])
                                                    ELSE jobState[j]]
          /\ attempts' = [j \in Jobs |-> IF j \in S
                                         THEN requeue_failed_attempts(jobState[j], attempts[j])
                                         ELSE attempts[j]]
          /\ hpc' = IF S = {} THEN "idle" ELSE "reopen?"
          /\ happened' = IF S = {} THEN happened ELSE happened \cup {"retry"}
    /\ UNCHANGED <<execution, driverVars, expired, topic, workerVars, standing, loopVars, calls, faults>>

\* was_running, read after the requeue.  Reopening an execution read as
\* running changes no column, so nothing is written and no loop is started.
retry_leaves_running ==
    /\ hpc = "reopen?"
    /\ hpc' = IF execution = "running" THEN "idle" ELSE "reopen"
    /\ UNCHANGED <<execution, driverVars, rowVars, topic, workerVars, standing, loopVars, calls, faultVars>>

reopen_execution ==
    /\ hpc = "reopen"
    /\ execution' = "running"
    /\ hpc' = "idle"
    /\ start_resume
    /\ UNCHANGED <<driverVars, rowVars, topic, workerVars, standing, calls, faultVars>>

\* The process that serves the request dies between two transactions.
handler_crash(l) ==
    /\ fault("manager")
    /\ hpc \notin {"idle", "dead"}
    /\ hpc' = "dead"
    /\ lpc[l] = "off"
    /\ goto(l, "dead")
    /\ UNCHANGED <<execution, driverVars, rowVars, topic, workerVars, standing, loopData, calls>>

----------------------------------------------------------------------------
(* The steps of the program, those of the environment, and the whole. *)

worker_step(w) ==
    \/ \E j \in Jobs : receive(w, j)
    \/ claim_job(w)
    \/ skip_job(w)
    \/ \E outcome \in Outcomes : update_job_in_db(w, outcome)
    \/ commit_offset(w)

loop_step(l) ==
    \/ resume_execution(l) \/ resume_counts(l)
    \/ claim_driver(l) \/ stand_by(l) \/ stop_waiting(l)
    \/ drive_step(l)
    \/ reclaim_expired_leases(l) \/ skip_sweep(l)
    \/ count_jobs(l) \/ get_pending_jobs(l)
    \/ should_stop(l)
    \/ \E j \in Jobs : send_job(l, j) \/ fail_unsendable_job(l, j)
    \/ mark_dispatched(l) \/ end_send(l)
    \/ sync_counts(l) \/ finalize_count_failed(l) \/ finalize_count_finished(l)
    \/ finalize_execution_state(l)
    \/ release_driver(l) \/ dispatch_failed(l)
    \/ \E sameHost \in BOOLEAN : recover_interrupted_executions(l, sameHost)

api_call == pause_execution \/ resume_call \/ cancel_execution \/ force_fail \/ retry_failed_jobs

api_step ==
    \/ pause_write \/ resume_write
    \/ cancel_write \/ cancel_unstarted_jobs
    \/ force_fail_write
    \/ requeue_failed \/ retry_leaves_running \/ reopen_execution

lease_step == driver_lease_expires \/ \E j \in Jobs : job_lease_expires(j)

worker_fault(w) ==
    \/ claim_job_error(w) \/ update_job_in_db_error(w)
    \/ rebalance(w) \/ worker_crash(w)

loop_fault(l) ==
    \/ resume_pipeline_missing(l) \/ get_producer_error(l)
    \/ \E j \in Jobs : send_job_error(l, j)
    \/ stop_waiting_error(l)
    \/ finalize_fallback(l) \/ finalize_session_lost(l)
    \/ release_driver_error(l) \/ dispatch_failed_error(l) \/ loop_db_error(l)
    \/ resume_failed(l)
    \/ manager_crash(l) \/ handler_crash(l)

lease_fault == driver_lease_missed \/ \E j \in Jobs : job_lease_missed(j) \/ lose_message(j)

Next ==
    \/ \E w \in Workers : worker_step(w) \/ heartbeat_job(w) \/ worker_fault(w)
    \/ \E l \in Loops : loop_step(l) \/ loop_fault(l)
    \/ api_call \/ api_step
    \/ lease_step \/ lease_fault

Spec == Init /\ [][Next]_vars

\* Threads and processes that can go on do.  A loop cannot hand back for ever
\* without sending (the token bucket refills) nor skip every sweep (one is due
\* after LEASE_CHECK_INTERVAL); nothing forces an API call or a fault.
Fairness ==
    /\ \A w \in Workers : WF_vars(worker_step(w))
    /\ \A l \in Loops :
          /\ WF_vars(loop_step(l))
          /\ SF_vars(\E j \in Jobs : send_job(l, j) \/ fail_unsendable_job(l, j))
          /\ SF_vars(reclaim_expired_leases(l))
    /\ WF_vars(api_step)
    /\ WF_vars(driver_lease_expires)
    /\ \A j \in Jobs : WF_vars(job_lease_expires(j))

FairSpec == Spec /\ Fairness

----------------------------------------------------------------------------
(* Properties. *)

WorkerPcs == {"idle", "received", "running", "commit"}
LoopPcs == DriveSteps \cup {"off", "dead", "resume", "unfinished", "claim", "standby", "release",
                            "abort", "abort_failed"}
HandlerPcs == {"idle", "pause", "resume", "cancel", "cancel_jobs", "fail", "retry", "reopen?",
               "reopen", "dead"}

\* The state every process works on is well formed: a worker has a job exactly
\* while it handles a message (consumer.py's one message at a time), and a loop
\* has a job to mark exactly between a send and its on_sent.
TypeOK ==
    /\ execution \in States
    /\ driver \in Loops \cup {NoDriver, DeadDriver}
    /\ driverExpired \in BOOLEAN
    /\ jobState \in [Jobs -> JobStates]
    /\ attempts \in [Jobs -> Nat]
    /\ expired \in [Jobs -> BOOLEAN]
    /\ topic \in [Jobs -> Nat]
    /\ wpc \in [Workers -> WorkerPcs]
    /\ wjob \in [Workers -> Jobs \cup {NoJob}]
    /\ \A w \in Workers : wpc[w] = "idle" <=> wjob[w] = NoJob
    /\ holds \in [Workers -> BOOLEAN]
    /\ \A w \in Workers : holds[w] => wpc[w] # "idle"
    /\ standing \subseteq Workers
    /\ lpc \in [Loops -> LoopPcs]
    /\ role \in [Loops -> {"planner", "resumer", "settler"}]
    /\ batch \in [Loops -> SUBSET Jobs]
    /\ current \in [Loops -> Jobs \cup {NoJob}]
    /\ \A l \in Loops : lpc[l] = "mark" <=> current[l] # NoJob
    /\ free \in [Loops -> Int]
    /\ verdict \in [Loops -> {"completed", "failed"}]
    /\ hpc \in HandlerPcs
    /\ calls \in Nat /\ faults \in Nat
    /\ happened \subseteq Telling

\* A job is started at most JOB_MAX_ATTEMPTS times between two retries, and a
\* job back in the queue always has a start left (the claim itself does not look).
AttemptsBounded ==
    \A j \in Jobs :
        /\ attempts[j] <= JOB_MAX_ATTEMPTS
        /\ jobState[j] \in claimable => attempts[j] < JOB_MAX_ATTEMPTS

\* The claim is exclusive: a worker whose claim still stands finds its row
\* running, and no two workers hold standing claims on one job, whatever
\* messages are duplicated, redelivered or sent twice.
ClaimExclusive ==
    /\ \A w \in standing : wpc[w] = "running" /\ jobState[wjob[w]] = "running"
    /\ \A v, w \in standing : v # w => wjob[v] # wjob[w]

\* Only one loop drives an execution, as long as no live loop has stalled past
\* its lease: handing over through release, death or restart never overlaps.
DriverExclusive ==
    "stall" \notin happened =>
        \A l \in Loops : lpc[l] \in DriveSteps /\ role[l] # "settler" => driver = l

\* Once a cancel has returned, every job left in the queue is one that a
\* worker had started and a loop in its last pass gave back.
CancelStopsUnstarted ==
    execution = "cancelled" /\ hpc = "idle" =>
        \A j \in Jobs : jobState[j] \in {"pending", "dispatched"} => attempts[j] > 0

\* A cancelled job only leaves that state through the unguarded result write
\* of a worker without a standing claim, or of the dispatcher that could not send it.
CancelledJobStays ==
    [][\A j \in Jobs : jobState[j] = "cancelled" /\ jobState'[j] # "cancelled" =>
          \/ \E w \in Workers : wpc[w] = "running" /\ wjob[w] = j /\ w \notin standing
                                /\ wpc'[w] = "commit"
          \/ j \in Oversized]_vars

\* So far no live worker missed its beats, no message waited past the dispatch
\* lease, and the database lost no claim and no result.
Reliable == happened \cap {"lease", "db"} = {}

\* Crashes, redelivered and lost messages never take a job from a live worker,
\* and never let one run a job it did not claim.
RunnersHoldClaims ==
    Reliable => \A w \in Workers : wpc[w] = "running" => w \in standing

\* A settled row is settled for good: under the same conditions only
\* /retry-failed moves a job out of completed, failed, deduplicated or cancelled.
SettledJobStays ==
    [][Reliable =>
        \A j \in Jobs \ Oversized :
            jobState[j] \in FinishedStates \cup {"cancelled"} /\ jobState'[j] # jobState[j] =>
                jobState[j] = "failed" /\ hpc = "retry"]_vars

\* "completed" is the truth: every job was delivered or was a duplicate.  Two
\* races are outside it: a retry that requeues and re-runs a job between
\* finalize's two counts, and an oversized job that a loop fails after a cancel.
CompletedMeansDelivered ==
    Reliable /\ "retry" \notin happened /\ execution = "completed" =>
        \A j \in Jobs \ Oversized : jobState[j] \in {"completed", "deduplicated"}

\* An execution that runs does not run for ever: it is settled (or paused,
\* cancelled, failed by the operator) although workers, managers, messages and
\* results get lost, because every loss is noticed by some lease.
Settles == execution = "running" ~> execution # "running"
=============================================================================
