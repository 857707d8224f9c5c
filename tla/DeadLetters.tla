---------------------------- MODULE DeadLetters ----------------------------
(***************************************************************************)
(* The dead letter queue: rows of dlq_jobs that become due, and the        *)
(* transactions that run them again.  Every manager pod has a scheduler    *)
(* thread that polls; the API dispatches one job or all jobs of a pipeline *)
(* at once, and cancels.  A transaction keeps its row locks for as long as *)
(* its pipeline runs take, and writes their outcome when it commits.       *)
(*                                                                         *)
(* The variables of the rows are what is committed: "processing" is only   *)
(* flushed, no other transaction ever reads it.                            *)
(***************************************************************************)
EXTENDS Naturals, FiniteSets

CONSTANTS
    Jobs,           \* the ids of the dead letter jobs that are scheduled
    Pollers,        \* scheduler threads, one per manager pod
    Handlers,       \* API request handlers
    PipelineOf,     \* a job's pipeline_name
    ParamsOf,       \* a job's job_payload, the params of its run
    MaxRetries,     \* DLQ_MAX_RETRIES
    NoProc,
    MaxCalls,       \* bound: API calls
    MaxFaults       \* bound: crashes and lost connections

ASSUME ProcsAssumption == Pollers \cap Handlers = {} /\ NoProc \notin Pollers \cup Handlers
ASSUME RetriesAssumption == MaxRetries \in Nat \ {0}
ASSUME JobsAssumption == DOMAIN PipelineOf = Jobs /\ DOMAIN ParamsOf = Jobs

Procs == Pollers \cup Handlers

VARIABLES
    status, retry_count, due,   \* columns; "absent": there is no such row; due: scheduled_at has passed
    archive,                    \* ids in dlq_jobs_archive
    lock,                       \* the transaction that holds the row's lock
    pc,                         \* a process's step
    mine,                       \* the rows its query returned
    group,                      \* those that the current run stands for
    completed, failed,          \* those whose run returned, or raised
    connected,                  \* its transaction is still open
    seen,                       \* the columns its last unlocked read returned
    calls, faults,
    ran, failures               \* history: the params a job's runs had; how many raised or were not recorded

rows == <<status, retry_count, due, archive>>
work == <<mine, group, completed, failed, connected>>
history == <<ran, failures>>
vars == <<status, retry_count, due, archive, lock, pc, mine, group, completed, failed, connected, seen,
          calls, faults, ran, failures>>

Nothing == [status |-> "absent", retry_count |-> 0]

Init ==
    /\ status = [j \in Jobs |-> "absent"] /\ retry_count = [j \in Jobs |-> 0]
    /\ due = [j \in Jobs |-> FALSE] /\ archive = {}
    /\ lock = [j \in Jobs |-> NoProc]
    /\ pc = [p \in Procs |-> "idle"]
    /\ mine = [p \in Procs |-> {}] /\ group = [p \in Procs |-> {}]
    /\ completed = [p \in Procs |-> {}] /\ failed = [p \in Procs |-> {}]
    /\ connected = [p \in Procs |-> TRUE]
    /\ seen = [p \in Procs |-> Nothing]
    /\ calls = 0 /\ faults = 0
    /\ ran = [j \in Jobs |-> {}] /\ failures = [j \in Jobs |-> 0]

goto(p, step) == pc' = [pc EXCEPT ![p] = step]
call == calls < MaxCalls /\ calls' = calls + 1

\* Rows the process has the lock of are free again.
unlocked(p) == [j \in Jobs |-> IF lock[j] = p THEN NoProc ELSE lock[j]]

\* The session is closed: whatever it did not commit is gone.
close(p) ==
    /\ goto(p, "idle")
    /\ lock' = unlocked(p)
    /\ mine' = [mine EXCEPT ![p] = {}] /\ group' = [group EXCEPT ![p] = {}]
    /\ completed' = [completed EXCEPT ![p] = {}] /\ failed' = [failed EXCEPT ![p] = {}]
    /\ connected' = [connected EXCEPT ![p] = TRUE]
    /\ seen' = [seen EXCEPT ![p] = Nothing]

----------------------------------------------------------------------------
(* dlq_routes.py: schedule, cancel; time. *)

\* A new id: a row that is gone does not come back.
schedule_dlq_job(j) ==
    /\ status[j] = "absent" /\ j \notin archive /\ retry_count[j] = 0 /\ failures[j] = 0
    /\ status' = [status EXCEPT ![j] = "pending"]
    /\ UNCHANGED <<retry_count, due, archive, lock, pc, work, seen, calls, faults, history>>

become_due(j) ==
    /\ status[j] = "pending" /\ ~due[j]
    /\ due' = [due EXCEPT ![j] = TRUE]
    /\ UNCHANGED <<status, retry_count, archive, lock, pc, work, seen, calls, faults, history>>

\* The state is read without a lock.
cancel_dlq_job(h, j) ==
    /\ pc[h] = "idle" /\ call
    /\ status[j] = "pending"
    /\ mine' = [mine EXCEPT ![h] = {j}]
    /\ goto(h, "cancel")
    /\ UNCHANGED <<rows, lock, group, completed, failed, connected, seen, faults, history>>

\* The UPDATE waits for the row and overwrites what it finds; no row, an error.
cancel_commit(h) ==
    /\ pc[h] = "cancel"
    /\ \A j \in mine[h] : lock[j] = NoProc
    /\ status' = [j \in Jobs |-> IF j \in mine[h] /\ status[j] # "absent"
                                 THEN "cancelled" ELSE status[j]]
    /\ close(h)
    /\ UNCHANGED <<retry_count, due, archive, calls, faults, history>>

----------------------------------------------------------------------------
(* The transactions: what they lock. *)

take(p, S) ==
    /\ S # {}
    /\ mine' = [mine EXCEPT ![p] = S]
    /\ lock' = [j \in Jobs |-> IF j \in S THEN p ELSE lock[j]]
    /\ goto(p, "dispatch")

\* Mutant: FOR UPDATE is left out.
free_pending_any == {j \in Jobs : status[j] = "pending"}

\* Pending rows FOR UPDATE SKIP LOCKED.
free_pending == {j \in Jobs : status[j] = "pending" /\ lock[j] = NoProc}

poll_and_process(p) ==
    /\ pc[p] = "idle"
    /\ take(p, {j \in free_pending : due[j]})
    /\ UNCHANGED <<rows, group, completed, failed, connected, seen, calls, faults, history>>

\* All of a pipeline's jobs, due or not.
process_pipeline_immediately(h, pipeline) ==
    /\ pc[h] = "idle" /\ call
    /\ take(h, {j \in free_pending : PipelineOf[j] = pipeline})
    /\ UNCHANGED <<rows, group, completed, failed, connected, seen, faults, history>>

process_job_immediately(h, j) ==
    /\ pc[h] = "idle" /\ call
    /\ mine' = [mine EXCEPT ![h] = {j}]
    /\ goto(h, "lock")
    /\ UNCHANGED <<rows, lock, group, completed, failed, connected, seen, faults, history>>

\* FOR UPDATE waits; a row that is gone or not pending is refused.
lock_job(h) ==
    /\ pc[h] = "lock"
    /\ \E j \in mine[h] :
          /\ lock[j] = NoProc
          /\ IF status[j] = "pending"
             THEN /\ lock' = [lock EXCEPT ![j] = h]
                  /\ group' = [group EXCEPT ![h] = {j}]
                  /\ goto(h, "run_one")
                  /\ UNCHANGED <<mine, completed, failed, connected, seen>>
             ELSE close(h)
    /\ UNCHANGED <<rows, calls, faults, history>>

----------------------------------------------------------------------------
(* Running the groups. *)

\* Mutant: everything due for a pipeline shares one run.
_group_by_pipeline(S) ==
    {{k \in S : PipelineOf[k] = PipelineOf[j]} : j \in S}

\* One run for the jobs of a pipeline with identical params.
_group_by_params(S) ==
    {{k \in S : PipelineOf[k] = PipelineOf[j] /\ ParamsOf[k] = ParamsOf[j]} : j \in S}

_dispatch_jobs(p) ==
    /\ pc[p] = "dispatch"
    /\ \E g \in _group_by_params(mine[p] \ (completed[p] \cup failed[p])) :
          group' = [group EXCEPT ![p] = g]
    /\ goto(p, "run")
    /\ UNCHANGED <<rows, lock, mine, completed, failed, connected, seen, calls, faults, history>>

\* run_pipeline with the params of the group's first job.
run_with(p) ==
    \E first \in group[p] :
        ran' = [j \in Jobs |-> IF j \in group[p] THEN ran[j] \cup {ParamsOf[first]} ELSE ran[j]]

count_failures(S) == failures' = [j \in Jobs |-> failures[j] + (IF j \in S THEN 1 ELSE 0)]

\* run_pipeline returned.
_mark_completed(p) ==
    /\ pc[p] = "run"
    /\ run_with(p)
    /\ completed' = [completed EXCEPT ![p] = @ \cup group[p]]
    /\ group' = [group EXCEPT ![p] = {}]
    /\ goto(p, "dispatch")
    /\ UNCHANGED <<rows, lock, mine, failed, connected, seen, calls, faults, failures>>

\* It raised, perhaps after the execution was created and driven.
run_raises(p) ==
    /\ pc[p] = "run"
    /\ \/ run_with(p)
       \/ UNCHANGED ran
    /\ failed' = [failed EXCEPT ![p] = @ \cup group[p]]
    /\ group' = [group EXCEPT ![p] = {}]
    /\ count_failures(group[p])
    /\ goto(p, "dispatch")
    /\ UNCHANGED <<rows, lock, mine, completed, connected, seen, calls, faults>>

\* Mutants of _archived: one retry too few; and of rows_after: the row is left as it was flushed.
_archived_early(n) == n + 1 >= MaxRetries

\* _handle_job_failure: this many retries are the last.
_archived(n) == n >= MaxRetries

rows_after_stuck(p) ==
    LET gone == {j \in failed[p] : _archived(retry_count[j] + 1)}
    IN  /\ status' = [j \in Jobs |-> CASE j \in completed[p] -> "completed"
                                       [] j \in gone -> "absent"
                                       [] j \in failed[p] \ gone -> "processing"
                                       [] OTHER -> status[j]]
        /\ retry_count' = [j \in Jobs |-> retry_count[j] + (IF j \in failed[p] THEN 1 ELSE 0)]
        /\ due' = [j \in Jobs |-> due[j] /\ j \notin failed[p]]
        /\ archive' = archive \cup gone

rows_after(p) ==
    LET gone == {j \in failed[p] : _archived(retry_count[j] + 1)}
    IN  /\ status' = [j \in Jobs |-> CASE j \in completed[p] -> "completed"
                                       [] j \in gone -> "absent"
                                       [] j \in failed[p] \ gone -> "pending"
                                       [] OTHER -> status[j]]
        /\ retry_count' = [j \in Jobs |-> retry_count[j] + (IF j \in failed[p] THEN 1 ELSE 0)]
        /\ due' = [j \in Jobs |-> due[j] /\ j \notin failed[p]]
        /\ archive' = archive \cup gone

\* Every group has run: the commit, or a rollback when the connection is gone.
commit(p) ==
    /\ pc[p] = "dispatch" /\ mine[p] = completed[p] \cup failed[p]
    /\ IF connected[p]
       THEN rows_after(p)
       ELSE UNCHANGED rows
    /\ close(p)
    /\ UNCHANGED <<calls, faults, history>>

----------------------------------------------------------------------------
(* process_job_immediately after its run. *)

commit_job(h) ==
    /\ pc[h] = "run_one"
    /\ run_with(h)
    /\ IF connected[h]
       THEN /\ status' = [j \in Jobs |-> IF j \in mine[h] THEN "completed" ELSE status[j]]
            /\ close(h)
            /\ UNCHANGED failures
       ELSE /\ goto(h, "reload")
            /\ group' = [group EXCEPT ![h] = {}]
            /\ count_failures(mine[h])
            /\ UNCHANGED <<status, lock, mine, completed, failed, connected, seen>>
    /\ UNCHANGED <<retry_count, due, archive, calls, faults>>

\* The rollback gives up the lock before the failure is written.
rollback_job(h) ==
    /\ pc[h] = "run_one"
    /\ \/ run_with(h)
       \/ UNCHANGED ran
    /\ lock' = unlocked(h)
    /\ group' = [group EXCEPT ![h] = {}]
    /\ count_failures(mine[h])
    /\ goto(h, "reload")
    /\ UNCHANGED <<rows, mine, completed, failed, connected, seen, calls, faults>>

\* Reading an attribute after the rollback loads the row again, without a lock.
reload_job(h) ==
    /\ pc[h] = "reload"
    /\ \E j \in mine[h] :
          IF status[j] = "absent"
          THEN close(h)
          ELSE /\ seen' = [seen EXCEPT ![h] = [status |-> status[j], retry_count |-> retry_count[j]]]
               /\ goto(h, "write")
               /\ UNCHANGED <<lock, work>>
    /\ UNCHANGED <<rows, calls, faults, history>>

\* The flush waits for the row.  Only columns that differ from what was loaded
\* are written: "pending" is, unless "pending" was loaded.
write_failure(h) ==
    /\ pc[h] = "write"
    /\ \E j \in mine[h] :
          /\ lock[j] = NoProc
          /\ IF status[j] = "absent"
             THEN UNCHANGED rows
             ELSE LET n == seen[h].retry_count + 1
                  IN  IF _archived(n)
                      THEN /\ status' = [status EXCEPT ![j] = "absent"]
                           /\ archive' = archive \cup {j}
                           /\ UNCHANGED <<retry_count, due>>
                      ELSE /\ status' = IF seen[h].status = "pending"
                                        THEN status ELSE [status EXCEPT ![j] = "pending"]
                           /\ retry_count' = [retry_count EXCEPT ![j] = n]
                           /\ due' = [due EXCEPT ![j] = FALSE]
                           /\ UNCHANGED archive
    /\ close(h)
    /\ UNCHANGED <<calls, faults, history>>

----------------------------------------------------------------------------
(* Faults. *)

\* The pod dies, or a query fails before anything ran: the database rolls back.
crash(p) ==
    /\ pc[p] # "idle"
    /\ faults < MaxFaults /\ faults' = faults + 1
    /\ close(p)
    /\ UNCHANGED <<rows, calls, history>>

\* The connection drops while the pipeline runs, on sessions of its own.
connection_lost(p) ==
    /\ pc[p] \in {"run", "run_one"} /\ connected[p]
    /\ faults < MaxFaults /\ faults' = faults + 1
    /\ connected' = [connected EXCEPT ![p] = FALSE]
    /\ lock' = unlocked(p)
    /\ UNCHANGED <<rows, pc, mine, group, completed, failed, seen, calls, history>>

----------------------------------------------------------------------------
batch_step(p) == _dispatch_jobs(p) \/ _mark_completed(p) \/ run_raises(p) \/ commit(p)

job_step(h) ==
    lock_job(h) \/ commit_job(h) \/ rollback_job(h) \/ reload_job(h) \/ write_failure(h)

request(h) ==
    \/ \E j \in Jobs : cancel_dlq_job(h, j) \/ process_job_immediately(h, j)
    \/ \E j \in Jobs : process_pipeline_immediately(h, PipelineOf[j])

Next ==
    \/ \E j \in Jobs : schedule_dlq_job(j) \/ become_due(j)
    \/ \E p \in Pollers : poll_and_process(p)
    \/ \E p \in Procs : batch_step(p) \/ crash(p) \/ connection_lost(p)
    \/ \E h \in Handlers : request(h) \/ cancel_commit(h) \/ job_step(h)

Spec == Init /\ [][Next]_vars

\* Threads go on, and jobs become due; requests and faults need not happen.
Fairness ==
    /\ \A j \in Jobs : WF_vars(become_due(j))
    /\ \A p \in Pollers : WF_vars(poll_and_process(p))
    /\ \A p \in Procs : WF_vars(batch_step(p))
    /\ \A h \in Handlers : WF_vars(cancel_commit(h) \/ job_step(h))

FairSpec == Spec /\ Fairness

----------------------------------------------------------------------------
(* Properties. *)

Steps == {"idle", "cancel", "dispatch", "run", "lock", "run_one", "reload", "write"}
Statuses == {"absent", "pending", "completed", "cancelled"}

\* Columns and program counters; "processing" is never committed, so that no
\* row is left in it by a crash.
TypeOK ==
    /\ status \in [Jobs -> Statuses]
    /\ retry_count \in [Jobs -> Nat]
    /\ due \in [Jobs -> BOOLEAN]
    /\ archive \in SUBSET Jobs
    /\ lock \in [Jobs -> Procs \cup {NoProc}]
    /\ pc \in [Procs -> Steps]
    /\ mine \in [Procs -> SUBSET Jobs] /\ group \in [Procs -> SUBSET Jobs]
    /\ completed \in [Procs -> SUBSET Jobs] /\ failed \in [Procs -> SUBSET Jobs]
    /\ connected \in [Procs -> BOOLEAN]
    /\ seen \in [Procs -> [status : Statuses, retry_count : Nat]]
    /\ calls \in Nat /\ faults \in Nat
    /\ ran \in [Jobs -> SUBSET {ParamsOf[j] : j \in Jobs}]
    /\ failures \in [Jobs -> Nat]

\* Two transactions that still have their connection never run the same job
\* at the same time, whichever of poll, single and pipeline dispatch they are.
OneRunAtATime ==
    \A p, q \in Procs :
        p # q /\ connected[p] /\ connected[q] => group[p] \cap group[q] = {}

\* No job counts as completed that did not run with its own params, although
\* jobs share runs, runs fail in part and rows are written long after.
CompletedRanOwnParams ==
    \A j \in Jobs : status[j] = "completed" => ParamsOf[j] \in ran[j]

\* A scheduled job is in exactly one of the two tables, and in the archive only
\* after MaxRetries of its own failures: concurrent failure handling may lose
\* a count but never invents one.
ArchivedAfterRetries ==
    \A j \in Jobs :
        /\ j \in archive => status[j] = "absent" /\ failures[j] >= MaxRetries
        /\ status[j] = "absent" /\ failures[j] > 0 => j \in archive
        /\ status[j] # "absent" => retry_count[j] <= failures[j]

\* Every scheduled job ends: completed, cancelled, or in the archive.
Ends ==
    \A j \in Jobs :
        status[j] = "pending" ~> status[j] \in {"completed", "cancelled"} \/ j \in archive
=============================================================================
