------------------------------- MODULE JobRun -------------------------------
(***************************************************************************)
(* What a worker does with the messages of jobs that deduplicate: claim    *)
(* the job, run its slice through the pipeline, claim a hash per record in *)
(* processed_records, send the records it won, report.  A run is one       *)
(* delivery of a job's message; a job is delivered again when its worker   *)
(* died, when the manager requeued it and when Kafka repeats a message.    *)
(*                                                                         *)
(* A record stands for its hash: equal records of two jobs are one member  *)
(* of Records.  The workers share the rows of the jobs, the table of       *)
(* claims and its row locks.                                               *)
(***************************************************************************)
EXTENDS Naturals, Sequences, FiniteSets

CONSTANTS
    Jobs, Records,
    Runs,           \* deliveries of messages
    JobOf,          \* the job of a delivery
    Plans,          \* what the jobs' slices may transform to: Jobs -> Seq(Records)
    Earlier,        \* sets of jobs whose job-level hash an earlier release may have stored
    NoJob, NoRun,
    MaxSends,       \* RetryConfig.max_attempts
    MaxFaults       \* bound: kills, shutdowns, database errors, sweeps, requeues of live jobs

ASSUME JobOfAssumption == JobOf \in [Runs -> Jobs]
ASSUME PlansAssumption == Plans \subseteq [Jobs -> Seq(Records)]
ASSUME EarlierAssumption == Earlier \subseteq SUBSET Jobs
ASSUME NoneAssumption == NoJob \notin Jobs /\ NoRun \notin Runs
ASSUME BoundsAssumption == MaxSends \in Nat \ {0} /\ MaxFaults \in Nat

VARIABLES
    content,        \* the transformed records of each job
    row,            \* state of the job's row, "gone" once it is purged
    claims,         \* processed_records: the job that holds a record
    inserting,      \* the run whose open transaction inserted the record
    legacy,         \* jobs whose job-level hash an earlier release stored for another job
    rpc,            \* step of a run
    pos,            \* next position of its content to insert
    won,            \* claimed_record_hashes
    unsent,         \* positions the current attempt has yet to send
    attempt,        \* attempts of send_with_retry
    outcome,        \* what the run is about to report
    faults,
    handed,         \* history: <<run, position>> that the destination accepted for a record
    released,       \* history: records whose claim was ever deleted
    written_before, \* history: jobs found written by the earlier release
    happened        \* history: kinds of trouble so far

table == <<claims, inserting, released>>
local == <<rpc, pos, won, unsent, attempt, outcome>>
vars == <<content, row, claims, inserting, legacy, rpc, pos, won, unsent, attempt, outcome,
          faults, handed, released, written_before, happened>>

Busy == {"fetch", "legacy", "claim", "health", "send", "release", "report"}
Settled == {"completed", "deduplicated"}
Trouble == {"error", "death", "lost_write", "overlap", "swept"}

Init ==
    /\ content \in Plans
    /\ row = [j \in Jobs |-> "dispatched"]
    /\ claims = [x \in Records |-> NoJob] /\ inserting = [x \in Records |-> NoRun]
    /\ legacy \in Earlier
    /\ rpc = [r \in Runs |-> "message"] /\ pos = [r \in Runs |-> 1]
    /\ won = [r \in Runs |-> {}] /\ unsent = [r \in Runs |-> {}]
    /\ attempt = [r \in Runs |-> 1] /\ outcome = [r \in Runs |-> "completed"]
    /\ faults = 0
    /\ handed = [x \in Records |-> {}] /\ released = {} /\ written_before = {} /\ happened = {}

Fault(kind) ==
    /\ faults < MaxFaults /\ faults' = faults + 1
    /\ happened' = happened \cup {kind}

Trace(kind) == happened' = happened \cup {kind} /\ UNCHANGED faults

Slice(r) == content[JobOf[r]]
RecordsOf(j) == {content[j][i] : i \in DOMAIN content[j]}
Live(j) == \E r \in Runs : JobOf[r] = j /\ rpc[r] \in Busy

\* The positions to send: of equal records, the first.
kept(r, hashes) ==
    {i \in DOMAIN Slice(r) : /\ Slice(r)[i] \in hashes
                             /\ \A k \in 1..(i - 1) : Slice(r)[k] # Slice(r)[i]}

goto(r, step) == rpc' = [rpc EXCEPT ![r] = step]

\* The run is over; its task and what it held in memory are gone.
end(r, step) ==
    /\ goto(r, step)
    /\ pos' = [pos EXCEPT ![r] = 1] /\ won' = [won EXCEPT ![r] = {}]
    /\ unsent' = [unsent EXCEPT ![r] = {}] /\ attempt' = [attempt EXCEPT ![r] = 1]
    /\ outcome' = [outcome EXCEPT ![r] = "completed"]

then_report(r, result) == goto(r, "report") /\ outcome' = [outcome EXCEPT ![r] = result]

----------------------------------------------------------------------------
(* _claim_job and the shared core of a job. *)

\* Mutant: a message of a job that runs elsewhere runs it too.
may_run_running(state) == state \in {"dispatched", "gone", "running"}

\* A row that is gone belongs to an untracked message, which runs.
may_run(state) == state \in {"dispatched", "gone"}

_claim_job(r) ==
    /\ rpc[r] = "message"
    /\ LET j == JobOf[r] IN
       IF may_run(row[j])
       THEN /\ row' = [row EXCEPT ![j] = IF @ = "gone" THEN @ ELSE "running"]
            /\ goto(r, "fetch")
            /\ happened' = IF row[j] = "gone" THEN happened \cup {"overlap"} ELSE happened
       ELSE goto(r, "done") /\ UNCHANGED <<row, happened>>
    /\ UNCHANGED <<content, table, legacy, written_before, pos, won, unsent, attempt, outcome, faults, handed>>

\* The database cannot be reached: the job runs anyway.
claim_fails_open(r) ==
    /\ rpc[r] = "message" /\ Fault("overlap")
    /\ goto(r, "fetch")
    /\ UNCHANGED <<content, row, table, legacy, written_before, pos, won, unsent, attempt, outcome, handed>>

\* An empty slice or SkipJob ends the job; so may transformations leave nothing to send.
run_job_records(r) ==
    /\ rpc[r] = "fetch"
    /\ \/ Slice(r) # <<>> /\ goto(r, "legacy") /\ UNCHANGED outcome
       \/ Slice(r) = <<>> /\ then_report(r, "completed")
       \/ Slice(r) = <<>> /\ goto(r, "health") /\ UNCHANGED outcome
    /\ UNCHANGED <<content, row, table, legacy, written_before, pos, won, unsent, attempt, faults, handed, happened>>

\* The upgrade guard: one select, before the claims.
held_by_other_job(r) ==
    /\ rpc[r] = "legacy"
    /\ IF JobOf[r] \in legacy
       THEN then_report(r, "deduplicated") /\ written_before' = written_before \cup {JobOf[r]}
       ELSE goto(r, "claim") /\ UNCHANGED <<outcome, written_before>>
    /\ UNCHANGED <<content, row, table, legacy, pos, won, unsent, attempt, faults, handed, happened>>

----------------------------------------------------------------------------
(* claim_record_hashes: INSERT ... ON CONFLICT DO NOTHING, then a select of the *)
(* rows this job already held.                                                  *)

\* A row that another open transaction inserted makes the statement wait.
waits_for(r) ==
    IF rpc[r] = "claim" /\ pos[r] \in DOMAIN Slice(r)
    THEN {inserting[Slice(r)[pos[r]]]} \ {NoRun, r} ELSE {}

insert_record(r) ==
    /\ rpc[r] = "claim" /\ pos[r] \in DOMAIN Slice(r) /\ waits_for(r) = {}
    /\ LET x == Slice(r)[pos[r]] IN
       inserting' = [inserting EXCEPT ![x] = IF claims[x] = NoJob THEN r ELSE @]
    /\ pos' = [pos EXCEPT ![r] = @ + 1]
    /\ UNCHANGED <<content, row, claims, released, legacy, written_before, rpc, won, unsent, attempt, outcome,
                   faults, handed, happened>>

Inserted(r) == {x \in Records : inserting[x] = r}
rolled_back(r) == [x \in Records |-> IF inserting[x] = r THEN NoRun ELSE inserting[x]]

\* Mutant: only new claims count, a job that ran before is a duplicate of itself.
held_new_only(r) == Inserted(r)

\* Mutant: conflicts are ignored.
held_any(r) == RecordsOf(JobOf[r])

\* The hashes this job holds: the ones just inserted and its earlier ones.
held(r) == Inserted(r) \cup {x \in RecordsOf(JobOf[r]) : claims[x] = JobOf[r]}

commit_claims(r) ==
    /\ rpc[r] = "claim" /\ pos[r] \notin DOMAIN Slice(r)
    /\ claims' = [x \in Records |-> IF inserting[x] = r THEN JobOf[r] ELSE claims[x]]
    /\ inserting' = rolled_back(r) /\ pos' = [pos EXCEPT ![r] = 1]
    /\ won' = [won EXCEPT ![r] = held(r)]
    /\ IF kept(r, held(r)) = {}
       THEN then_report(r, "deduplicated")
       ELSE goto(r, "health") /\ UNCHANGED outcome
    /\ UNCHANGED <<content, row, released, legacy, written_before, unsent, attempt, faults, handed, happened>>

\* PostgreSQL aborts one transaction of a cycle of waits; nothing was claimed yet.
claim_deadlock(r) ==
    /\ \E cycle \in SUBSET Runs : r \in cycle /\ UNION {waits_for(s) : s \in cycle} = cycle
    /\ inserting' = rolled_back(r) /\ pos' = [pos EXCEPT ![r] = 1]
    /\ then_report(r, "failed") /\ Trace("error")
    /\ UNCHANGED <<content, row, claims, released, legacy, written_before, won, unsent, attempt, handed>>

----------------------------------------------------------------------------
(* The destination. *)

health_check(r) ==
    /\ rpc[r] = "health"
    /\ goto(r, "send")
    /\ unsent' = [unsent EXCEPT ![r] = kept(r, won[r])]
    /\ UNCHANGED <<content, row, table, legacy, written_before, pos, won, attempt, outcome, faults, handed, happened>>

accept(r) ==
    /\ rpc[r] = "send"
    /\ \E i \in unsent[r] :
          /\ unsent' = [unsent EXCEPT ![r] = @ \ {i}]
          /\ handed' = [handed EXCEPT ![Slice(r)[i]] = @ \cup {<<r, i>>}]
    /\ UNCHANGED <<content, row, table, legacy, written_before, rpc, pos, won, attempt, outcome, faults, happened>>

sent(r) ==
    /\ rpc[r] = "send" /\ unsent[r] = {}
    /\ then_report(r, "completed") /\ attempt' = [attempt EXCEPT ![r] = 1]
    /\ UNCHANGED <<content, row, table, legacy, written_before, pos, won, unsent, faults, handed, happened>>

\* Mutant: an attempt is not counted.
attempts_used_none(r) == attempt[r]

attempts_used(r) == attempt[r] + 1

\* stop_after_attempt
may_retry(r) == attempt[r] < MaxSends

\* DestinationError: the whole list again, while attempts are left.
send_with_retry(r) ==
    /\ rpc[r] = "send" /\ may_retry(r)
    /\ attempt' = [attempt EXCEPT ![r] = attempts_used(r)]
    /\ unsent' = [unsent EXCEPT ![r] = kept(r, won[r])]
    /\ Trace("error")
    /\ UNCHANGED <<content, row, table, legacy, written_before, rpc, pos, won, outcome, handed>>

\* An exception in the job, an unhealthy destination, or a send that is not retried.
fails(r) ==
    /\ rpc[r] \in {"fetch", "legacy", "health", "send"}
    /\ IF won[r] = {}
       THEN then_report(r, "failed")
       ELSE goto(r, "release") /\ UNCHANGED outcome
    /\ unsent' = [unsent EXCEPT ![r] = {}] /\ attempt' = [attempt EXCEPT ![r] = 1]
    /\ Trace("error")
    /\ UNCHANGED <<content, row, table, legacy, written_before, pos, won, handed>>

----------------------------------------------------------------------------
(* The end of a run. *)

\* Mutant: a failed job keeps its claims.
released_by_none(r) == {}

\* DELETE ... WHERE record_hash IN won AND job_id = the job.
released_by(r) == {x \in won[r] : claims[x] = JobOf[r]}

release_record_hashes(r) ==
    /\ claims' = [x \in Records |-> IF x \in released_by(r) THEN NoJob ELSE claims[x]]
    /\ released' = released \cup released_by(r)

release(r) ==
    /\ rpc[r] = "release"
    /\ release_record_hashes(r)
    /\ then_report(r, "failed")
    /\ UNCHANGED <<content, row, inserting, legacy, written_before, pos, won, unsent, attempt, faults, handed, happened>>

release_error(r) ==
    /\ rpc[r] = "release" /\ Fault("lost_write")
    /\ then_report(r, "failed")
    /\ UNCHANGED <<content, row, table, legacy, written_before, pos, won, unsent, attempt, handed>>

\* By job_id alone; without a row nothing is written.
_update_job_in_db(r) ==
    /\ rpc[r] = "report"
    /\ row' = [row EXCEPT ![JobOf[r]] = IF @ = "gone" THEN @ ELSE outcome[r]]
    /\ end(r, "done")
    /\ UNCHANGED <<content, table, legacy, written_before, faults, handed, happened>>

update_error(r) ==
    /\ rpc[r] = "report" /\ Fault("lost_write")
    /\ end(r, "done")
    /\ UNCHANGED <<content, row, table, legacy, written_before, handed>>

\* SIGTERM: the claims are released and the message stays uncommitted.
terminate(r) ==
    /\ rpc[r] \in Busy \ {"release"} /\ (rpc[r] = "report" => outcome[r] # "failed")
    /\ Fault("death")
    /\ inserting' = rolled_back(r)
    /\ release_record_hashes(r)
    /\ end(r, "dead")
    /\ UNCHANGED <<content, row, legacy, written_before, handed>>

\* SIGKILL: the open transaction is rolled back, what is committed stays.
kill(r) ==
    /\ rpc[r] \in Busy /\ Fault("death")
    /\ inserting' = rolled_back(r)
    /\ end(r, "dead")
    /\ UNCHANGED <<content, row, claims, released, legacy, written_before, handed>>

----------------------------------------------------------------------------
(* The manager. *)

\* The lease of a running job expired, or a user retries a failed one; a message is sent again.
requeue(j) ==
    /\ row[j] \in {"running", "failed"} /\ ~Live(j)
    /\ \E r \in Runs : JobOf[r] = j /\ rpc[r] = "message"
    /\ row' = [row EXCEPT ![j] = "dispatched"]
    /\ UNCHANGED <<content, table, legacy, written_before, local, faults, handed, happened>>

\* The same while a run of the job is still going: its worker stalled past the lease.
requeue_live(j) ==
    /\ row[j] \in {"running", "failed"} /\ Live(j)
    /\ \E r \in Runs : JobOf[r] = j /\ rpc[r] = "message"
    /\ Fault("overlap")
    /\ row' = [row EXCEPT ![j] = "dispatched"]
    /\ UNCHANGED <<content, table, legacy, written_before, local, handed>>

\* The sweeper, a chunk at a time: claims past the retention go.
purge_expired_content ==
    /\ Fault("swept")
    /\ \/ \E x \in Records :
             /\ claims[x] # NoJob
             /\ claims' = [claims EXCEPT ![x] = NoJob] /\ released' = released \cup {x}
             /\ UNCHANGED legacy
       \/ \E j \in legacy : legacy' = legacy \ {j} /\ UNCHANGED <<claims, released>>
    /\ UNCHANGED <<content, row, inserting, written_before, local, handed>>

\* Rows of an execution that settled long ago go too.
purge_expired_executions ==
    /\ faults < MaxFaults /\ faults' = faults + 1
    /\ \A j \in Jobs : row[j] \in Settled \cup {"failed"}
    /\ row' = [j \in Jobs |-> "gone"]
    /\ UNCHANGED <<content, table, legacy, written_before, local, handed, happened>>

----------------------------------------------------------------------------
\* What the worker does by itself once it took the message.
Step(r) ==
    \/ run_job_records(r) \/ held_by_other_job(r)
    \/ insert_record(r) \/ commit_claims(r) \/ claim_deadlock(r)
    \/ health_check(r) \/ accept(r) \/ sent(r)
    \/ send_with_retry(r) \/ fails(r)
    \/ release(r) \/ _update_job_in_db(r)

Next ==
    \/ \E r \in Runs :
          \/ _claim_job(r) \/ claim_fails_open(r)
          \/ Step(r)
          \/ release_error(r) \/ update_error(r) \/ terminate(r) \/ kill(r)
    \/ \E j \in Jobs : requeue(j) \/ requeue_live(j)
    \/ purge_expired_content \/ purge_expired_executions

Spec == Init /\ [][Next]_vars

\* The worker's event loop runs on: a job that can go on does.
FairSpec == Spec /\ \A r \in Runs : WF_vars(Step(r))

----------------------------------------------------------------------------
TypeOK ==
    /\ content \in Plans
    /\ row \in [Jobs -> {"dispatched", "running", "completed", "deduplicated", "failed", "gone"}]
    /\ claims \in [Records -> Jobs \cup {NoJob}]
    /\ inserting \in [Records -> Runs \cup {NoRun}]
    /\ legacy \subseteq Jobs
    /\ rpc \in [Runs -> Busy \cup {"message", "done", "dead"}]
    /\ pos \in [Runs -> Nat]
    /\ won \in [Runs -> SUBSET Records]
    /\ unsent \in [Runs -> SUBSET Nat] /\ \A r \in Runs : unsent[r] \subseteq DOMAIN Slice(r)
    /\ attempt \in [Runs -> 1..MaxSends]
    /\ outcome \in [Runs -> {"completed", "deduplicated", "failed"}]
    /\ faults \in 0..MaxFaults
    /\ handed \in [Records -> SUBSET (Runs \X Nat)]
    /\ released \subseteq Records /\ written_before \subseteq Jobs
    /\ happened \subseteq Trouble

\* Two jobs that carry the same record do not both deliver it, whatever fails, unless
\* the claim on it was deleted (a failed or stopped run gave it back, or it was swept).
OneJobDelivers ==
    \A x \in Records \ released : \A d, e \in handed[x] : JobOf[d[1]] = JobOf[e[1]]

\* As long as nothing goes wrong every record reaches the destination once.
DeliveredOnce ==
    happened = {} => \A x \in Records : Cardinality(handed[x]) <= 1

\* A record all of whose jobs ended well was delivered, by this release or the one before:
\* crashes, shutdowns and lost writes may repeat a record and never drop it silently.
\* (Two runs of one job at a time, and the sweeper, can: the insert of a run conflicts with
\* the job's own claim, which is gone when the run selects the ones it holds.)
NothingLost ==
    happened \cap {"overlap", "swept"} = {} =>
        \A x \in Records :
            LET carriers == {j \in Jobs : x \in RecordsOf(j)} IN
            carriers # {} /\ (\A j \in carriers : row[j] \in Settled)
                => handed[x] # {} \/ carriers \cap written_before # {}

\* A job that failed and no longer runs holds no record back from other jobs, unless a
\* run of it died or a write was lost: their claims wait for the sweeper or a retry.
FailedHoldsNothing ==
    happened \subseteq {"error"} =>
        \A x \in Records : \A j \in Jobs : claims[x] = j /\ row[j] = "failed" => Live(j)

\* Every run ends: waits for other transactions resolve, retries run out.
RunsEnd == <>[](\A r \in Runs : rpc[r] \notin Busy)
=============================================================================
