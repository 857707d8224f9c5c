------------------------------- MODULE JobRow -------------------------------
(***************************************************************************)
(* One row of the `jobs` table and what each UPDATE of the program does to *)
(* it.  A row is reduced to its `state` column, its `attempts` column and  *)
(* a Boolean that says whether the time stamp its lease is measured from   *)
(* (updated_at for a running job, dispatched_at for a dispatched one) is   *)
(* older than that lease.                                                  *)
(*                                                                         *)
(* The operators map a column to its new value and leave every row their   *)
(* WHERE clause does not match alone, so an UPDATE of several rows is the  *)
(* operator applied to each of them.                                       *)
(***************************************************************************)
EXTENDS Naturals

JobStates == {"pending", "dispatched", "running", "completed", "failed",
              "deduplicated", "cancelled"}

\* Counted as in flight by the drive loop.
InFlightStates == {"dispatched", "running"}

\* _finished_count: deduplicated is a success outcome, cancelled is not counted.
FinishedStates == {"completed", "failed", "deduplicated"}

\* What a worker may report for a job it ran.
Outcomes == {"completed", "failed", "deduplicated"}

----------------------------------------------------------------------------
(* Mutated forms of the updates below. *)

claimable_any == {"pending", "dispatched", "running"}

mark_job_dispatched_always(s) == "dispatched"

cancel_unstarted_job_pending_only(s) == IF s = "pending" THEN "cancelled" ELSE s

reclaim_requeues_last_attempt(s, expired, n, max) ==
    IF s = "running" /\ expired
    THEN IF n > max THEN "failed" ELSE "pending"
    ELSE IF s = "dispatched" /\ expired THEN "pending" ELSE s

reclaim_ignores_lease(s, expired, n, max) ==
    IF s = "running"
    THEN IF n >= max THEN "failed" ELSE "pending"
    ELSE IF s = "dispatched" /\ expired THEN "pending" ELSE s

----------------------------------------------------------------------------
\* The states the claim's WHERE clause accepts.
claimable == {"pending", "dispatched"}

\* Only a pending job becomes dispatched: a fast worker may have claimed it.
mark_job_dispatched(s) == IF s = "pending" THEN "dispatched" ELSE s

\* Every job no worker has started; running and settled ones are left alone.
cancel_unstarted_job(s) == IF s \in {"pending", "dispatched"} THEN "cancelled" ELSE s

\* A failed job goes back to the queue with a full set of attempts.
requeue_failed_job(s) == IF s = "failed" THEN "pending" ELSE s

requeue_failed_attempts(s, n) == IF s = "failed" THEN 0 ELSE n

\* The three UPDATEs of the lease sweep, in their order: a stale running job
\* out of attempts fails, any other stale running job is queued again, and so
\* is a stale dispatched one.
reclaim_expired_lease(s, expired, n, max) ==
    IF s = "running" /\ expired
    THEN IF n >= max THEN "failed" ELSE "pending"
    ELSE IF s = "dispatched" /\ expired THEN "pending" ELSE s
=============================================================================
