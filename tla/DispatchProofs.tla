--------------------------- MODULE DispatchProofs ---------------------------
(***************************************************************************)
(* Theorems about Dispatch for any number of jobs, workers, drive loops,   *)
(* attempts, faults and API calls.                                         *)
(***************************************************************************)
EXTENDS Dispatch, FiniteSetTheorems, TLAPS

----------------------------------------------------------------------------
(* Type correctness. *)

LEMMA TypeInit == Init => TypeOK
<1> SUFFICES ASSUME Init PROVE TypeOK
  OBVIOUS
<1>1. PICK p \in Loops :
        /\ lpc = [l \in Loops |-> IF l = p THEN "claim" ELSE "off"]
        /\ role = [l \in Loops |-> IF l = p THEN "planner" ELSE "resumer"]
  BY DEF Init
<1>2. /\ lpc \in [Loops -> LoopPcs]
      /\ role \in [Loops -> {"planner", "resumer", "settler"}]
      /\ \A l \in Loops : lpc[l] # "mark"
  BY <1>1 DEF LoopPcs
<1>3. /\ expired \in [Jobs -> BOOLEAN]
      /\ holds \in [Workers -> BOOLEAN]
      /\ driverExpired \in BOOLEAN
      /\ \A w \in Workers : ~holds[w]
  BY Zenon DEF Init
<1>4. /\ jobState \in [Jobs -> JobStates]
      /\ attempts \in [Jobs -> Nat]
      /\ topic \in [Jobs -> Nat]
  BY DEF Init, JobStates
<1>5. /\ wpc \in [Workers -> WorkerPcs]
      /\ wjob \in [Workers -> Jobs \cup {NoJob}]
      /\ \A w \in Workers : wpc[w] = "idle" /\ wjob[w] = NoJob
  BY DEF Init, WorkerPcs
<1>6. /\ batch \in [Loops -> SUBSET Jobs]
      /\ current \in [Loops -> Jobs \cup {NoJob}]
      /\ \A l \in Loops : current[l] = NoJob
      /\ free \in [Loops -> Int]
      /\ verdict \in [Loops -> {"completed", "failed"}]
  BY DEF Init
<1>7. standing \subseteq Workers /\ execution \in States /\ hpc \in HandlerPcs /\ calls \in Nat /\ faults \in Nat
      /\ happened \subseteq Telling /\ driver \in Loops \cup {NoDriver, DeadDriver}
  BY DEF Init, States, HandlerPcs
<1>8. QED
  BY <1>2, <1>3, <1>4, <1>5, <1>6, <1>7 DEF TypeOK

LEMMA TypeWorker ==
  ASSUME NEW w \in Workers, TypeOK, worker_step(w) \/ heartbeat_job(w) \/ worker_fault(w)
  PROVE  TypeOK'
<1> USE JobsAssumption DEF TypeOK, rowVars, driverVars, workerVars, loopVars, apiVars, fault, faultVars, Telling,
                           WorkerPcs, JobStates
<1>1. ASSUME NEW j \in Jobs, receive(w, j) PROVE TypeOK'
  BY <1>1 DEF receive
<1>2. ASSUME NEW outcome \in Outcomes, update_job_in_db(w, outcome) PROVE TypeOK'
  BY <1>2 DEF update_job_in_db, revoke, Outcomes
<1>3. CASE claim_job(w)
  BY <1>3 DEF claim_job
<1>4. CASE skip_job(w)
  BY <1>4 DEF skip_job
<1>5. CASE commit_offset(w)
  BY <1>5 DEF commit_offset
<1>6. CASE heartbeat_job(w)
  BY <1>6 DEF heartbeat_job
<1>7. CASE claim_job_error(w)
  BY <1>7 DEF claim_job_error
<1>8. CASE update_job_in_db_error(w)
  BY <1>8 DEF update_job_in_db_error
<1>9. CASE rebalance(w)
  BY <1>9 DEF rebalance
<1>10. CASE worker_crash(w)
  BY <1>10 DEF worker_crash
<1>11. QED
  BY <1>1, <1>2, <1>3, <1>4, <1>5, <1>6, <1>7, <1>8, <1>9, <1>10 DEF worker_step, worker_fault

LEMMA TypeLoop ==
  ASSUME NEW l \in Loops, TypeOK, loop_step(l)
  PROVE  TypeOK'
<1> USE JobsAssumption DEF TypeOK, rowVars, driverVars, workerVars, loopVars, loopData, apiVars,
                           fault, faultVars, Telling, goto, LoopPcs, DriveSteps
<1>1. ASSUME NEW j \in Jobs, send_job(l, j) PROVE TypeOK'
  BY <1>1 DEF send_job
<1>2. ASSUME NEW j \in Jobs, fail_unsendable_job(l, j) PROVE TypeOK'
  BY <1>2 DEF fail_unsendable_job, revoke, JobStates
<1>3. CASE resume_execution(l)
  BY <1>3 DEF resume_execution
<1>4. CASE resume_counts(l)
  BY <1>4 DEF resume_counts
<1>5. CASE claim_driver(l)
  BY <1>5 DEF claim_driver
<1>6. CASE stand_by(l)
  BY <1>6 DEF stand_by
<1>22. CASE stop_waiting(l)
  BY <1>22 DEF stop_waiting
<1>7. CASE drive_step(l)
  BY <1>7 DEF drive_step
<1>8. CASE reclaim_expired_leases(l)
  BY <1>8 DEF reclaim_expired_leases, reclaim_expired_lease, revoke, JobStates
<1>9. CASE skip_sweep(l)
  BY <1>9 DEF skip_sweep
<1>10. CASE count_jobs(l)
  <2>1. IsFiniteSet(JobsIn(InFlightStates))
    BY FS_Subset DEF JobsIn
  <2>2. Cardinality(JobsIn(InFlightStates)) \in Nat
    BY <2>1, FS_CardinalityType
  <2>3. free_slots \in Int
    BY <2>2, BoundsAssumption DEF free_slots
  <2>4. QED
    BY <1>10, <2>3 DEF count_jobs
<1>11. CASE get_pending_jobs(l)
  BY <1>11 DEF get_pending_jobs, JobsIn
<1>12. CASE should_stop(l)
  BY <1>12 DEF should_stop
<1>13. CASE mark_dispatched(l)
  BY <1>13 DEF mark_dispatched, mark_job_dispatched, JobStates
<1>14. CASE end_send(l)
  BY <1>14 DEF end_send
<1>15. CASE sync_counts(l)
  BY <1>15 DEF sync_counts
<1>16. CASE finalize_count_failed(l)
  BY <1>16 DEF finalize_count_failed
<1>17. CASE finalize_count_finished(l)
  BY <1>17 DEF finalize_count_finished
<1>18. CASE finalize_execution_state(l)
  BY <1>18 DEF finalize_execution_state, States
<1>19. CASE release_driver(l)
  BY <1>19 DEF release_driver
<1>20. CASE dispatch_failed(l)
  BY <1>20 DEF dispatch_failed, States
<1>21. ASSUME NEW sameHost \in BOOLEAN, recover_interrupted_executions(l, sameHost) PROVE TypeOK'
  BY <1>21 DEF recover_interrupted_executions
<1>23. QED
  BY <1>1, <1>2, <1>3, <1>4, <1>5, <1>6, <1>7, <1>8, <1>9, <1>10, <1>11, <1>12, <1>13, <1>14,
     <1>15, <1>16, <1>17, <1>18, <1>19, <1>20, <1>21, <1>22 DEF loop_step

LEMMA TypeLoopFault ==
  ASSUME NEW l \in Loops, TypeOK, loop_fault(l)
  PROVE  TypeOK'
<1> USE JobsAssumption DEF TypeOK, rowVars, driverVars, workerVars, loopVars, loopData, apiVars,
                           fault, faultVars, Telling, goto, LoopPcs, DriveSteps
<1>1. ASSUME NEW j \in Jobs, send_job_error(l, j) PROVE TypeOK'
  BY <1>1 DEF send_job_error
<1>2. CASE resume_pipeline_missing(l)
  BY <1>2 DEF resume_pipeline_missing, States
<1>3. CASE get_producer_error(l)
  BY <1>3 DEF get_producer_error
<1>4. CASE stop_waiting_error(l)
  BY <1>4 DEF stop_waiting_error
<1>5. CASE finalize_fallback(l)
  BY <1>5 DEF finalize_fallback
<1>10. CASE finalize_session_lost(l)
  BY <1>10 DEF finalize_session_lost
<1>11. CASE release_driver_error(l)
  BY <1>11 DEF release_driver_error
<1>12. CASE dispatch_failed_error(l)
  BY <1>12 DEF dispatch_failed_error
<1>6. CASE loop_db_error(l)
  BY <1>6 DEF loop_db_error
<1>7. CASE resume_failed(l)
  BY <1>7 DEF resume_failed
<1>8. CASE manager_crash(l)
  BY <1>8 DEF manager_crash
<1>9. CASE handler_crash(l)
  BY <1>9 DEF handler_crash, HandlerPcs
<1>13. QED
  BY <1>1, <1>2, <1>3, <1>4, <1>5, <1>6, <1>7, <1>8, <1>9, <1>10, <1>11, <1>12 DEF loop_fault

LEMMA TypeApi ==
  ASSUME TypeOK, api_call \/ api_step
  PROVE  TypeOK'
<1> USE JobsAssumption DEF TypeOK, rowVars, driverVars, workerVars, loopVars, apiVars, faultVars,
                           HandlerPcs, States
<1>1. CASE api_call
  BY <1>1 DEF api_call, pause_execution, resume_call, cancel_execution, force_fail,
              retry_failed_jobs, called
<1>2. ASSUME start_resume
      PROVE  /\ lpc' \in [Loops -> LoopPcs]
             /\ role' \in [Loops -> {"planner", "resumer", "settler"}]
             /\ \A l \in Loops : lpc'[l] = "mark" <=> current'[l] # NoJob
             /\ UNCHANGED <<batch, current, free, verdict>>
  BY <1>2 DEF start_resume, goto, LoopPcs, DriveSteps
<1>3. CASE pause_write
  BY <1>3 DEF pause_write
<1>4. CASE resume_write
  BY <1>4, <1>2 DEF resume_write
<1>5. CASE cancel_write
  BY <1>5 DEF cancel_write
<1>6. CASE cancel_unstarted_jobs
  BY <1>6 DEF cancel_unstarted_jobs, cancel_unstarted_job, JobStates
<1>7. CASE force_fail_write
  BY <1>7 DEF force_fail_write
<1>8. CASE requeue_failed
  BY <1>8 DEF requeue_failed, requeue_failed_job, requeue_failed_attempts, JobStates, Telling
<1>9. CASE retry_leaves_running
  BY <1>9 DEF retry_leaves_running
<1>10. CASE reopen_execution
  BY <1>10, <1>2 DEF reopen_execution
<1>11. QED
  BY <1>1, <1>3, <1>4, <1>5, <1>6, <1>7, <1>8, <1>9, <1>10 DEF api_step

LEMMA TypeLease ==
  ASSUME TypeOK, lease_step \/ lease_fault
  PROVE  TypeOK'
<1> USE DEF TypeOK, rowVars, driverVars, workerVars, loopVars, apiVars, fault, faultVars, Telling
<1>1. CASE driver_lease_expires
  BY <1>1 DEF driver_lease_expires
<1>2. CASE driver_lease_missed
  BY <1>2 DEF driver_lease_missed
<1>3. ASSUME NEW j \in Jobs, job_lease_expires(j) PROVE TypeOK'
  BY <1>3 DEF job_lease_expires
<1>4. ASSUME NEW j \in Jobs, job_lease_missed(j) PROVE TypeOK'
  BY <1>4 DEF job_lease_missed
<1>5. ASSUME NEW j \in Jobs, lose_message(j) PROVE TypeOK'
  BY <1>5 DEF lose_message
<1>6. QED
  BY <1>1, <1>2, <1>3, <1>4, <1>5 DEF lease_step, lease_fault

LEMMA TypeStep == TypeOK /\ [Next]_vars => TypeOK'
<1>1. ASSUME TypeOK, UNCHANGED vars PROVE TypeOK'
  BY <1>1 DEF TypeOK, vars
<1>2. QED
  BY <1>1, TypeWorker, TypeLoop, TypeLoopFault, TypeApi, TypeLease DEF Next

\* Every reachable state is well formed: a worker has a job exactly while it
\* handles a message, and a loop has one to mark exactly after sending it.
THEOREM TypeCorrect == Spec => []TypeOK
  BY TypeInit, TypeStep, PTL DEF Spec

----------------------------------------------------------------------------
(* The steps that write job rows or standing claims, and no other does. *)

RowWrite ==
    \/ \E w \in Workers : \/ claim_job(w)
                          \/ \E outcome \in Outcomes : update_job_in_db(w, outcome)
    \/ \E l \in Loops : \/ reclaim_expired_leases(l)
                        \/ mark_dispatched(l)
                        \/ \E j \in Jobs : fail_unsendable_job(l, j)
    \/ cancel_unstarted_jobs
    \/ requeue_failed

LEMMA RowWrites ==
  ASSUME [Next]_vars
  PROVE  RowWrite \/ UNCHANGED <<jobState, attempts>>
<1> USE DEF rowVars
<1>1. ASSUME NEW w \in Workers, worker_step(w) \/ heartbeat_job(w) \/ worker_fault(w)
      PROVE  RowWrite \/ UNCHANGED <<jobState, attempts>>
  BY <1>1 DEF RowWrite, worker_step, worker_fault, receive, skip_job, commit_offset, heartbeat_job,
              claim_job_error, update_job_in_db_error, rebalance, worker_crash
<1>2. ASSUME NEW l \in Loops, loop_step(l)
      PROVE  RowWrite \/ UNCHANGED <<jobState, attempts>>
  BY <1>2 DEF RowWrite, loop_step, resume_execution, resume_counts, claim_driver, stand_by, stop_waiting,
              drive_step, skip_sweep, count_jobs, get_pending_jobs, should_stop, send_job, end_send,
              sync_counts, finalize_count_failed, finalize_count_finished,
              finalize_execution_state, release_driver, dispatch_failed,
              recover_interrupted_executions
<1>3. ASSUME NEW l \in Loops, loop_fault(l)
      PROVE  UNCHANGED <<jobState, attempts>>
  BY <1>3 DEF loop_fault, resume_pipeline_missing, get_producer_error, send_job_error,
              stop_waiting_error, finalize_fallback, finalize_session_lost, release_driver_error,
              dispatch_failed_error, loop_db_error, resume_failed, manager_crash, handler_crash
<1>4. ASSUME api_call \/ api_step
      PROVE  RowWrite \/ UNCHANGED <<jobState, attempts>>
  BY <1>4 DEF RowWrite, api_call, api_step, pause_execution, resume_call, cancel_execution,
              force_fail, retry_failed_jobs, called, pause_write, resume_write, cancel_write,
              force_fail_write, retry_leaves_running, reopen_execution
<1>5. ASSUME lease_step \/ lease_fault
      PROVE  UNCHANGED <<jobState, attempts>>
  BY <1>5 DEF lease_step, lease_fault, driver_lease_expires, driver_lease_missed,
              job_lease_expires, job_lease_missed, lose_message
<1>6. QED
  BY <1>1, <1>2, <1>3, <1>4, <1>5 DEF Next, vars

\* The history of telling events only grows.
LEMMA HappenedGrows == [Next]_vars => happened \subseteq happened'
<1> SUFFICES ASSUME [Next]_vars PROVE happened \subseteq happened'
  OBVIOUS
<1> USE DEF faultVars, fault
<1>1. ASSUME NEW w \in Workers, worker_step(w) \/ heartbeat_job(w) \/ worker_fault(w)
      PROVE  happened \subseteq happened'
  BY <1>1 DEF worker_step, worker_fault, receive, claim_job, skip_job, update_job_in_db,
              commit_offset, heartbeat_job, claim_job_error, update_job_in_db_error, rebalance,
              worker_crash
<1>2. ASSUME NEW l \in Loops, loop_step(l)
      PROVE  UNCHANGED happened
  BY <1>2 DEF loop_step, resume_execution, resume_counts, claim_driver, stand_by, stop_waiting,
              drive_step, reclaim_expired_leases, skip_sweep, count_jobs, get_pending_jobs,
              should_stop, send_job, fail_unsendable_job, mark_dispatched, end_send, sync_counts,
              finalize_count_failed, finalize_count_finished, finalize_execution_state,
              release_driver, dispatch_failed, recover_interrupted_executions
<1>3. ASSUME NEW l \in Loops, loop_fault(l)
      PROVE  happened \subseteq happened'
  BY <1>3 DEF loop_fault, resume_pipeline_missing, get_producer_error, send_job_error,
              stop_waiting_error, finalize_fallback, finalize_session_lost, release_driver_error,
              dispatch_failed_error, loop_db_error, resume_failed, manager_crash, handler_crash
<1>4. ASSUME api_call \/ api_step
      PROVE  happened \subseteq happened'
  BY <1>4 DEF api_call, api_step, pause_execution, resume_call, cancel_execution,
              force_fail, retry_failed_jobs, called, pause_write, resume_write, cancel_write,
              cancel_unstarted_jobs, force_fail_write, requeue_failed, retry_leaves_running,
              reopen_execution
<1>5. ASSUME lease_step \/ lease_fault
      PROVE  happened \subseteq happened'
  BY <1>5 DEF lease_step, lease_fault, driver_lease_expires, driver_lease_missed,
              job_lease_expires, job_lease_missed, lose_message
<1>6. QED
  BY <1>1, <1>2, <1>3, <1>4, <1>5 DEF Next, vars

\* A worker's step touches no drive loop, nor the execution, nor a handler.
LEMMA WorkerLeavesLoops ==
  ASSUME NEW w \in Workers, worker_step(w) \/ heartbeat_job(w) \/ worker_fault(w)
  PROVE  UNCHANGED <<execution, driver, driverExpired, lpc, role, batch, current, free, verdict,
                     hpc, calls>>
<1> USE DEF driverVars, loopVars, apiVars
<1>1. CASE worker_step(w)
  BY <1>1 DEF worker_step, receive, claim_job, skip_job, update_job_in_db, commit_offset
<1>2. CASE heartbeat_job(w) \/ worker_fault(w)
  BY <1>2 DEF heartbeat_job, worker_fault, claim_job_error, update_job_in_db_error, rebalance,
              worker_crash
<1>3. QED
  BY <1>1, <1>2

----------------------------------------------------------------------------
(* Attempts. *)

LEMMA AttemptsStep == TypeOK /\ AttemptsBounded /\ [Next]_vars => AttemptsBounded'
<1> SUFFICES ASSUME TypeOK, AttemptsBounded, [Next]_vars PROVE AttemptsBounded'
  OBVIOUS
<1> USE BoundsAssumption, JobsAssumption DEF TypeOK, AttemptsBounded, claimable
<1>1. CASE UNCHANGED <<jobState, attempts>>
  BY <1>1
<1>2. ASSUME NEW w \in Workers, claim_job(w) PROVE AttemptsBounded'
  BY <1>2 DEF claim_job
<1>3. ASSUME NEW w \in Workers, NEW outcome \in Outcomes, update_job_in_db(w, outcome)
      PROVE  AttemptsBounded'
  BY <1>3 DEF update_job_in_db, Outcomes
<1>4. ASSUME NEW l \in Loops, reclaim_expired_leases(l) PROVE AttemptsBounded'
  BY <1>4 DEF reclaim_expired_leases, reclaim_expired_lease
<1>5. ASSUME NEW l \in Loops, mark_dispatched(l) PROVE AttemptsBounded'
  BY <1>5 DEF mark_dispatched, mark_job_dispatched
<1>6. ASSUME NEW l \in Loops, NEW j \in Jobs, fail_unsendable_job(l, j) PROVE AttemptsBounded'
  BY <1>6 DEF fail_unsendable_job
<1>7. CASE cancel_unstarted_jobs
  BY <1>7 DEF cancel_unstarted_jobs, cancel_unstarted_job
<1>8. CASE requeue_failed
  BY <1>8 DEF requeue_failed, requeue_failed_job, requeue_failed_attempts
<1>9. QED
  BY RowWrites, <1>1, <1>2, <1>3, <1>4, <1>5, <1>6, <1>7, <1>8 DEF RowWrite

\* No job is started more than JOB_MAX_ATTEMPTS times between two retries,
\* although the claim does not look at the count: the sweep never gives a job
\* back that has used its last start.
THEOREM AttemptsAreBounded == Spec => []AttemptsBounded
<1>1. Init => AttemptsBounded
  BY BoundsAssumption DEF Init, AttemptsBounded
<1>2. QED
  BY <1>1, AttemptsStep, TypeCorrect, PTL DEF Spec

----------------------------------------------------------------------------
(* Claims. *)

\* Everyone but the workers leaves the workers alone, and everyone but the
\* sweep and the dispatcher's on_unsendable leaves their claims alone.
LEMMA WorkerFrame ==
  ASSUME \/ \E l \in Loops : loop_step(l) \/ loop_fault(l)
         \/ api_call \/ api_step
         \/ lease_step \/ lease_fault
  PROVE  /\ UNCHANGED <<wpc, wjob, holds>>
         /\ \/ UNCHANGED standing
            \/ \E l \in Loops : \/ reclaim_expired_leases(l)
                                \/ \E j \in Jobs : fail_unsendable_job(l, j)
<1> USE DEF workerVars
<1>1. ASSUME NEW l \in Loops, loop_step(l)
      PROVE  /\ UNCHANGED <<wpc, wjob, holds>>
             /\ \/ UNCHANGED standing
                \/ reclaim_expired_leases(l)
                \/ \E j \in Jobs : fail_unsendable_job(l, j)
  BY <1>1 DEF loop_step, resume_execution, resume_counts, claim_driver, stand_by, stop_waiting, drive_step,
              reclaim_expired_leases, skip_sweep, count_jobs, get_pending_jobs, should_stop,
              send_job, fail_unsendable_job, mark_dispatched, end_send, sync_counts,
              finalize_count_failed, finalize_count_finished, finalize_execution_state,
              release_driver, dispatch_failed, recover_interrupted_executions
<1>2. ASSUME NEW l \in Loops, loop_fault(l)
      PROVE  UNCHANGED <<wpc, wjob, holds, standing>>
  BY <1>2 DEF loop_fault, resume_pipeline_missing, get_producer_error, send_job_error,
              stop_waiting_error, finalize_fallback, finalize_session_lost, release_driver_error,
              dispatch_failed_error, loop_db_error, resume_failed, manager_crash, handler_crash
<1>3. ASSUME api_call \/ api_step
      PROVE  UNCHANGED <<wpc, wjob, holds, standing>>
  BY <1>3 DEF api_call, api_step, pause_execution, resume_call, cancel_execution,
              force_fail, retry_failed_jobs, called, pause_write, resume_write, cancel_write,
              cancel_unstarted_jobs, force_fail_write, requeue_failed, retry_leaves_running,
              reopen_execution
<1>4. ASSUME lease_step \/ lease_fault
      PROVE  UNCHANGED <<wpc, wjob, holds, standing>>
  BY <1>4 DEF lease_step, lease_fault, driver_lease_expires, driver_lease_missed,
              job_lease_expires, job_lease_missed, lose_message
<1>5. QED
  BY <1>1, <1>2, <1>3, <1>4

LEMMA ClaimStep == TypeOK /\ ClaimExclusive /\ [Next]_vars => ClaimExclusive'
<1> SUFFICES ASSUME TypeOK, ClaimExclusive, [Next]_vars PROVE ClaimExclusive'
  OBVIOUS
<1> USE JobsAssumption DEF TypeOK, ClaimExclusive, rowVars, workerVars
<1>1. ASSUME NEW w \in Workers, worker_step(w) PROVE ClaimExclusive'
  <2>1. CASE claim_job(w)
    BY <2>1 DEF claim_job, claimable
  <2>2. ASSUME NEW outcome \in Outcomes, update_job_in_db(w, outcome) PROVE ClaimExclusive'
    BY <2>2 DEF update_job_in_db, revoke
  <2>3. ASSUME NEW j \in Jobs, receive(w, j) PROVE ClaimExclusive'
    BY <2>3 DEF receive
  <2>4. CASE skip_job(w) \/ commit_offset(w)
    BY <2>4 DEF skip_job, commit_offset
  <2>5. QED
    BY <1>1, <2>1, <2>2, <2>3, <2>4 DEF worker_step
<1>2. ASSUME NEW w \in Workers, heartbeat_job(w) \/ worker_fault(w) PROVE ClaimExclusive'
  BY <1>2 DEF heartbeat_job, worker_fault, claim_job_error, update_job_in_db_error, rebalance,
              worker_crash
<1>3. CASE UNCHANGED vars
  BY <1>3 DEF vars
<1>4. CASE \/ \E l \in Loops : loop_step(l) \/ loop_fault(l)
           \/ api_call \/ api_step
           \/ lease_step \/ lease_fault
  <2>1. UNCHANGED <<wpc, wjob, holds>>
    BY <1>4, WorkerFrame
  <2>2. ASSUME NEW l \in Loops, reclaim_expired_leases(l) PROVE ClaimExclusive'
    BY <2>1, <2>2 DEF reclaim_expired_leases, reclaim_expired_lease, revoke, InFlightStates
  <2>3. ASSUME NEW l \in Loops, NEW j \in Jobs, fail_unsendable_job(l, j) PROVE ClaimExclusive'
    BY <2>1, <2>3 DEF fail_unsendable_job, revoke
  <2>4. CASE UNCHANGED <<jobState, standing>>
    BY <2>1, <2>4
  <2>5. ASSUME NEW l \in Loops, mark_dispatched(l) PROVE ClaimExclusive'
    BY <2>1, <2>5 DEF mark_dispatched, mark_job_dispatched
  <2>6. CASE cancel_unstarted_jobs
    BY <2>1, <2>6 DEF cancel_unstarted_jobs, cancel_unstarted_job
  <2>7. CASE requeue_failed
    BY <2>1, <2>7 DEF requeue_failed, requeue_failed_job
  <2>8. \A w \in Workers : ~claim_job(w) /\ \A outcome \in Outcomes : ~update_job_in_db(w, outcome)
    BY <2>1 DEF claim_job, update_job_in_db
  <2>9. \/ UNCHANGED standing
        \/ \E l \in Loops : \/ reclaim_expired_leases(l)
                            \/ \E j \in Jobs : fail_unsendable_job(l, j)
    BY <1>4, WorkerFrame
  <2>10. QED
    BY RowWrites, <2>2, <2>3, <2>4, <2>5, <2>6, <2>7, <2>8, <2>9 DEF RowWrite
<1>5. QED
  BY <1>1, <1>2, <1>3, <1>4 DEF Next

\* A worker's claim is exclusive in every execution, with any number of
\* duplicated or redelivered messages, expired leases, crashes and retries.
THEOREM ClaimsAreExclusive == Spec => []ClaimExclusive
<1>1. Init => ClaimExclusive
  BY DEF Init, ClaimExclusive
<1>2. QED
  BY <1>1, ClaimStep, TypeCorrect, PTL DEF Spec

----------------------------------------------------------------------------
(* Running workers hold their claims. *)

\* Kafka never carried a message of an oversized job, so no worker has one.
NoOversizedMessage ==
    /\ \A j \in Oversized : topic[j] = 0
    /\ \A w \in Workers : wjob[w] \notin Oversized

\* Inductive form of RunnersHoldClaims: besides, what a live worker runs is not expired.
RunnersInv ==
    Reliable => \A w \in Workers : wpc[w] = "running" => w \in standing /\ ~expired[wjob[w]]

\* Only dispatchers, workers and the loss of a message change the topic.
LEMMA TopicWrites ==
  ASSUME \/ \E l \in Loops : loop_step(l) \/ loop_fault(l)
         \/ api_call \/ api_step
         \/ lease_step \/ lease_fault
  PROVE  \/ UNCHANGED topic
         \/ \E l \in Loops, j \in Jobs : send_job(l, j) \/ send_job_error(l, j)
         \/ \E j \in Jobs : lose_message(j)
<1>1. ASSUME NEW l \in Loops, loop_step(l)
      PROVE  UNCHANGED topic \/ \E j \in Jobs : send_job(l, j)
  BY <1>1 DEF loop_step, resume_execution, resume_counts, claim_driver, stand_by, stop_waiting,
              drive_step, reclaim_expired_leases, skip_sweep, count_jobs, get_pending_jobs,
              should_stop, fail_unsendable_job, mark_dispatched, end_send, sync_counts,
              finalize_count_failed, finalize_count_finished, finalize_execution_state,
              release_driver, dispatch_failed, recover_interrupted_executions
<1>2. ASSUME NEW l \in Loops, loop_fault(l)
      PROVE  UNCHANGED topic \/ \E j \in Jobs : send_job_error(l, j)
  BY <1>2 DEF loop_fault, resume_pipeline_missing, get_producer_error,
              stop_waiting_error, finalize_fallback, finalize_session_lost, release_driver_error,
              dispatch_failed_error, loop_db_error, resume_failed, manager_crash, handler_crash
<1>3. ASSUME api_call \/ api_step
      PROVE  UNCHANGED topic
  BY <1>3 DEF api_call, api_step, pause_execution, resume_call, cancel_execution,
              force_fail, retry_failed_jobs, called, pause_write, resume_write, cancel_write,
              cancel_unstarted_jobs, force_fail_write, requeue_failed, retry_leaves_running,
              reopen_execution
<1>4. ASSUME lease_step \/ lease_fault
      PROVE  UNCHANGED topic \/ \E j \in Jobs : lose_message(j)
  BY <1>4 DEF lease_step, lease_fault, driver_lease_expires, driver_lease_missed,
              job_lease_expires, job_lease_missed
<1>5. QED
  BY <1>1, <1>2, <1>3, <1>4

LEMMA OversizedStep == TypeOK /\ NoOversizedMessage /\ [Next]_vars => NoOversizedMessage'
<1> SUFFICES ASSUME TypeOK, NoOversizedMessage, [Next]_vars PROVE NoOversizedMessage'
  OBVIOUS
<1> USE JobsAssumption DEF TypeOK, NoOversizedMessage, workerVars
<1>1. CASE UNCHANGED <<topic, wjob>>
  BY <1>1
<1>2. ASSUME NEW w \in Workers, NEW j \in Jobs, receive(w, j) PROVE NoOversizedMessage'
  BY <1>2 DEF receive
<1>3. ASSUME NEW w \in Workers, commit_offset(w) PROVE NoOversizedMessage'
  BY <1>3 DEF commit_offset
<1>4. ASSUME NEW w \in Workers, rebalance(w) PROVE NoOversizedMessage'
  BY <1>4 DEF rebalance
<1>5. ASSUME NEW w \in Workers, worker_crash(w) PROVE NoOversizedMessage'
  BY <1>5 DEF worker_crash
<1>6. ASSUME NEW w \in Workers, worker_step(w) \/ heartbeat_job(w) \/ worker_fault(w)
      PROVE  NoOversizedMessage'
  BY <1>1, <1>2, <1>3, <1>4, <1>5, <1>6 DEF worker_step, worker_fault, claim_job, skip_job,
     update_job_in_db, heartbeat_job, claim_job_error, update_job_in_db_error
<1>7. ASSUME NEW l \in Loops, NEW j \in Jobs, send_job(l, j) PROVE NoOversizedMessage'
  BY <1>7 DEF send_job
<1>8. ASSUME NEW l \in Loops, NEW j \in Jobs, send_job_error(l, j) PROVE NoOversizedMessage'
  BY <1>8 DEF send_job_error
<1>9. ASSUME NEW j \in Jobs, lose_message(j) PROVE NoOversizedMessage'
  BY <1>9 DEF lose_message
<1>10. CASE UNCHANGED vars
  BY <1>1, <1>10 DEF vars
<1>11. CASE \/ \E l \in Loops : loop_step(l) \/ loop_fault(l)
            \/ api_call \/ api_step
            \/ lease_step \/ lease_fault
  BY <1>1, <1>7, <1>8, <1>9, <1>11, TopicWrites, WorkerFrame
<1>12. QED
  BY <1>6, <1>10, <1>11 DEF Next

\* Whoever else writes a lease flag clears it, except that a lease may expire.
LEMMA ExpiredWrites ==
  ASSUME TypeOK,
         \/ \E l \in Loops : loop_step(l) \/ loop_fault(l)
         \/ api_call \/ api_step
         \/ lease_step \/ lease_fault
  PROVE  \/ \A j \in Jobs : expired'[j] => expired[j]
         \/ \E j \in Jobs : job_lease_expires(j) \/ job_lease_missed(j)
<1> USE DEF TypeOK, rowVars
<1>1. CASE UNCHANGED expired
  BY <1>1
<1>2. ASSUME NEW l \in Loops, reclaim_expired_leases(l)
      PROVE  \A j \in Jobs : expired'[j] => expired[j]
  BY <1>2 DEF reclaim_expired_leases
<1>3. ASSUME NEW l \in Loops, NEW i \in Jobs, fail_unsendable_job(l, i)
      PROVE  \A j \in Jobs : expired'[j] => expired[j]
  BY <1>3 DEF fail_unsendable_job
<1>4. ASSUME NEW l \in Loops, mark_dispatched(l)
      PROVE  \A j \in Jobs : expired'[j] => expired[j]
  BY <1>4 DEF mark_dispatched
<1>5. ASSUME cancel_unstarted_jobs
      PROVE  \A j \in Jobs : expired'[j] => expired[j]
  BY <1>5 DEF cancel_unstarted_jobs
<1>6. ASSUME NEW l \in Loops, loop_step(l)
      PROVE  \A j \in Jobs : expired'[j] => expired[j]
  BY <1>1, <1>2, <1>3, <1>4, <1>6 DEF loop_step, resume_execution, resume_counts, claim_driver,
     stand_by, stop_waiting, drive_step, skip_sweep, count_jobs, get_pending_jobs, should_stop,
     send_job, end_send, sync_counts, finalize_count_failed, finalize_count_finished,
     finalize_execution_state, release_driver, dispatch_failed, recover_interrupted_executions
<1>7. ASSUME NEW l \in Loops, loop_fault(l)
      PROVE  UNCHANGED expired
  BY <1>7 DEF loop_fault, resume_pipeline_missing, get_producer_error, send_job_error,
              stop_waiting_error, finalize_fallback, finalize_session_lost, release_driver_error,
              dispatch_failed_error, loop_db_error, resume_failed, manager_crash, handler_crash
<1>8. ASSUME api_call \/ api_step
      PROVE  UNCHANGED expired \/ cancel_unstarted_jobs
  BY <1>8 DEF api_call, api_step, pause_execution, resume_call, cancel_execution,
              force_fail, retry_failed_jobs, called, pause_write, resume_write, cancel_write,
              force_fail_write, requeue_failed, retry_leaves_running, reopen_execution
<1>9. ASSUME lease_step \/ lease_fault
      PROVE  \/ UNCHANGED expired
             \/ \E j \in Jobs : job_lease_expires(j) \/ job_lease_missed(j)
  BY <1>9 DEF lease_step, lease_fault, driver_lease_expires, driver_lease_missed, lose_message
<1>10. QED
  BY <1>1, <1>5, <1>6, <1>7, <1>8, <1>9

LEMMA RunnersStep ==
  TypeOK /\ ClaimExclusive /\ NoOversizedMessage /\ RunnersInv /\ [Next]_vars => RunnersInv'
<1> SUFFICES ASSUME TypeOK, ClaimExclusive, NoOversizedMessage, RunnersInv, [Next]_vars, Reliable'
             PROVE  RunnersInv'
  BY DEF RunnersInv
<1>1. Reliable
  BY HappenedGrows DEF Reliable
<1>2. \A w \in Workers : wpc[w] = "running" => w \in standing /\ ~expired[wjob[w]]
  BY <1>1 DEF RunnersInv
<1> USE <1>2, JobsAssumption DEF TypeOK, RunnersInv, workerVars, rowVars
<1>3. CASE UNCHANGED <<wpc, wjob, standing, expired>>
  BY <1>3
<1>4. ASSUME NEW w \in Workers, worker_step(w) PROVE RunnersInv'
  <2>1. ASSUME NEW j \in Jobs, receive(w, j) PROVE RunnersInv'
    BY <2>1 DEF receive
  <2>2. CASE claim_job(w)
    BY <2>2 DEF claim_job
  <2>3. CASE skip_job(w)
    BY <2>3 DEF skip_job
  <2>4. ASSUME NEW outcome \in Outcomes, update_job_in_db(w, outcome) PROVE RunnersInv'
    BY <2>4 DEF update_job_in_db, revoke, ClaimExclusive
  <2>5. CASE commit_offset(w)
    BY <2>5 DEF commit_offset
  <2>6. QED
    BY <1>4, <2>1, <2>2, <2>3, <2>4, <2>5 DEF worker_step
<1>5. ASSUME NEW w \in Workers, heartbeat_job(w) \/ worker_fault(w) PROVE RunnersInv'
  <2>1. CASE heartbeat_job(w)
    BY <2>1 DEF heartbeat_job
  <2>2. ~claim_job_error(w) /\ ~update_job_in_db_error(w)
    BY DEF claim_job_error, update_job_in_db_error, fault, Telling, Reliable
  <2>3. CASE rebalance(w)
    BY <2>3 DEF rebalance
  <2>4. CASE worker_crash(w)
    BY <2>4 DEF worker_crash
  <2>5. QED
    BY <1>5, <2>1, <2>2, <2>3, <2>4 DEF worker_fault
<1>6. CASE UNCHANGED vars
  BY <1>3, <1>6 DEF vars
<1>7. CASE \/ \E l \in Loops : loop_step(l) \/ loop_fault(l)
           \/ api_call \/ api_step
           \/ lease_step \/ lease_fault
  <2>1. UNCHANGED <<wpc, wjob, holds>>
    BY <1>7, WorkerFrame
  <2>2. \A w \in Workers : wpc[w] = "running" => wjob[w] \in Jobs /\ jobState[wjob[w]] = "running"
    BY DEF ClaimExclusive, WorkerPcs
  <2>3. ASSUME NEW w \in Workers, wpc[w] = "running" PROVE w \in standing'
    <3>1. ASSUME NEW l \in Loops, reclaim_expired_leases(l) PROVE w \in standing'
      BY <2>2, <2>3, <3>1 DEF reclaim_expired_leases, revoke
    <3>2. ASSUME NEW l \in Loops, NEW j \in Jobs, fail_unsendable_job(l, j) PROVE w \in standing'
      BY <2>3, <3>2 DEF fail_unsendable_job, revoke, NoOversizedMessage
    <3>3. QED
      BY <1>7, <2>3, <3>1, <3>2, WorkerFrame
  <2>4. ASSUME NEW w \in Workers, wpc[w] = "running" PROVE ~expired'[wjob[w]]
    <3>1. ASSUME NEW j \in Jobs, job_lease_expires(j) PROVE ~expired'[wjob[w]]
      BY <2>2, <2>4, <3>1 DEF job_lease_expires, JobAlive
    <3>2. \A j \in Jobs : ~job_lease_missed(j)
      BY DEF job_lease_missed, fault, Telling, Reliable
    <3>3. QED
      BY <1>7, <2>2, <2>4, <3>1, <3>2, ExpiredWrites
  <2>5. QED
    BY <2>1, <2>3, <2>4
<1>8. QED
  BY <1>4, <1>5, <1>6, <1>7 DEF Next

LEMMA RunnersInvariant == Spec => [](NoOversizedMessage /\ RunnersInv)
<1>1. Init => NoOversizedMessage /\ RunnersInv
  BY JobsAssumption DEF Init, NoOversizedMessage, RunnersInv
<1>2. QED
  BY <1>1, OversizedStep, RunnersStep, TypeCorrect, ClaimsAreExclusive, PTL DEF Spec

\* As long as live workers beat and the database answers, whoever runs a job
\* holds the claim on it: no crash, duplicate, lost message, retry, cancel or
\* sweep takes a job from a live worker.
THEOREM RunnersHoldTheirClaims == Spec => []RunnersHoldClaims
<1>1. RunnersInv => RunnersHoldClaims
  BY DEF RunnersInv, RunnersHoldClaims
<1>2. QED
  BY <1>1, RunnersInvariant, PTL

----------------------------------------------------------------------------
(* Settled and cancelled rows. *)

\* What the next two theorems rest on: the writes that do not match settled rows, and
\* a result whose worker holds the claim, so that the row is running.
LEMMA SettledRows ==
  ASSUME TypeOK, ClaimExclusive, RunnersHoldClaims, [Next]_vars, Reliable,
         NEW j \in Jobs \ Oversized,
         jobState[j] \in FinishedStates \cup {"cancelled"}, jobState'[j] # jobState[j]
  PROVE  jobState[j] = "failed" /\ requeue_failed
<1> USE DEF TypeOK, FinishedStates
<1>1. ASSUME NEW w \in Workers, claim_job(w) PROVE FALSE
  BY <1>1 DEF claim_job, claimable
<1>2. ASSUME NEW w \in Workers, NEW outcome \in Outcomes, update_job_in_db(w, outcome) PROVE FALSE
  BY <1>2 DEF update_job_in_db, RunnersHoldClaims, ClaimExclusive
<1>3. ASSUME NEW l \in Loops, reclaim_expired_leases(l) PROVE FALSE
  BY <1>3 DEF reclaim_expired_leases, reclaim_expired_lease
<1>4. ASSUME NEW l \in Loops, mark_dispatched(l) PROVE FALSE
  BY <1>4 DEF mark_dispatched, mark_job_dispatched
<1>5. ASSUME NEW l \in Loops, NEW i \in Jobs, fail_unsendable_job(l, i) PROVE FALSE
  BY <1>5 DEF fail_unsendable_job
<1>6. ~cancel_unstarted_jobs
  BY DEF cancel_unstarted_jobs, cancel_unstarted_job
<1>7. CASE requeue_failed
  BY <1>7 DEF requeue_failed, requeue_failed_job
<1>8. QED
  BY <1>1, <1>2, <1>3, <1>4, <1>5, <1>6, <1>7, RowWrites DEF RowWrite

\* A row leaves a settled state only through /retry-failed, as long as live
\* workers beat and the database answers.
THEOREM SettledJobsStay == Spec => SettledJobStays
<1>1. TypeOK /\ ClaimExclusive /\ RunnersHoldClaims /\ [Next]_vars =>
        [Reliable =>
          \A j \in Jobs \ Oversized :
            jobState[j] \in FinishedStates \cup {"cancelled"} /\ jobState'[j] # jobState[j] =>
                jobState[j] = "failed" /\ hpc = "retry"]_vars
  BY SettledRows DEF requeue_failed
<1>2. QED
  BY <1>1, TypeCorrect, ClaimsAreExclusive, RunnersHoldTheirClaims, PTL DEF Spec, SettledJobStays

\* Whatever goes wrong, a cancelled row is only overwritten by the late result
\* of a worker without a claim, or by a dispatcher that could not send the job.
THEOREM CancelledJobsStay == Spec => CancelledJobStays
<1>1. ASSUME TypeOK, ClaimExclusive, [Next]_vars, NEW j \in Jobs \ Oversized,
             jobState[j] = "cancelled", jobState'[j] # "cancelled"
      PROVE  \E w \in Workers : wpc[w] = "running" /\ wjob[w] = j /\ w \notin standing
                                /\ wpc'[w] = "commit"
  <2> USE <1>1 DEF TypeOK
  <2>1. ASSUME NEW w \in Workers, claim_job(w) PROVE FALSE
    BY <2>1 DEF claim_job, claimable
  <2>2. ASSUME NEW w \in Workers, NEW outcome \in Outcomes, update_job_in_db(w, outcome)
        PROVE  wpc[w] = "running" /\ wjob[w] = j /\ w \notin standing /\ wpc'[w] = "commit"
    BY <2>2 DEF update_job_in_db, ClaimExclusive
  <2>3. ASSUME NEW l \in Loops, reclaim_expired_leases(l) PROVE FALSE
    BY <2>3 DEF reclaim_expired_leases, reclaim_expired_lease
  <2>4. ASSUME NEW l \in Loops, mark_dispatched(l) PROVE FALSE
    BY <2>4 DEF mark_dispatched, mark_job_dispatched
  <2>5. ASSUME NEW l \in Loops, NEW i \in Jobs, fail_unsendable_job(l, i) PROVE FALSE
    BY <2>5 DEF fail_unsendable_job
  <2>6. ~cancel_unstarted_jobs /\ ~requeue_failed
    BY DEF cancel_unstarted_jobs, cancel_unstarted_job, requeue_failed, requeue_failed_job
  <2>7. QED
    BY <2>1, <2>2, <2>3, <2>4, <2>5, <2>6, RowWrites DEF RowWrite
<1>2. TypeOK /\ ClaimExclusive /\ [Next]_vars =>
        [\A j \in Jobs : jobState[j] = "cancelled" /\ jobState'[j] # "cancelled" =>
          \/ \E w \in Workers : wpc[w] = "running" /\ wjob[w] = j /\ w \notin standing
                                /\ wpc'[w] = "commit"
          \/ j \in Oversized]_vars
  BY <1>1
<1>3. QED
  BY <1>2, TypeCorrect, ClaimsAreExclusive, PTL DEF Spec, CancelledJobStays

----------------------------------------------------------------------------
(* The dispatch lease. *)

\* Inductive form of DriverExclusive: besides, the lease of a live owner is fresh.
DriverInv ==
    "stall" \notin happened =>
        /\ \A l \in Loops : lpc[l] \in DriveSteps /\ role[l] # "settler" => driver = l
        /\ driver \in Loops => ~driverExpired

LEMMA DriverStep == TypeOK /\ DriverInv /\ [Next]_vars => DriverInv'
<1> SUFFICES ASSUME TypeOK, DriverInv, [Next]_vars, "stall" \notin happened' PROVE DriverInv'
  BY DEF DriverInv
<1>1. "stall" \notin happened
  BY HappenedGrows
<1>2. /\ \A l \in Loops : lpc[l] \in DriveSteps /\ role[l] # "settler" => driver = l
      /\ driver \in Loops => ~driverExpired
  BY <1>1 DEF DriverInv
<1> USE <1>2, LoopsAssumption
    DEF TypeOK, DriverInv, driverVars, loopVars, loopData, goto, DriveSteps
<1>3. CASE UNCHANGED <<driver, driverExpired, lpc, role>>
  BY <1>3
<1>4. ASSUME NEW w \in Workers, worker_step(w) \/ heartbeat_job(w) \/ worker_fault(w)
      PROVE  DriverInv'
  BY <1>4, <1>3, WorkerLeavesLoops
<1>5. ASSUME NEW l \in Loops, loop_step(l) PROVE DriverInv'
  <2>1. CASE claim_driver(l)
    BY <2>1 DEF claim_driver, may_claim_driver
  <2>2. CASE release_driver(l)
    BY <2>2 DEF release_driver
  <2>3. CASE resume_execution(l)
    BY <2>3 DEF resume_execution
  <2>4. CASE resume_counts(l)
    BY <2>4 DEF resume_counts
  <2>5. CASE stand_by(l)
    BY <2>5 DEF stand_by
  <2>6. CASE stop_waiting(l)
    BY <2>6 DEF stop_waiting
  <2>7. CASE drive_step(l)
    BY <2>7 DEF drive_step
  <2>8. CASE should_stop(l)
    BY <2>8 DEF should_stop
  <2>9. CASE reclaim_expired_leases(l)
    BY <2>9 DEF reclaim_expired_leases
  <2>10. CASE skip_sweep(l)
    BY <2>10 DEF skip_sweep
  <2>11. CASE count_jobs(l)
    BY <2>11 DEF count_jobs
  <2>12. CASE get_pending_jobs(l)
    BY <2>12 DEF get_pending_jobs
  <2>13. CASE mark_dispatched(l)
    BY <2>13 DEF mark_dispatched
  <2>14. CASE end_send(l)
    BY <2>14 DEF end_send
  <2>15. CASE sync_counts(l)
    BY <2>15 DEF sync_counts
  <2>16. CASE finalize_count_failed(l)
    BY <2>16 DEF finalize_count_failed
  <2>17. CASE finalize_count_finished(l)
    BY <2>17 DEF finalize_count_finished
  <2>18. CASE finalize_execution_state(l)
    BY <2>18 DEF finalize_execution_state
  <2>19. CASE dispatch_failed(l)
    BY <2>19 DEF dispatch_failed
  <2>20. ASSUME NEW sameHost \in BOOLEAN, recover_interrupted_executions(l, sameHost)
         PROVE  DriverInv'
    BY <2>20 DEF recover_interrupted_executions
  <2>21. ASSUME NEW j \in Jobs, send_job(l, j) PROVE DriverInv'
    BY <2>21 DEF send_job
  <2>22. ASSUME NEW j \in Jobs, fail_unsendable_job(l, j) PROVE DriverInv'
    BY <2>22 DEF fail_unsendable_job
  <2>23. QED
    BY <1>5, <2>1, <2>2, <2>3, <2>4, <2>5, <2>6, <2>7, <2>8, <2>9, <2>10, <2>11, <2>12, <2>13,
       <2>14, <2>15, <2>16, <2>17, <2>18, <2>19, <2>20, <2>21, <2>22 DEF loop_step
<1>6. ASSUME NEW l \in Loops, loop_fault(l) PROVE DriverInv'
  <2>1. CASE resume_pipeline_missing(l)
    BY <2>1 DEF resume_pipeline_missing
  <2>2. CASE get_producer_error(l)
    BY <2>2 DEF get_producer_error
  <2>3. CASE stop_waiting_error(l)
    BY <2>3 DEF stop_waiting_error
  <2>4. CASE finalize_fallback(l)
    BY <2>4 DEF finalize_fallback
  <2>5. CASE finalize_session_lost(l)
    BY <2>5 DEF finalize_session_lost
  <2>6. CASE release_driver_error(l)
    BY <2>6 DEF release_driver_error
  <2>7. CASE dispatch_failed_error(l)
    BY <2>7 DEF dispatch_failed_error
  <2>8. CASE loop_db_error(l)
    BY <2>8 DEF loop_db_error
  <2>9. CASE resume_failed(l)
    BY <2>9 DEF resume_failed
  <2>10. CASE manager_crash(l)
    BY <2>10 DEF manager_crash
  <2>11. CASE handler_crash(l)
    BY <2>11 DEF handler_crash
  <2>12. ASSUME NEW j \in Jobs, send_job_error(l, j) PROVE DriverInv'
    BY <2>12 DEF send_job_error
  <2>13. QED
    BY <1>6, <2>1, <2>2, <2>3, <2>4, <2>5, <2>6, <2>7, <2>8, <2>9, <2>10, <2>11, <2>12 DEF loop_fault
<1>7. ASSUME api_call \/ api_step PROVE DriverInv'
  <2>1. UNCHANGED <<driver, driverExpired>>
    BY <1>7 DEF api_call, api_step, pause_execution, resume_call, cancel_execution, force_fail,
                retry_failed_jobs, called, pause_write, resume_write, cancel_write,
                cancel_unstarted_jobs, force_fail_write, requeue_failed, retry_leaves_running,
                reopen_execution
  <2>2. UNCHANGED <<lpc, role>> \/ start_resume
    BY <1>7 DEF api_call, api_step, pause_execution, resume_call, cancel_execution, force_fail,
                retry_failed_jobs, called, pause_write, resume_write, cancel_write,
                cancel_unstarted_jobs, force_fail_write, requeue_failed, retry_leaves_running,
                reopen_execution
  <2>3. CASE start_resume
    BY <2>1, <2>3 DEF start_resume
  <2>4. QED
    BY <2>1, <2>2, <2>3, <1>3
<1>8. CASE driver_lease_expires
  BY <1>8 DEF driver_lease_expires
<1>9. CASE driver_lease_missed
  BY <1>9 DEF driver_lease_missed, fault, Telling
<1>10. ASSUME NEW j \in Jobs, job_lease_expires(j) \/ job_lease_missed(j) \/ lose_message(j)
       PROVE  DriverInv'
  BY <1>10, <1>3 DEF job_lease_expires, job_lease_missed, lose_message
<1>11. CASE UNCHANGED vars
  BY <1>11, <1>3 DEF vars
<1>12. QED
  BY <1>4, <1>5, <1>6, <1>7, <1>8, <1>9, <1>10, <1>11 DEF Next, lease_step, lease_fault

\* No two loops drive one execution unless a live one stalled past its lease,
\* whatever pods crash, restart, release or fail to release in whatever order.
THEOREM DriversAreExclusive == Spec => []DriverExclusive
<1>1. Init => DriverInv
  BY LoopsAssumption DEF Init, DriverInv, DriveSteps
<1>2. DriverInv => DriverExclusive
  BY DEF DriverInv, DriverExclusive
<1>3. QED
  BY <1>1, <1>2, DriverStep, TypeCorrect, PTL DEF Spec

----------------------------------------------------------------------------
(* A cancel.  What it leaves queued must have been started: a job is started   *)
(* before a sweep can give it back, and the only other way back into the queue *)
(* is a retry, which reopens the execution before it returns.                  *)

Requeuing == {"cancel_jobs", "reopen?", "reopen", "dead"}

CancelInv ==
    /\ \A j \in Jobs : jobState[j] = "running" => attempts[j] > 0
    /\ execution = "cancelled" /\ hpc \notin Requeuing =>
          \A j \in Jobs : jobState[j] \in {"pending", "dispatched"} => attempts[j] > 0

\* Only a cancel makes an execution cancelled, and only its second transaction returns
\* to an execution that still is.
LEMMA CancelledFrame ==
  ASSUME TypeOK, [Next]_vars, execution' = "cancelled", hpc' \notin Requeuing
  PROVE  cancel_unstarted_jobs \/ (execution = "cancelled" /\ hpc \notin Requeuing)
<1> USE DEF TypeOK, Requeuing, apiVars
<1>1. ASSUME NEW w \in Workers, worker_step(w) \/ heartbeat_job(w) \/ worker_fault(w)
      PROVE  execution = "cancelled" /\ hpc \notin Requeuing
  BY <1>1, WorkerLeavesLoops
<1>2. ASSUME NEW l \in Loops, loop_step(l)
      PROVE  execution = "cancelled" /\ hpc \notin Requeuing
  BY <1>2 DEF loop_step, resume_execution, resume_counts, claim_driver, stand_by, stop_waiting,
              drive_step, reclaim_expired_leases, skip_sweep, count_jobs, get_pending_jobs,
              should_stop, send_job, fail_unsendable_job, mark_dispatched, end_send, sync_counts,
              finalize_count_failed, finalize_count_finished, finalize_execution_state,
              release_driver, dispatch_failed, recover_interrupted_executions
<1>3. ASSUME NEW l \in Loops, loop_fault(l)
      PROVE  execution = "cancelled" /\ hpc \notin Requeuing
  BY <1>3 DEF loop_fault, resume_pipeline_missing, get_producer_error, send_job_error,
              stop_waiting_error, finalize_fallback, finalize_session_lost, release_driver_error,
              dispatch_failed_error, loop_db_error, resume_failed, manager_crash, handler_crash
<1>4. ASSUME api_call \/ api_step
      PROVE  cancel_unstarted_jobs \/ (execution = "cancelled" /\ hpc \notin Requeuing)
  BY <1>4 DEF api_call, api_step, pause_execution, resume_call, cancel_execution,
              force_fail, retry_failed_jobs, called, pause_write, resume_write, cancel_write,
              force_fail_write, requeue_failed, retry_leaves_running, reopen_execution
<1>5. ASSUME lease_step \/ lease_fault
      PROVE  execution = "cancelled" /\ hpc \notin Requeuing
  BY <1>5 DEF lease_step, lease_fault, driver_lease_expires, driver_lease_missed,
              job_lease_expires, job_lease_missed, lose_message
<1>6. QED
  BY <1>1, <1>2, <1>3, <1>4, <1>5 DEF Next, vars

LEMMA CancelStep == TypeOK /\ CancelInv /\ [Next]_vars => CancelInv'
<1> SUFFICES ASSUME TypeOK, CancelInv, [Next]_vars PROVE CancelInv'
  OBVIOUS
<1> DEFINE Queued == \A j \in Jobs : jobState[j] \in {"pending", "dispatched"} => attempts[j] > 0
           Started == \A j \in Jobs : jobState[j] = "running" => attempts[j] > 0
<1> USE JobsAssumption DEF TypeOK
<1>1. Started /\ (execution = "cancelled" /\ hpc \notin Requeuing => Queued)
  BY DEF CancelInv
<1>2. CASE cancel_unstarted_jobs
  <2>1. Queued' /\ Started'
    BY <1>1, <1>2 DEF cancel_unstarted_jobs, cancel_unstarted_job
  <2>2. QED
    BY <2>1 DEF CancelInv
<1>3. CASE ~cancel_unstarted_jobs
  <2>1. Started' /\ (Queued /\ ~(requeue_failed /\ hpc' \in Requeuing) => Queued')
    <3>1. CASE UNCHANGED <<jobState, attempts>>
      BY <1>1, <3>1
    <3>2. ASSUME NEW w \in Workers, claim_job(w) PROVE Started' /\ (Queued => Queued')
      BY <1>1, <3>2 DEF claim_job
    <3>3. ASSUME NEW w \in Workers, NEW outcome \in Outcomes, update_job_in_db(w, outcome)
          PROVE  Started' /\ (Queued => Queued')
      BY <1>1, <3>3 DEF update_job_in_db, Outcomes
    <3>4. ASSUME NEW l \in Loops, reclaim_expired_leases(l) PROVE Started' /\ (Queued => Queued')
      BY <1>1, <3>4 DEF reclaim_expired_leases, reclaim_expired_lease
    <3>5. ASSUME NEW l \in Loops, mark_dispatched(l) PROVE Started' /\ (Queued => Queued')
      BY <1>1, <3>5 DEF mark_dispatched, mark_job_dispatched
    <3>6. ASSUME NEW l \in Loops, NEW j \in Jobs, fail_unsendable_job(l, j)
          PROVE  Started' /\ (Queued => Queued')
      BY <1>1, <3>6 DEF fail_unsendable_job
    <3>7. ASSUME requeue_failed PROVE Started' /\ (Queued /\ hpc' \notin Requeuing => Queued')
      <4>1. Started'
        BY <1>1, <3>7 DEF requeue_failed, requeue_failed_job, requeue_failed_attempts
      <4>2. hpc' \notin Requeuing => UNCHANGED <<jobState, attempts>>
        BY <3>7 DEF requeue_failed, Requeuing
      <4>3. QED
        BY <4>1, <4>2
    <3>8. QED
      BY <1>3, RowWrites, <3>1, <3>2, <3>3, <3>4, <3>5, <3>6, <3>7 DEF RowWrite
  <2>2. QED
    BY <1>1, <1>3, <2>1, CancelledFrame DEF CancelInv
<1>4. QED
  BY <1>2, <1>3

\* Once a cancel has returned, what is still queued had been started, for any number of
\* jobs, workers and loops, and whatever fails.
THEOREM CancelsStopUnstartedJobs == Spec => []CancelStopsUnstarted
<1>1. Init => CancelInv
  BY DEF Init, CancelInv
<1>2. CancelInv => CancelStopsUnstarted
  BY DEF CancelInv, CancelStopsUnstarted, Requeuing
<1>3. QED
  BY <1>1, <1>2, CancelStep, TypeCorrect, PTL DEF Spec

----------------------------------------------------------------------------
(* "completed" is the truth.  A loop enters its last steps when it has seen     *)
(* every row settled, and settled rows stay: so the two counts, although taken  *)
(* at two times, are of the same rows.                                         *)

LastSteps == {"sync", "final1", "final2", "final3"}
Undisturbed == Reliable /\ "retry" \notin happened
Sendable == Jobs \ Oversized

CompletedInv ==
    Undisturbed =>
        /\ execution = "completed" =>
              \A j \in Sendable : jobState[j] \in {"completed", "deduplicated"}
        /\ \A l \in Loops :
              /\ lpc[l] \in LastSteps =>
                    \A j \in Sendable : jobState[j] \in FinishedStates \cup {"cancelled"}
              /\ lpc[l] \in {"final2", "final3"} /\ verdict[l] = "completed" =>
                    \A j \in Sendable : jobState[j] # "failed"
              /\ lpc[l] = "final3" /\ verdict[l] = "completed" =>
                    \A j \in Sendable : jobState[j] # "cancelled"

\* The steps that bring a loop to its last steps or through them, and the one that
\* completes the execution.
LEMMA LastStepsFrame ==
  ASSUME TypeOK, [Next]_vars, "db" \notin happened'
  PROVE  /\ \A l \in Loops : lpc'[l] \in LastSteps =>
              \/ lpc'[l] = lpc[l] /\ verdict'[l] = verdict[l]
              \/ resume_counts(l) \/ count_jobs(l) \/ sync_counts(l)
              \/ finalize_count_failed(l) \/ finalize_count_finished(l)
         /\ execution' = "completed" =>
              execution = "completed" \/ \E l \in Loops : finalize_execution_state(l)
<1> DEFINE Goal ==
      /\ \A l \in Loops : lpc'[l] \in LastSteps =>
           \/ lpc'[l] = lpc[l] /\ verdict'[l] = verdict[l]
           \/ resume_counts(l) \/ count_jobs(l) \/ sync_counts(l)
           \/ finalize_count_failed(l) \/ finalize_count_finished(l)
      /\ execution' = "completed" =>
           execution = "completed" \/ \E l \in Loops : finalize_execution_state(l)
<1> SUFFICES Goal
  OBVIOUS
<1>1. ASSUME NEW w \in Workers, worker_step(w) \/ heartbeat_job(w) \/ worker_fault(w)
      PROVE  Goal
  BY <1>1, WorkerLeavesLoops
<1>2. ASSUME NEW l \in Loops, loop_step(l)
      PROVE  Goal
  <2>1. \A k \in Loops : k # l => lpc'[k] = lpc[k] /\ verdict'[k] = verdict[k]
    <3>1. CASE \/ resume_execution(l) \/ resume_counts(l) \/ claim_driver(l) \/ stand_by(l)
               \/ stop_waiting(l) \/ drive_step(l) \/ reclaim_expired_leases(l) \/ skip_sweep(l)
               \/ count_jobs(l) \/ get_pending_jobs(l) \/ should_stop(l)
      BY <3>1 DEF TypeOK, goto, loopData, resume_execution, resume_counts, claim_driver, stand_by,
                  stop_waiting, drive_step, reclaim_expired_leases, skip_sweep, count_jobs,
                  get_pending_jobs, should_stop
    <3>2. ASSUME NEW j \in Jobs, send_job(l, j) \/ fail_unsendable_job(l, j)
          PROVE  \A k \in Loops : k # l => lpc'[k] = lpc[k] /\ verdict'[k] = verdict[k]
      BY <3>2 DEF TypeOK, goto, send_job, fail_unsendable_job
    <3>3. CASE \/ mark_dispatched(l) \/ end_send(l) \/ sync_counts(l) \/ finalize_count_failed(l)
               \/ finalize_count_finished(l) \/ finalize_execution_state(l) \/ release_driver(l)
               \/ dispatch_failed(l)
               \/ \E sameHost \in BOOLEAN : recover_interrupted_executions(l, sameHost)
      BY <3>3 DEF TypeOK, goto, loopData, mark_dispatched, end_send, sync_counts,
                  finalize_count_failed, finalize_count_finished, finalize_execution_state,
                  release_driver, dispatch_failed, recover_interrupted_executions
    <3>4. QED
      BY <1>2, <3>1, <3>2, <3>3 DEF loop_step
  <2>2. lpc'[l] \in LastSteps =>
           \/ lpc'[l] = lpc[l] /\ verdict'[l] = verdict[l]
           \/ resume_counts(l) \/ count_jobs(l) \/ sync_counts(l)
           \/ finalize_count_failed(l) \/ finalize_count_finished(l)
    <3>1. CASE \/ resume_execution(l) \/ claim_driver(l) \/ stand_by(l) \/ stop_waiting(l)
               \/ drive_step(l) \/ reclaim_expired_leases(l) \/ skip_sweep(l)
               \/ get_pending_jobs(l) \/ should_stop(l) \/ mark_dispatched(l) \/ end_send(l)
      BY <3>1 DEF TypeOK, LastSteps, goto, resume_execution, claim_driver, stand_by, stop_waiting,
                  drive_step, reclaim_expired_leases, skip_sweep, get_pending_jobs, should_stop,
                  mark_dispatched, end_send
    <3>2. ASSUME NEW j \in Jobs, send_job(l, j) \/ fail_unsendable_job(l, j)
          PROVE  lpc'[l] \in LastSteps => lpc'[l] = lpc[l] /\ verdict'[l] = verdict[l]
      BY <3>2 DEF TypeOK, LastSteps, goto, send_job, fail_unsendable_job
    <3>3. CASE \/ finalize_execution_state(l) \/ release_driver(l) \/ dispatch_failed(l)
               \/ \E sameHost \in BOOLEAN : recover_interrupted_executions(l, sameHost)
      BY <3>3 DEF TypeOK, LastSteps, goto, finalize_execution_state, release_driver,
                  dispatch_failed, recover_interrupted_executions
    <3>4. QED
      BY <1>2, <3>1, <3>2, <3>3 DEF loop_step
  <2>3. execution' = "completed" => execution = "completed" \/ finalize_execution_state(l)
    BY <1>2 DEF loop_step, resume_execution, resume_counts, claim_driver, stand_by, stop_waiting,
              drive_step, reclaim_expired_leases, skip_sweep, count_jobs, get_pending_jobs,
              should_stop, send_job, fail_unsendable_job, mark_dispatched, end_send, sync_counts,
              finalize_count_failed, finalize_count_finished,
              release_driver, dispatch_failed, recover_interrupted_executions
  <2>4. QED
    BY <2>1, <2>2, <2>3
<1>3. ASSUME NEW l \in Loops, loop_fault(l)
      PROVE  Goal
  <2>1. ~finalize_fallback(l)
    BY DEF finalize_fallback, fault, Telling
  <2>2. /\ \A k \in Loops : lpc'[k] \in LastSteps => lpc'[k] = lpc[k]
        /\ verdict' = verdict
        /\ execution' = execution \/ execution' = "failed"
    BY <1>3, <2>1 DEF TypeOK, LastSteps, goto, loopData, loop_fault, resume_pipeline_missing,
              get_producer_error, send_job_error, stop_waiting_error, finalize_session_lost,
              release_driver_error, dispatch_failed_error, loop_db_error, resume_failed,
              manager_crash, handler_crash
  <2>3. QED
    BY <2>2
<1>4. ASSUME api_call \/ api_step
      PROVE  Goal
  <2>1. /\ \A k \in Loops : lpc'[k] \in LastSteps => lpc'[k] = lpc[k]
        /\ verdict' = verdict
        /\ execution' = "completed" => execution = "completed"
    BY <1>4 DEF TypeOK, LastSteps, goto, loopVars, api_call, api_step, pause_execution, resume_call,
              cancel_execution, force_fail, retry_failed_jobs, called, pause_write, resume_write,
              cancel_write, cancel_unstarted_jobs, force_fail_write, requeue_failed,
              retry_leaves_running, reopen_execution, start_resume
  <2>2. QED
    BY <2>1
<1>5. ASSUME lease_step \/ lease_fault
      PROVE  Goal
  BY <1>5 DEF loopVars, lease_step, lease_fault, driver_lease_expires, driver_lease_missed,
              job_lease_expires, job_lease_missed, lose_message
<1>6. QED
  BY <1>1, <1>2, <1>3, <1>4, <1>5 DEF Next, vars

LEMMA CompletedStep ==
  ASSUME TypeOK, ClaimExclusive, RunnersHoldClaims, CompletedInv, [Next]_vars
  PROVE  CompletedInv'
<1> SUFFICES ASSUME Undisturbed' PROVE CompletedInv'
  BY DEF CompletedInv
<1>1. Undisturbed /\ Reliable /\ "db" \notin happened' /\ "retry" \notin happened'
  BY HappenedGrows DEF Undisturbed, Reliable
<1>2. ASSUME NEW j \in Sendable, jobState[j] \in FinishedStates \cup {"cancelled"}
      PROVE  jobState'[j] = jobState[j]
  <2>1. SUFFICES ASSUME jobState'[j] # jobState[j] PROVE FALSE
    OBVIOUS
  <2>2. requeue_failed
    BY <1>1, <1>2, <2>1, SettledRows DEF Sendable
  <2>3. QED
    BY <1>1, <1>2, <2>1, <2>2 DEF requeue_failed, TypeOK, Sendable
<1>3. CompletedInv!2
  BY <1>1 DEF CompletedInv
<1>4. \A l \in Loops : lpc'[l] \in LastSteps =>
        \/ lpc'[l] = lpc[l] /\ verdict'[l] = verdict[l]
        \/ resume_counts(l) \/ count_jobs(l) \/ sync_counts(l)
        \/ finalize_count_failed(l) \/ finalize_count_finished(l)
  BY <1>1, LastStepsFrame
<1>5. ASSUME execution' = "completed"
      PROVE  \A j \in Sendable : jobState'[j] \in {"completed", "deduplicated"}
  <2>1. CASE execution = "completed"
    BY <1>2, <1>3, <2>1 DEF FinishedStates
  <2>2. ASSUME NEW l \in Loops, finalize_execution_state(l)
        PROVE  \A j \in Sendable : jobState'[j] \in {"completed", "deduplicated"}
    <3>1. lpc[l] = "final3" /\ verdict[l] = "completed"
      BY <1>5, <2>2 DEF finalize_execution_state
    <3>2. \A j \in Sendable : jobState[j] \in {"completed", "deduplicated"}
      BY <1>3, <3>1 DEF LastSteps, FinishedStates
    <3>3. QED
      BY <1>2, <3>2 DEF FinishedStates
  <2>3. QED
    BY <1>1, <1>5, <2>1, <2>2, LastStepsFrame
<1>6. ASSUME NEW l \in Loops, lpc'[l] \in LastSteps
      PROVE  /\ \A j \in Sendable : jobState'[j] \in FinishedStates \cup {"cancelled"}
             /\ lpc'[l] \in {"final2", "final3"} /\ verdict'[l] = "completed" =>
                   \A j \in Sendable : jobState'[j] # "failed"
             /\ lpc'[l] = "final3" /\ verdict'[l] = "completed" =>
                   \A j \in Sendable : jobState'[j] # "cancelled"
  <2>1. CASE lpc'[l] = lpc[l] /\ verdict'[l] = verdict[l]
    BY <1>2, <1>3, <1>6, <2>1
  <2>2. CASE resume_counts(l) \/ count_jobs(l)
    <3>1. lpc'[l] \in {"sync", "final1"} /\ jobState' = jobState
      BY <1>6, <2>2 DEF resume_counts, count_jobs, goto, rowVars, TypeOK, LastSteps
    <3>2. \A j \in Sendable : jobState[j] \notin {"pending", "dispatched", "running"}
      BY <1>6, <2>2 DEF resume_counts, count_jobs, goto, TypeOK, LastSteps, JobsIn, InFlightStates,
                        Sendable
    <3>3. QED
      BY <3>1, <3>2 DEF TypeOK, JobStates, FinishedStates, Sendable
  <2>3. CASE sync_counts(l)
    <3>1. lpc[l] \in LastSteps /\ lpc'[l] = "final1" /\ jobState' = jobState
      BY <2>3 DEF sync_counts, goto, rowVars, TypeOK, LastSteps
    <3>2. QED
      BY <1>3, <3>1
  <2>4. CASE finalize_count_failed(l)
    <3>1. /\ lpc[l] \in LastSteps /\ lpc'[l] = "final2" /\ jobState' = jobState
          /\ verdict'[l] = "completed" => none_failed
      BY <2>4 DEF finalize_count_failed, goto, rowVars, TypeOK, LastSteps
    <3>2. QED
      BY <1>3, <3>1 DEF none_failed, Sendable
  <2>5. CASE finalize_count_finished(l)
    <3>1. /\ lpc[l] = "final2" /\ lpc'[l] = "final3" /\ jobState' = jobState
          /\ verdict'[l] = "completed" => verdict[l] = "completed" /\ all_finished
      BY <2>5 DEF finalize_count_finished, goto, rowVars, TypeOK
    <3>2. QED
      BY <1>3, <3>1 DEF all_finished, FinishedStates, Sendable, LastSteps
  <2>6. QED
    BY <1>4, <1>6, <2>1, <2>2, <2>3, <2>4, <2>5
<1>7. QED
  BY <1>5, <1>6 DEF CompletedInv, LastSteps

\* An execution that says completed has delivered every job it could send, for any
\* number of jobs, workers and loops, as long as live workers beat, the database answers
\* and no job is retried.
THEOREM CompletedIsTrue == Spec => []CompletedMeansDelivered
<1>1. Init => CompletedInv
  BY DEF Init, CompletedInv, LastSteps
<1>2. TypeOK /\ ClaimExclusive /\ RunnersHoldClaims /\ CompletedInv /\ [Next]_vars => CompletedInv'
  BY CompletedStep
<1>3. CompletedInv => CompletedMeansDelivered
  BY DEF CompletedInv, CompletedMeansDelivered, Undisturbed, Sendable
<1>4. QED
  BY <1>1, <1>2, <1>3, TypeCorrect, ClaimsAreExclusive, RunnersHoldTheirClaims, PTL DEF Spec
=============================================================================
