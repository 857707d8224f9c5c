------------------------------ MODULE Planning ------------------------------
(***************************************************************************)
(* Phase 1 of one execution, from its record to the hand-over to a drive   *)
(* loop.  A planner task resolves the source and saves the plan batch by   *)
(* batch under a planning lease that a thread keeps fresh; managers that   *)
(* start meanwhile, and /resume, run resume_execution, which must tell a   *)
(* plan that is still being written from one that was abandoned, and never *)
(* dispatch a fragment.  The operator pauses, resumes, cancels or          *)
(* force-fails while this goes on.                                         *)
(*                                                                         *)
(* What a drive loop does is module Dispatch; here it is three steps:      *)
(* claim the dispatch lease, stop or settle, release.  As there, a lease   *)
(* is fresh or expired, and so is the execution young or old: older than   *)
(* one lease.                                                              *)
(***************************************************************************)
EXTENDS ExecutionRow, Naturals

CONSTANTS
    Batches,        \* the plan has this many checkpoint batches
    Planner,        \* the process that accepted POST /run
    Managers,       \* further manager processes
    PlanOwner,      \* the planning lease's owner id ("plan:...")
    NoDriver,
    ApiCalls,       \* the API operations the operator uses
    MaxCalls,       \* bound: API calls made
    MaxStarts,      \* bound: managers started besides restarts
    FaultKinds,     \* the kinds of fault that happen
    MaxFaults       \* bound: faults that happen

Actors == Managers \cup {Planner}

\* The ids a process writes to driver_id: its drive loop's is the process
\* itself ("<host>:..."), that of its recovery of a plan is "recover:...".
recovery_id(a) == <<"recover", a>>
Owners == Actors \cup {PlanOwner} \cup {recovery_id(a) : a \in Actors}

ASSUME ActorsAssumption ==
    /\ Planner \notin Managers
    /\ NoDriver \notin Owners
    /\ PlanOwner \notin Actors \cup {recovery_id(a) : a \in Actors}
    /\ \A a \in Actors : recovery_id(a) \notin Actors
ASSUME PlanningBounds ==
    Batches \in Nat /\ MaxCalls \in Nat /\ MaxStarts \in Nat /\ MaxFaults \in Nat

VARIABLES
    execution,      \* executions.state
    plan_complete,  \* executions.plan_complete
    saved,          \* batches whose jobs have been inserted
    pending,        \* batches with jobs no worker has started
    driver,         \* executions.driver_id
    driverExpired,  \* driver_heartbeat_at is older than DRIVER_LEASE_SECONDS
    old,            \* created_at is
    pc,             \* per process: the step its task takes next
    beating,        \* the planning lease's heartbeat thread runs
    hpc, calls,     \* API handler: its next step; calls so far
    starts, faults, \* managers started and faults so far
    unprotected,    \* history: a lease was missed, late or lost to the database
    gave_up         \* history: the task of a resume ended with an exception

rows == <<saved, pending>>
lease == <<driver, driverExpired>>
bounds == <<calls, starts, faults, unprotected, gave_up>>
vars == <<execution, plan_complete, saved, pending, driver, driverExpired, old, pc, beating, hpc,
          calls, starts, faults, unprotected, gave_up>>

\* create_execution: the row is committed before the background task is queued.
Init ==
    /\ execution = "pending" /\ plan_complete = FALSE
    /\ saved = 0 /\ pending = {}
    /\ driver = NoDriver /\ driverExpired = FALSE /\ old = FALSE
    /\ pc = [a \in Actors |-> IF a = Planner THEN "queued" ELSE "off"]
    /\ beating = FALSE
    /\ hpc = "idle"
    /\ calls = 0 /\ starts = 0 /\ faults = 0 /\ unprotected = FALSE /\ gave_up = FALSE

fault(k) ==
    /\ k \in FaultKinds
    /\ faults < MaxFaults /\ faults' = faults + 1
    /\ unprotected' = (unprotected \/ k \in {"stall", "db"})
    /\ gave_up' = (gave_up \/ k = "resume")

goto(a, step) == pc' = [pc EXCEPT ![a] = step]

\* The WHERE clause of claim_driver.
may_claim_driver(id) == driver \in {NoDriver, id} \/ driverExpired

\* release_driver, for an owner that may have lost the lease meanwhile.
release(id) ==
    /\ driver' = IF driver = id THEN NoDriver ELSE driver
    /\ driverExpired' = (driverExpired /\ driver # id)

----------------------------------------------------------------------------
(* The planner: run_pipeline_jobs and _plan_and_dispatch. *)

\* _PlanLease.start: whether the claim matched the row is not looked at.
lease_start ==
    /\ pc[Planner] = "queued"
    /\ driver' = IF may_claim_driver(PlanOwner) THEN PlanOwner ELSE driver
    /\ driverExpired' = (driverExpired /\ ~may_claim_driver(PlanOwner))
    /\ beating' = TRUE
    /\ goto(Planner, "resolve")
    /\ UNCHANGED <<execution, plan_complete, rows, old, hpc, bounds>>

\* The database refuses: planning goes ahead unprotected.
lease_start_error ==
    /\ fault("db")
    /\ pc[Planner] = "queued"
    /\ goto(Planner, "resolve")
    /\ UNCHANGED <<execution, plan_complete, rows, lease, old, beating, hpc, calls, starts>>

\* One beat of the thread.
beat ==
    /\ beating /\ driver = PlanOwner /\ driverExpired
    /\ driverExpired' = FALSE
    /\ UNCHANGED <<execution, plan_complete, rows, driver, old, pc, beating, hpc, bounds>>

\* The source is resolved, and the execution is running, whatever it was.
plan_start ==
    /\ pc[Planner] = "resolve"
    /\ execution' = "running"
    /\ goto(Planner, IF Batches = 0 THEN "total" ELSE "check")
    /\ UNCHANGED <<plan_complete, rows, lease, old, beating, hpc, bounds>>

\* Before a slice, unless the last look is less than a second old: a stopped
\* execution is not planned any further.
check_state ==
    /\ pc[Planner] = "check"
    /\ goto(Planner, IF execution \in {"cancelled", "failed"} THEN "stop" ELSE "plan")
    /\ UNCHANGED <<execution, plan_complete, rows, lease, old, beating, hpc, bounds>>

\* Mutant: the saved part of a stopped plan is left in the queue.
plan_aborted_keeps_jobs ==
    /\ pc[Planner] = "stop"
    /\ goto(Planner, "leave")
    /\ UNCHANGED <<execution, plan_complete, rows, lease, old, beating, hpc, bounds>>

\* create_jobs flushes one batch.  Nothing is checked after the last one.
create_jobs(next) ==
    /\ pc[Planner] = "plan"
    /\ saved' = saved + 1
    /\ pending' = pending \cup {saved + 1}
    /\ next \in {"check", "plan"}
    /\ goto(Planner, IF saved + 1 = Batches THEN "total" ELSE next)
    /\ UNCHANGED <<execution, plan_complete, lease, old, beating, hpc, bounds>>

\* The execution was stopped: what is saved is cancelled, and the task returns.
plan_aborted ==
    /\ pc[Planner] = "stop"
    /\ pending' = {}
    /\ goto(Planner, "leave")
    /\ UNCHANGED <<execution, plan_complete, saved, lease, old, beating, hpc, bounds>>

mark_plan_complete ==
    /\ pc[Planner] = "total"
    /\ plan_complete' = TRUE
    /\ goto(Planner, "handover")
    /\ UNCHANGED <<execution, rows, lease, old, beating, hpc, bounds>>

\* define_jobs, the source or the database raises: the task fails.
plan_error ==
    /\ fault("plan")
    /\ pc[Planner] \in {"resolve", "check", "plan", "stop", "total"}
    /\ goto(Planner, "raised")
    /\ UNCHANGED <<execution, plan_complete, rows, lease, old, beating, hpc, calls, starts>>

Leaving == {"handover", "leave", "raised"}
after_lease(step) == CASE step = "handover" -> "drive" [] step = "leave" -> "off" [] OTHER -> "failed"

\* _PlanLease.stop, on every way out.  Without its thread there is nothing to release.
lease_stop ==
    /\ pc[Planner] \in Leaving
    /\ IF beating THEN release(PlanOwner) ELSE UNCHANGED lease
    /\ beating' = FALSE
    /\ goto(Planner, after_lease(pc[Planner]))
    /\ UNCHANGED <<execution, plan_complete, rows, old, hpc, bounds>>

\* The release failed: the id stays in the row and nobody refreshes it.
lease_stop_error ==
    /\ fault("db")
    /\ pc[Planner] \in Leaving /\ beating
    /\ beating' = FALSE
    /\ goto(Planner, after_lease(pc[Planner]))
    /\ UNCHANGED <<execution, plan_complete, rows, lease, old, hpc, calls, starts>>

\* _dispatch_pipeline_jobs: the exception fails the execution.
dispatch_failed ==
    /\ pc[Planner] = "failed"
    /\ execution' = "failed"
    /\ goto(Planner, "off")
    /\ UNCHANGED <<plan_complete, rows, lease, old, beating, hpc, bounds>>

\* The database refuses that as well: the row stays as it is.
dispatch_failed_error ==
    /\ fault("db")
    /\ pc[Planner] = "failed"
    /\ goto(Planner, "off")
    /\ UNCHANGED <<execution, plan_complete, rows, lease, old, beating, hpc, calls, starts>>

----------------------------------------------------------------------------
(* resume_execution, in any process. *)

\* Mutants: a resume that does not look at plan_complete, and a recovery that
\* does not look at the age of the execution.
resume_execution_any_plan(a) ==
    /\ pc[a] = "resume"
    /\ goto(a, IF execution \in TERMINAL_STATES THEN "off" ELSE "counts")
    /\ UNCHANGED <<execution, plan_complete, rows, lease, old, beating, hpc, bounds>>

recover_plan_any_age(a) ==
    /\ pc[a] = "look"
    /\ goto(a, IF execution \notin {"pending", "running"} THEN "off"
               ELSE IF plan_complete THEN "counts" ELSE "claim")
    /\ UNCHANGED <<execution, plan_complete, rows, lease, old, beating, hpc, bounds>>

resume_execution(a) ==
    /\ pc[a] = "resume"
    /\ goto(a, IF execution \in TERMINAL_STATES THEN "off"
               ELSE IF plan_complete THEN "counts" ELSE "look")
    /\ UNCHANGED <<execution, plan_complete, rows, lease, old, beating, hpc, bounds>>

\* The pipeline is no longer registered.
resume_pipeline_missing(a) ==
    /\ fault("registry")
    /\ pc[a] = "resume"
    /\ execution \notin TERMINAL_STATES
    /\ execution' = "failed"
    /\ goto(a, "off")
    /\ UNCHANGED <<plan_complete, rows, lease, old, beating, hpc, calls, starts>>

\* _recover_plan reads the execution, and waits while it is young.
recover_plan(a) ==
    /\ pc[a] = "look"
    /\ execution \in {"pending", "running"} /\ ~plan_complete => old
    /\ goto(a, IF execution \notin {"pending", "running"} THEN "off"
               ELSE IF plan_complete THEN "counts" ELSE "claim")
    /\ UNCHANGED <<execution, plan_complete, rows, lease, old, beating, hpc, bounds>>

\* A planner whose lease is fresh keeps it; any other plan was abandoned.
recover_claim(a) ==
    /\ pc[a] = "claim"
    /\ driver' = IF may_claim_driver(recovery_id(a)) THEN recovery_id(a) ELSE driver
    /\ driverExpired' = (driverExpired /\ ~may_claim_driver(recovery_id(a)))
    /\ goto(a, IF may_claim_driver(recovery_id(a)) THEN "abandon" ELSE "look")
    /\ UNCHANGED <<execution, plan_complete, rows, old, beating, hpc, bounds>>

plan_abandoned(a) ==
    /\ pc[a] = "abandon"
    /\ execution' = "failed"
    /\ goto(a, "free")
    /\ UNCHANGED <<plan_complete, rows, lease, old, beating, hpc, bounds>>

recover_release(a) ==
    /\ pc[a] = "free"
    /\ release(recovery_id(a))
    /\ goto(a, "off")
    /\ UNCHANGED <<execution, plan_complete, rows, old, beating, hpc, bounds>>

\* Nothing unfinished: the final state is settled without a lease.
resume_counts(a, final) ==
    /\ pc[a] = "counts"
    /\ final \in {"completed", "failed"}
    /\ IF pending = {}
       THEN execution' = final /\ goto(a, "off")
       ELSE UNCHANGED execution /\ goto(a, "drive")
    /\ UNCHANGED <<plan_complete, rows, lease, old, beating, hpc, bounds>>

\* An exception in a resume is logged by its background task.
resume_failed(a) ==
    /\ fault("resume")
    /\ pc[a] \in {"resume", "look", "claim", "abandon", "free", "counts"}
    /\ goto(a, "off")
    /\ UNCHANGED <<execution, plan_complete, rows, lease, old, beating, hpc, calls, starts>>

----------------------------------------------------------------------------
(* A drive loop, as module Dispatch details it. *)

drive_claim(a) ==
    /\ pc[a] = "drive"
    /\ IF may_claim_driver(a)
       THEN driver' = a /\ driverExpired' = FALSE /\ goto(a, "driving")
       ELSE execution # "running" /\ goto(a, "off") /\ UNCHANGED lease
    /\ UNCHANGED <<execution, plan_complete, rows, old, beating, hpc, bounds>>

\* A pass that finds itself replaced or the execution not running stops; the
\* last one settles the execution.
drive(a, final) ==
    /\ pc[a] = "driving"
    /\ final \in {"completed", "failed"}
    /\ IF driver = a /\ execution = "running"
       THEN execution' = final /\ pending' = {}
       ELSE UNCHANGED <<execution, pending>>
    /\ goto(a, "release")
    /\ UNCHANGED <<plan_complete, saved, lease, old, beating, hpc, bounds>>

drive_release(a) ==
    /\ pc[a] = "release"
    /\ release(a)
    /\ goto(a, "off")
    /\ UNCHANGED <<execution, plan_complete, rows, old, beating, hpc, bounds>>

----------------------------------------------------------------------------
(* Managers starting and dying, leases and ages. *)

\* Mutant: only running executions are recovered.
interrupted_running == execution = "running"

\* get_interrupted_executions.
interrupted == execution = "running" \/ (execution = "pending" /\ ~plan_complete)

\* A further manager starts (a rollout, a second pod) and recovers what it finds.
manager_start(a) ==
    /\ starts < MaxStarts
    /\ pc[a] = "off" /\ interrupted
    /\ starts' = starts + 1
    /\ goto(a, "resume")
    /\ UNCHANGED <<execution, plan_complete, rows, lease, old, beating, hpc, calls, faults,
                   unprotected, gave_up>>

manager_crash(a) ==
    /\ fault("manager")
    /\ pc[a] \notin {"off", "dead"}
    /\ beating' = (beating /\ a # Planner)
    /\ goto(a, "dead")
    /\ UNCHANGED <<execution, plan_complete, rows, lease, old, hpc, calls, starts>>

\* It is restarted.  On its host, the dispatch lease of its dead loop is freed,
\* but not a planning or a recovery lease, whose ids do not start with the host.
manager_restart(a, sameHost) ==
    /\ pc[a] = "dead"
    /\ IF sameHost THEN release(a) ELSE UNCHANGED lease
    /\ goto(a, IF interrupted THEN "resume" ELSE "off")
    /\ UNCHANGED <<execution, plan_complete, rows, old, beating, hpc, bounds>>

owner_alive ==
    \/ driver = PlanOwner /\ beating
    \/ \E a \in Actors : \/ driver = a /\ pc[a] \in {"driving", "release"}
                         \/ driver = recovery_id(a) /\ pc[a] \in {"abandon", "free"}

lease_expires ==
    /\ driver # NoDriver /\ ~owner_alive /\ ~driverExpired
    /\ driverExpired' = TRUE
    /\ UNCHANGED <<execution, plan_complete, rows, driver, old, pc, beating, hpc, bounds>>

\* A live owner does not beat for longer than the lease.
lease_missed ==
    /\ fault("stall")
    /\ owner_alive /\ ~driverExpired
    /\ driverExpired' = TRUE
    /\ UNCHANGED <<execution, plan_complete, rows, driver, old, pc, beating, hpc, calls, starts>>

\* The execution is older than one lease; its task has started by then.
grow_old ==
    /\ ~old /\ pc[Planner] # "queued"
    /\ old' = TRUE
    /\ UNCHANGED <<execution, plan_complete, rows, lease, pc, beating, hpc, bounds>>

\* The task waits in the thread pool for longer than that.
start_late ==
    /\ fault("stall")
    /\ ~old /\ pc[Planner] = "queued"
    /\ old' = TRUE
    /\ UNCHANGED <<execution, plan_complete, rows, lease, pc, beating, hpc, calls, starts>>

----------------------------------------------------------------------------
(* The manager's API. *)

call(op, states) ==
    /\ op \in ApiCalls
    /\ hpc = "idle" /\ calls < MaxCalls
    /\ execution \in states
    /\ hpc' = op /\ calls' = calls + 1
    /\ UNCHANGED <<execution, plan_complete, rows, lease, old, pc, beating, starts, faults,
                   unprotected, gave_up>>

api_call ==
    \/ call("pause", PausableStates)
    \/ call("resume", ResumableStates)
    \/ call("cancel", CancellableStates)
    \/ call("fail", CancellableStates)

pause_write ==
    /\ hpc = "pause"
    /\ execution' = "paused" /\ hpc' = "idle"
    /\ UNCHANGED <<plan_complete, rows, lease, old, pc, beating, bounds>>

resume_write(a) ==
    /\ hpc = "resume"
    /\ pc[a] = "off"
    /\ execution' = "running" /\ hpc' = "idle"
    /\ goto(a, "resume")
    /\ UNCHANGED <<plan_complete, rows, lease, old, beating, bounds>>

cancel_write ==
    /\ hpc = "cancel"
    /\ execution' = "cancelled" /\ hpc' = "cancel_jobs"
    /\ UNCHANGED <<plan_complete, rows, lease, old, pc, beating, bounds>>

cancel_unstarted_jobs ==
    /\ hpc = "cancel_jobs"
    /\ pending' = {} /\ hpc' = "idle"
    /\ UNCHANGED <<execution, plan_complete, saved, lease, old, pc, beating, bounds>>

force_fail_write ==
    /\ hpc = "fail"
    /\ execution' = "failed" /\ hpc' = "idle"
    /\ UNCHANGED <<plan_complete, rows, lease, old, pc, beating, bounds>>

----------------------------------------------------------------------------
planner_step ==
    \/ lease_start
    \/ plan_start \/ check_state \/ \E next \in {"check", "plan"} : create_jobs(next)
    \/ plan_aborted \/ mark_plan_complete
    \/ lease_stop \/ dispatch_failed

actor_step(a) ==
    \/ resume_execution(a)
    \/ recover_plan(a) \/ recover_claim(a) \/ plan_abandoned(a) \/ recover_release(a)
    \/ \E final \in {"completed", "failed"} : resume_counts(a, final) \/ drive(a, final)
    \/ drive_claim(a) \/ drive_release(a)
    \/ \E sameHost \in BOOLEAN : manager_restart(a, sameHost)

api_step ==
    \/ pause_write \/ \E a \in Actors : resume_write(a)
    \/ cancel_write \/ cancel_unstarted_jobs \/ force_fail_write

fault_step ==
    \/ lease_start_error \/ lease_stop_error \/ plan_error \/ dispatch_failed_error
    \/ \E a \in Actors : resume_pipeline_missing(a) \/ resume_failed(a) \/ manager_crash(a)
    \/ lease_missed \/ start_late

Next ==
    \/ planner_step \/ beat
    \/ \E a \in Actors : actor_step(a) \/ manager_start(a)
    \/ lease_expires \/ grow_old
    \/ api_call \/ api_step
    \/ fault_step

Spec == Init /\ [][Next]_vars

\* Tasks that can go on do, a dead manager is restarted, and time passes;
\* nothing forces an API call, a further manager or a fault.
Fairness ==
    /\ WF_vars(planner_step)
    /\ WF_vars(beat)
    /\ \A a \in Actors : WF_vars(actor_step(a))
    /\ WF_vars(api_step)
    /\ WF_vars(lease_expires)
    /\ WF_vars(grow_old)

FairSpec == Spec /\ Fairness

----------------------------------------------------------------------------
(* Properties. *)

PlanSteps == {"resolve", "check", "plan", "stop", "total"}
LoopSteps == {"counts", "drive", "driving", "release"}
Steps == PlanSteps \cup LoopSteps \cup Leaving
            \cup {"off", "dead", "queued", "failed", "resume", "look", "claim", "abandon", "free"}

\* The processes and the row are well formed: only the planner's process is
\* ever in a step of the plan, and the rows are those of the plan.
TypeOK ==
    /\ execution \in States
    /\ plan_complete \in BOOLEAN
    /\ saved \in 0..Batches
    /\ pending \subseteq 1..saved
    /\ driver \in Owners \cup {NoDriver}
    /\ driverExpired \in BOOLEAN /\ old \in BOOLEAN /\ beating \in BOOLEAN
    /\ pc \in [Actors -> Steps]
    /\ \A a \in Managers : pc[a] \notin PlanSteps \cup Leaving \cup {"queued", "failed"}
    /\ pc[Planner] \in {"queued", "resolve"} => saved = 0
    /\ pc[Planner] \in {"check", "plan"} => saved < Batches
    /\ hpc \in {"idle", "pause", "resume", "cancel", "cancel_jobs", "fail"}
    /\ calls \in Nat /\ starts \in Nat /\ faults \in Nat /\ unprotected \in BOOLEAN
    /\ gave_up \in BOOLEAN

\* No loop of any process drives, or settles, a fragment of a plan, although
\* planners die, are paused, cancelled and resumed, and their leases expire.
FragmentNeverDriven ==
    \A a \in Actors : pc[a] \in LoopSteps => plan_complete /\ saved = Batches

\* A recovery never fails the execution of a planner that is queued or
\* planning, as long as nothing stalls for a lease and no lease operation fails.
LivePlannerProtected ==
    [][~unprotected =>
          \A a \in Actors : plan_abandoned(a) => pc[Planner] \notin PlanSteps \cup {"queued"}]_vars

\* A cancelled execution whose planner stopped before the end of its plan has
\* no job in the queue, in whichever order the cancel changed the state and
\* cancelled the jobs it saw while the planner looked at the state and saved a
\* further batch (as long as nothing fails).
StoppedPlanIsCancelled ==
    faults = 0 /\ execution = "cancelled" /\ hpc = "idle"
      /\ pc[Planner] \in {"leave", "off"} /\ saved < Batches => pending = {}

\* An abandoned execution does not stay pending or running for ever: once the
\* planner is dead with its plan incomplete, some recovery fails it (or it is
\* paused or stopped by the operator), unless a recovery's task itself ended
\* with an exception.
AbandonedPlanSettles ==
    pc[Planner] = "dead" /\ ~plan_complete ~> execution \notin {"pending", "running"} \/ gave_up
=============================================================================
