--------------------------- MODULE CronScheduler ---------------------------
(***************************************************************************)
(* Cron schedules: the rows of pipeline_schedules of one pipeline, and the *)
(* manager pods that write them.  A pod synchronizes the rows with the     *)
(* schedules its code declares when it starts, polls for rows that are due *)
(* and triggers an execution for each, and pushes the timers out when a    *)
(* user runs the pipeline.  The poll holds row locks from its query to its *)
(* commit; synchronizing and pushing out read first and write later.       *)
(*                                                                         *)
(* A cron expression is its period: it fires at the multiples.             *)
(***************************************************************************)
EXTENDS Naturals, FiniteSets

CONSTANTS
    Schedules,      \* schedule names
    Pods,           \* manager pods
    Crons,          \* cron expressions, as periods
    Declared,       \* schedules -> cron expression, what the deployed code declares
    Earlier,        \* what the earlier versions of it declared
    NoPod,
    MaxTime,        \* bound: time
    MaxRuns,        \* bound: manual triggers
    MaxFaults       \* bound: crashes

ASSUME CronsAssumption == Crons # {} /\ Crons \subseteq Nat \ {0}
ASSUME DeclaredAssumption ==
    \A d \in Earlier \cup {Declared} :
        DOMAIN d \subseteq Schedules /\ \A s \in DOMAIN d : d[s] \in Crons
ASSUME PodsAssumption == NoPod \notin Pods
ASSUME BoundsAssumption == MaxTime \in Nat /\ MaxRuns \in Nat /\ MaxFaults \in Nat

VARIABLES
    known, cron, enabled, next_run_at,      \* columns of a schedule's row, if it is known
    lock,                                   \* the pod whose poll holds the row
    now,
    sync, sync_at, sync_saw,                \* the pod's start: its step, its clock, the rows it read
    poll, poll_at, polled, triggered,       \* the scheduler thread: its step, clock, rows, those done
    run, run_at, run_saw,                   \* a manual trigger: its step, clock, the rows it read
    runs, faults,
    fired,                                  \* history: executions per slot of a schedule
    pushed,                                 \* history: when a manual trigger last pushed it out
    overtaken                               \* history: a write used a time or a cron expression that was out of date

row == <<known, cron, enabled, next_run_at>>
syncVars == <<sync, sync_at, sync_saw>>
pollVars == <<poll, poll_at, polled, triggered>>
runVars == <<run, run_at, run_saw>>
history == <<fired, pushed, overtaken>>
vars == <<known, cron, enabled, next_run_at, lock, now, sync, sync_at, sync_saw,
          poll, poll_at, polled, triggered, run, run_at, run_saw, runs, faults,
          fired, pushed, overtaken>>

\* croniter: the first firing after a time.
_compute_next_run(period, after) == ((after \div period) + 1) * period

Slots == 0..(2 * MaxTime)
Rows == [known : BOOLEAN, cron : Crons, enabled : BOOLEAN]
Unread == [s \in Schedules |-> [known |-> FALSE, cron |-> CHOOSE c \in Crons : TRUE, enabled |-> FALSE]]

\* The rows an earlier version of the code left.
Init ==
    /\ \E earlier \in Earlier :
          /\ known = [s \in Schedules |-> s \in DOMAIN earlier]
          /\ cron = [s \in Schedules |-> IF s \in DOMAIN earlier THEN earlier[s] ELSE Unread[s].cron]
    /\ enabled = known
    /\ now = 0
    /\ next_run_at = [s \in Schedules |-> _compute_next_run(cron[s], 0)]
    /\ lock = [s \in Schedules |-> NoPod]
    /\ sync = [p \in Pods |-> "start"] /\ sync_at = [p \in Pods |-> 0]
    /\ sync_saw = [p \in Pods |-> Unread]
    /\ poll = [p \in Pods |-> "idle"] /\ poll_at = [p \in Pods |-> 0]
    /\ polled = [p \in Pods |-> {}] /\ triggered = [p \in Pods |-> {}]
    /\ run = "idle" /\ run_at = 0 /\ run_saw = Unread
    /\ runs = 0 /\ faults = 0
    /\ fired = [s \in Schedules |-> [t \in Slots |-> 0]]
    /\ pushed = [s \in Schedules |-> 0] /\ overtaken = FALSE

unlocked == [s \in Schedules |-> lock[s] = NoPod]
read == [s \in Schedules |-> [known |-> known[s], cron |-> cron[s], enabled |-> enabled[s]]]

----------------------------------------------------------------------------
(* sync_schedules_from_registry, when a pod starts; its poll thread runs already. *)

sync_schedules_from_registry(p) ==
    /\ sync[p] = "start"
    /\ sync' = [sync EXCEPT ![p] = "write"]
    /\ sync_at' = [sync_at EXCEPT ![p] = now]
    /\ sync_saw' = [sync_saw EXCEPT ![p] = read]
    /\ UNCHANGED <<row, lock, now, pollVars, runVars, runs, faults, history>>

close_sync(p, result) ==
    /\ sync' = [sync EXCEPT ![p] = result]
    /\ sync_at' = [sync_at EXCEPT ![p] = 0]
    /\ sync_saw' = [sync_saw EXCEPT ![p] = Unread]

Inserted(p) == {s \in DOMAIN Declared : ~sync_saw[p][s].known}
Changed(p) == {s \in DOMAIN Declared : sync_saw[p][s].known /\ sync_saw[p][s].cron # Declared[s]}
Dropped(p) == {s \in Schedules \ DOMAIN Declared : sync_saw[p][s].known /\ sync_saw[p][s].enabled}
Touched(p) == Inserted(p) \cup Changed(p) \cup Dropped(p)
                \cup {s \in DOMAIN Declared : sync_saw[p][s].known /\ ~sync_saw[p][s].enabled}

\* Mutant: a changed cron expression keeps the old timer.
retimed_never(p) == Inserted(p)

\* The rows whose timer starts anew.
retimed(p) == Inserted(p) \cup Changed(p)

\* The session writes what differs from what it read, and waits for locked rows.
sync_commit(p) ==
    /\ sync[p] = "write"
    /\ \A s \in Touched(p) : unlocked[s]
    /\ \A s \in Inserted(p) : ~known[s]
    /\ close_sync(p, "done")
    /\ known' = [s \in Schedules |-> known[s] \/ s \in Inserted(p)]
    /\ cron' = [s \in Schedules |-> IF s \in Inserted(p) \cup Changed(p) THEN Declared[s] ELSE cron[s]]
    /\ enabled' = [s \in Schedules |-> CASE s \in Dropped(p) -> FALSE
                                         [] s \in Touched(p) \ Dropped(p) -> TRUE
                                         [] OTHER -> enabled[s]]
    /\ next_run_at' = [s \in Schedules |-> IF s \in retimed(p)
                                           THEN _compute_next_run(Declared[s], sync_at[p])
                                           ELSE next_run_at[s]]
    /\ overtaken' = (overtaken \/ (now # sync_at[p] /\ retimed(p) # {}))
    /\ UNCHANGED <<lock, now, pollVars, runVars, runs, faults, fired, pushed>>

\* Another pod inserted a row first: the whole transaction fails, for good.
sync_conflict(p) ==
    /\ sync[p] = "write"
    /\ \E s \in Inserted(p) : known[s]
    /\ close_sync(p, "failed")
    /\ UNCHANGED <<row, lock, now, pollVars, runVars, runs, faults, history>>

----------------------------------------------------------------------------
(* The scheduler thread. *)

\* Mutant: SKIP LOCKED without FOR UPDATE.
is_due_any(s) == known[s] /\ enabled[s] /\ next_run_at[s] <= now

\* Enabled rows whose next_run_at has passed, FOR UPDATE SKIP LOCKED.
is_due(s) == known[s] /\ enabled[s] /\ next_run_at[s] <= now /\ unlocked[s]

_poll_and_trigger(p) ==
    /\ poll[p] = "idle"
    /\ \E s \in Schedules : is_due(s)
    /\ polled' = [polled EXCEPT ![p] = {s \in Schedules : is_due(s)}]
    /\ lock' = [s \in Schedules |-> IF is_due(s) THEN p ELSE lock[s]]
    /\ poll_at' = [poll_at EXCEPT ![p] = now]
    /\ poll' = [poll EXCEPT ![p] = "trigger"]
    /\ UNCHANGED <<row, now, syncVars, triggered, runVars, runs, faults, history>>

\* The execution is created and committed in a session of its own, and its
\* jobs are run by a thread; or that fails.
_trigger_pipeline(p, s) ==
    /\ poll[p] = "trigger" /\ s \in polled[p] \ triggered[p]
    /\ triggered' = [triggered EXCEPT ![p] = @ \cup {s}]
    /\ \/ fired' = [fired EXCEPT ![s][next_run_at[s]] = @ + 1]
       \/ UNCHANGED fired
    /\ UNCHANGED <<row, lock, now, syncVars, poll, poll_at, polled, runVars, runs, faults, pushed, overtaken>>

close_poll(p) ==
    /\ poll' = [poll EXCEPT ![p] = "idle"]
    /\ poll_at' = [poll_at EXCEPT ![p] = 0]
    /\ polled' = [polled EXCEPT ![p] = {}]
    /\ triggered' = [triggered EXCEPT ![p] = {}]
    /\ lock' = [s \in Schedules |-> IF lock[s] = p THEN NoPod ELSE lock[s]]

\* Mutant: a timer that keeps the schedule due.
advanced_not(p) == next_run_at

\* The timers advance, whether or not their execution could be created.
advanced(p) ==
    [s \in Schedules |-> IF s \in polled[p] THEN _compute_next_run(cron[s], poll_at[p])
                                            ELSE next_run_at[s]]

poll_commit(p) ==
    /\ poll[p] = "trigger" /\ triggered[p] = polled[p]
    /\ next_run_at' = advanced(p)
    /\ close_poll(p)
    /\ UNCHANGED <<known, cron, enabled, now, syncVars, runVars, runs, faults, history>>

----------------------------------------------------------------------------
(* run_pipeline of the API: _reset_pipeline_schedule_if_needed. *)

reset_schedule ==
    /\ run = "idle" /\ runs < MaxRuns /\ DOMAIN Declared # {}
    /\ runs' = runs + 1
    /\ run' = "write" /\ run_at' = now /\ run_saw' = read
    /\ UNCHANGED <<row, lock, now, syncVars, pollVars, faults, history>>

Pushed == {s \in Schedules : run_saw[s].known /\ run_saw[s].enabled}

\* Mutant: the timer is the time of the run itself.
reset_time_now(s) == run_at

reset_time(s) == _compute_next_run(run_saw[s].cron, run_at)

reset_commit ==
    /\ run = "write"
    /\ \A s \in Pushed : unlocked[s]
    /\ run' = "idle" /\ run_at' = 0 /\ run_saw' = Unread
    /\ next_run_at' = [s \in Schedules |-> IF s \in Pushed THEN reset_time(s) ELSE next_run_at[s]]
    /\ pushed' = [s \in Schedules |-> IF s \in Pushed THEN run_at ELSE pushed[s]]
    /\ overtaken' = (overtaken \/ now # run_at \/ \E s \in Pushed : cron[s] # run_saw[s].cron)
    /\ UNCHANGED <<known, cron, enabled, lock, now, syncVars, pollVars, runs, faults, fired>>

----------------------------------------------------------------------------
tick ==
    /\ now < MaxTime
    /\ now' = now + 1
    /\ UNCHANGED <<row, lock, syncVars, pollVars, runVars, runs, faults, history>>

\* The pod dies and is started again: its transactions are rolled back.
crash(p) ==
    /\ sync[p] # "start" \/ poll[p] # "idle"
    /\ faults < MaxFaults
    /\ faults' = faults + 1
    /\ close_poll(p)
    /\ close_sync(p, "start")
    /\ UNCHANGED <<row, now, runVars, runs, history>>

sync_step(p) == sync_schedules_from_registry(p) \/ sync_commit(p) \/ sync_conflict(p)

poll_step(p) ==
    _poll_and_trigger(p) \/ (\E s \in Schedules : _trigger_pipeline(p, s)) \/ poll_commit(p)

Next ==
    \/ \E p \in Pods : sync_step(p) \/ poll_step(p) \/ crash(p)
    \/ reset_schedule \/ reset_commit
    \/ tick

Spec == Init /\ [][Next]_vars

\* Pods go on, requests are finished; time, users and crashes are free.
FairSpec ==
    /\ Spec
    /\ \A p \in Pods : WF_vars(sync_step(p)) /\ WF_vars(poll_step(p))
    /\ WF_vars(reset_commit)

----------------------------------------------------------------------------
(* Properties. *)

\* The rows, the transactions that are open, and what they read.
TypeOK ==
    /\ known \in [Schedules -> BOOLEAN] /\ cron \in [Schedules -> Crons]
    /\ enabled \in [Schedules -> BOOLEAN] /\ next_run_at \in [Schedules -> Nat]
    /\ lock \in [Schedules -> Pods \cup {NoPod}]
    /\ now \in 0..MaxTime
    /\ sync \in [Pods -> {"start", "write", "done", "failed"}]
    /\ sync_at \in [Pods -> Nat] /\ sync_saw \in [Pods -> [Schedules -> Rows]]
    /\ poll \in [Pods -> {"idle", "trigger"}] /\ poll_at \in [Pods -> Nat]
    /\ polled \in [Pods -> SUBSET Schedules] /\ triggered \in [Pods -> SUBSET Schedules]
    /\ run \in {"idle", "write"} /\ run_at \in Nat /\ run_saw \in [Schedules -> Rows]
    /\ runs \in Nat /\ faults \in Nat
    /\ fired \in [Schedules -> [Slots -> Nat]]
    /\ pushed \in [Schedules -> Nat] /\ overtaken \in BOOLEAN

\* Several pods poll, but a slot of a schedule is fired once, and once more
\* only for a pod that died before it could commit the timer.
FiredOncePerSlot ==
    ~overtaken => \A s \in Schedules, t \in Slots : fired[s][t] <= 1 + faults

\* After a manual run no slot up to then fires any more, whichever poll or
\* start of a pod came in between.
NotRerunAfterManual ==
    ~overtaken => \A s \in Schedules : known[s] /\ pushed[s] > 0 => next_run_at[s] > pushed[s]

\* As soon as one pod has synchronized, and although others that start with it
\* fail to, the rows are what the code declares: all declared schedules, no
\* others, enabled, with their cron expression, and timed by it.
RowsFollowCode ==
    (\E p \in Pods : sync[p] = "done") =>
        /\ \A s \in DOMAIN Declared :
              /\ known[s] /\ enabled[s] /\ cron[s] = Declared[s]
              /\ ~overtaken => next_run_at[s] % cron[s] = 0
        /\ \A s \in Schedules \ DOMAIN Declared : ~enabled[s]

Due(s) == known[s] /\ enabled[s] /\ next_run_at[s] <= now

\* A schedule that is due is triggered, or its trigger fails, and its timer
\* moves on: no error leaves it due for ever.
TimerAdvances ==
    \A s \in Schedules : Due(s) ~> ~Due(s)
=============================================================================
