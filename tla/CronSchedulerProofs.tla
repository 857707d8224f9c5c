------------------------ MODULE CronSchedulerProofs ------------------------
(***************************************************************************)
(* Theorems about CronScheduler for any schedules, cron expressions, pods, *)
(* crashes and manual runs.                                                *)
(***************************************************************************)
EXTENDS CronScheduler, TLAPS

\* The next firing is a later one, and one of the cron expression.
LEMMA NextRun ==
  ASSUME NEW period \in Crons, NEW after \in Nat
  PROVE  /\ _compute_next_run(period, after) \in Nat
         /\ _compute_next_run(period, after) > after
         /\ _compute_next_run(period, after) % period = 0
<1>1. period \in Nat \ {0}
  BY CronsAssumption
<1>2. after \div period \in Nat
  BY <1>1
<1>3. ((after \div period) + 1) * period \in Nat
  BY <1>1, <1>2
<1>4. ((after \div period) + 1) * period > after
  BY <1>1, SMTT(30)
<1>5. (((after \div period) + 1) * period) % period = 0
  BY <1>1, SMTT(30)
<1>6. QED
  BY <1>3, <1>4, <1>5 DEF _compute_next_run

LEMMA DeclaredFacts ==
  /\ DOMAIN Declared \subseteq Schedules
  /\ \A s \in DOMAIN Declared : Declared[s] \in Crons
  BY DeclaredAssumption

LEMMA UnreadType == Unread \in [Schedules -> Rows]
<1>1. (CHOOSE c \in Crons : TRUE) \in Crons
  BY CronsAssumption
<1>2. QED
  BY <1>1 DEF Unread, Rows

LEMMA ReadType == TypeOK => read \in [Schedules -> Rows]
  BY DEF TypeOK, read, Rows

----------------------------------------------------------------------------
(* Type correctness. *)

LEMMA TypeInit == Init => TypeOK
<1> SUFFICES ASSUME Init PROVE TypeOK
  OBVIOUS
<1>1. known \in [Schedules -> BOOLEAN] /\ cron \in [Schedules -> Crons]
  <2>1. PICK earlier \in Earlier :
          /\ known = [s \in Schedules |-> s \in DOMAIN earlier]
          /\ cron = [s \in Schedules |-> IF s \in DOMAIN earlier THEN earlier[s] ELSE Unread[s].cron]
    BY DEF Init
  <2>2. \A s \in Schedules : Unread[s].cron \in Crons
    BY UnreadType DEF Rows
  <2>3. \A s \in DOMAIN earlier : earlier[s] \in Crons
    BY DeclaredAssumption
  <2>4. cron \in [Schedules -> Crons]
    BY <2>1, <2>2, <2>3
  <2>5. known \in [Schedules -> BOOLEAN]
    BY <2>1
  <2>6. QED
    BY <2>4, <2>5
<1>2. next_run_at \in [Schedules -> Nat]
  BY <1>1, NextRun DEF Init
<1>3. enabled \in [Schedules -> BOOLEAN]
  BY <1>1 DEF Init
<1>4. sync_saw \in [Pods -> [Schedules -> Rows]] /\ run_saw \in [Schedules -> Rows]
  BY UnreadType DEF Init
<1>5. fired \in [Schedules -> [Slots -> Nat]]
  BY DEF Init
<1>6. /\ lock \in [Schedules -> Pods \cup {NoPod}] /\ now \in 0..MaxTime
      /\ sync \in [Pods -> {"start", "write", "done", "failed"}] /\ sync_at \in [Pods -> Nat]
      /\ poll \in [Pods -> {"idle", "trigger"}] /\ poll_at \in [Pods -> Nat]
      /\ polled \in [Pods -> SUBSET Schedules] /\ triggered \in [Pods -> SUBSET Schedules]
      /\ run \in {"idle", "write"} /\ run_at \in Nat
      /\ runs \in Nat /\ faults \in Nat /\ pushed \in [Schedules -> Nat]
  BY BoundsAssumption DEF Init
<1>7. overtaken \in BOOLEAN
  BY Zenon DEF Init
<1>8. QED
  BY <1>1, <1>2, <1>3, <1>4, <1>5, <1>6, <1>7 DEF TypeOK

LEMMA TypeSync ==
  ASSUME NEW p \in Pods, TypeOK, sync_step(p)
  PROVE  TypeOK'
<1> USE DEF row, pollVars, runVars, history
<1>1. CASE sync_schedules_from_registry(p)
  <2>1. /\ sync' \in [Pods -> {"start", "write", "done", "failed"}]
        /\ sync_at' \in [Pods -> Nat]
    BY <1>1 DEF sync_schedules_from_registry, TypeOK
  <2>2. sync_saw' \in [Pods -> [Schedules -> Rows]]
    BY <1>1, ReadType DEF sync_schedules_from_registry, TypeOK
  <2>3. QED
    BY <1>1, <2>1, <2>2 DEF sync_schedules_from_registry, TypeOK
<1>2. ASSUME NEW result \in {"start", "write", "done", "failed"}, close_sync(p, result)
      PROVE  /\ sync' \in [Pods -> {"start", "write", "done", "failed"}]
             /\ sync_at' \in [Pods -> Nat]
             /\ sync_saw' \in [Pods -> [Schedules -> Rows]]
  BY <1>2, UnreadType DEF close_sync, TypeOK
<1>3. CASE sync_commit(p)
  <2>1. /\ sync' \in [Pods -> {"start", "write", "done", "failed"}]
        /\ sync_at' \in [Pods -> Nat]
        /\ sync_saw' \in [Pods -> [Schedules -> Rows]]
    BY <1>2, <1>3 DEF sync_commit
  <2>2. cron' \in [Schedules -> Crons]
    BY <1>3, DeclaredFacts DEF sync_commit, TypeOK, Inserted, Changed
  <2>3. next_run_at' \in [Schedules -> Nat]
    BY <1>3, DeclaredFacts, NextRun DEF sync_commit, TypeOK, retimed, Inserted, Changed
  <2>4. known' \in [Schedules -> BOOLEAN]
    BY <1>3 DEF sync_commit, TypeOK
  <2>5. enabled' \in [Schedules -> BOOLEAN]
    BY <1>3 DEF sync_commit, TypeOK
  <2>6. overtaken' \in BOOLEAN
    BY <1>3 DEF sync_commit, TypeOK
  <2>7. UNCHANGED <<lock, now, poll, poll_at, polled, triggered, run, run_at, run_saw, runs, faults,
                    fired, pushed>>
    BY <1>3 DEF sync_commit
  <2>8. QED
    BY <2>1, <2>2, <2>3, <2>4, <2>5, <2>6, <2>7 DEF TypeOK
<1>4. CASE sync_conflict(p)
  BY <1>2, <1>4 DEF sync_conflict, TypeOK
<1>5. QED
  BY <1>1, <1>3, <1>4 DEF sync_step

\* Closing a poll.
LEMMA ClosePoll ==
  ASSUME NEW p \in Pods, TypeOK, close_poll(p)
  PROVE  /\ poll' \in [Pods -> {"idle", "trigger"}] /\ poll_at' \in [Pods -> Nat]
         /\ polled' \in [Pods -> SUBSET Schedules] /\ triggered' \in [Pods -> SUBSET Schedules]
         /\ lock' \in [Schedules -> Pods \cup {NoPod}]
         /\ polled'[p] = {} /\ triggered'[p] = {}
         /\ \A q \in Pods : q # p => /\ poll'[q] = poll[q] /\ poll_at'[q] = poll_at[q]
                                     /\ polled'[q] = polled[q] /\ triggered'[q] = triggered[q]
         /\ \A s \in Schedules : lock[s] # p => lock'[s] = lock[s]
  BY DEF close_poll, TypeOK

LEMMA TypeRest ==
  ASSUME TypeOK,
         \/ \E p \in Pods : poll_step(p) \/ crash(p)
         \/ reset_schedule \/ reset_commit \/ tick
  PROVE  TypeOK'
<1> USE DEF row, syncVars, pollVars, runVars, history
<1>1. ASSUME NEW p \in Pods, _poll_and_trigger(p) PROVE TypeOK'
  BY <1>1 DEF _poll_and_trigger, TypeOK
<1>2. ASSUME NEW p \in Pods, NEW s \in Schedules, _trigger_pipeline(p, s) PROVE TypeOK'
  <2>1. triggered' \in [Pods -> SUBSET Schedules]
    BY <1>2 DEF _trigger_pipeline, TypeOK
  <2>2. fired' \in [Schedules -> [Slots -> Nat]]
    <3> DEFINE slots == [fired[s] EXCEPT ![next_run_at[s]] = @ + 1]
    <3>1. fired[s] \in [Slots -> Nat]
      BY DEF TypeOK
    <3>2. slots \in [Slots -> Nat]
      <4>1. slots = [t \in Slots |-> IF t = next_run_at[s] THEN fired[s][t] + 1 ELSE fired[s][t]]
        BY <3>1
      <4>2. \A t \in Slots : fired[s][t] + 1 \in Nat /\ fired[s][t] \in Nat
        BY <3>1
      <4>3. QED
        BY <4>1, <4>2
    <3>3. fired' = [fired EXCEPT ![s] = slots] \/ fired' = fired
      BY <1>2 DEF _trigger_pipeline
    <3>4. QED
      BY <3>2, <3>3 DEF TypeOK
  <2>3. QED
    BY <1>2, <2>1, <2>2 DEF _trigger_pipeline, TypeOK
<1>3. ASSUME NEW p \in Pods, poll_commit(p) PROVE TypeOK'
  <2>1. next_run_at' \in [Schedules -> Nat]
    BY <1>3, NextRun DEF poll_commit, advanced, TypeOK
  <2>2. close_poll(p)
    BY <1>3 DEF poll_commit
  <2>3. UNCHANGED <<known, cron, enabled, now, sync, sync_at, sync_saw, run, run_at, run_saw, runs,
                    faults, fired, pushed, overtaken>>
    BY <1>3 DEF poll_commit
  <2>4. QED
    BY <2>1, <2>2, <2>3, ClosePoll DEF TypeOK
<1>4. ASSUME NEW p \in Pods, crash(p) PROVE TypeOK'
  <2>1. /\ sync' \in [Pods -> {"start", "write", "done", "failed"}]
        /\ sync_at' \in [Pods -> Nat]
        /\ sync_saw' \in [Pods -> [Schedules -> Rows]]
    BY <1>4, UnreadType DEF crash, close_sync, TypeOK
  <2>2. close_poll(p)
    BY <1>4 DEF crash
  <2>3. /\ UNCHANGED <<known, cron, enabled, next_run_at, now, run, run_at, run_saw, runs, fired,
                       pushed, overtaken>>
        /\ faults' \in Nat
    BY <1>4 DEF crash, TypeOK
  <2>4. QED
    BY <2>1, <2>2, <2>3, ClosePoll DEF TypeOK
<1>5. CASE reset_schedule
  BY <1>5, ReadType DEF reset_schedule, TypeOK
<1>6. CASE reset_commit
  <2>1. next_run_at' \in [Schedules -> Nat]
    <3>1. \A s \in Schedules : run_saw[s].cron \in Crons
      BY DEF TypeOK, Rows
    <3>2. QED
      BY <1>6, <3>1, NextRun DEF reset_commit, reset_time, TypeOK
  <2>2. pushed' \in [Schedules -> Nat] /\ overtaken' \in BOOLEAN
    BY <1>6 DEF reset_commit, TypeOK
  <2>3. QED
    BY <1>6, <2>1, <2>2, UnreadType DEF reset_commit, TypeOK
<1>7. CASE tick
  BY <1>7, BoundsAssumption DEF tick, TypeOK
<1>8. QED
  BY <1>1, <1>2, <1>3, <1>4, <1>5, <1>6, <1>7 DEF poll_step

LEMMA TypeNext == TypeOK /\ [Next]_vars => TypeOK'
<1> SUFFICES ASSUME TypeOK, [Next]_vars PROVE TypeOK'
  OBVIOUS
<1>1. CASE UNCHANGED vars
  BY <1>1 DEF vars, TypeOK
<1>2. QED
  BY <1>1, TypeSync, TypeRest DEF Next

\* Every reachable state of the rows, the pods and the requests is well typed.
THEOREM TypeCorrect == Spec => []TypeOK
  BY TypeInit, TypeNext, PTL DEF Spec

----------------------------------------------------------------------------
(* Row locks.  A poll holds the rows it works on, so their timers and the      *)
(* times they were pushed out to stay what they were when it read its clock.   *)

PollInv(p) ==
    /\ poll_at[p] <= now
    /\ poll[p] = "idle" => polled[p] = {}
    /\ triggered[p] \subseteq polled[p]
    /\ \A s \in polled[p] :
          lock[s] = p /\ next_run_at[s] <= poll_at[p] /\ pushed[s] <= poll_at[p]

LockInv ==
    /\ \A s \in Schedules : pushed[s] <= now
    /\ run_at <= now
    /\ \A p \in Pods : PollInv(p)

LEMMA LockInit == Init => LockInv
  BY DEF Init, LockInv, PollInv

LEMMA LockStep == TypeOK /\ LockInv /\ [Next]_vars => LockInv'
<1> SUFFICES ASSUME TypeOK, LockInv, [Next]_vars PROVE LockInv'
  OBVIOUS
<1> USE PodsAssumption, BoundsAssumption DEF TypeOK, LockInv, PollInv, row, syncVars, pollVars, runVars, history
<1>1. ASSUME NEW p \in Pods, sync_schedules_from_registry(p) \/ sync_conflict(p) PROVE LockInv'
  BY <1>1 DEF sync_schedules_from_registry, sync_conflict
<1>2. ASSUME NEW p \in Pods, sync_commit(p) PROVE LockInv'
  <2>1. \A q \in Pods : \A s \in polled[q] : next_run_at'[s] = next_run_at[s]
    <3>1. \A s \in Schedules : next_run_at'[s] # next_run_at[s] => lock[s] = NoPod
      BY <1>2 DEF sync_commit, retimed, Touched, unlocked
    <3>2. QED
      BY <3>1
  <2>2. UNCHANGED <<pushed, now, run_at, poll, poll_at, triggered, polled, lock>>
    BY <1>2 DEF sync_commit
  <2>3. QED
    BY <2>1, <2>2
<1>3. ASSUME NEW p \in Pods, _poll_and_trigger(p) PROVE LockInv'
  <2>1. /\ UNCHANGED <<pushed, now, run_at, triggered, next_run_at>>
        /\ poll_at' = [poll_at EXCEPT ![p] = now]
        /\ polled' = [polled EXCEPT ![p] = {s \in Schedules : is_due(s)}]
        /\ lock' = [s \in Schedules |-> IF is_due(s) THEN p ELSE lock[s]]
        /\ poll' = [poll EXCEPT ![p] = "trigger"]
    BY <1>3 DEF _poll_and_trigger
  <2>2. \A s \in Schedules : is_due(s) => lock[s] = NoPod /\ next_run_at[s] <= now
    BY DEF is_due, unlocked
  <2>3. ASSUME NEW q \in Pods, q # p
        PROVE  /\ poll_at'[q] <= now' /\ triggered'[q] \subseteq polled'[q]
               /\ poll'[q] = "idle" => polled'[q] = {}
               /\ \A s \in polled'[q] :
                    lock'[s] = q /\ next_run_at'[s] <= poll_at'[q] /\ pushed'[s] <= poll_at'[q]
    BY <2>1, <2>2, <2>3
  <2>4. triggered[p] = {}
    BY <1>3 DEF _poll_and_trigger
  <2>5. QED
    BY <2>1, <2>2, <2>3, <2>4
<1>4. ASSUME NEW p \in Pods, NEW s \in Schedules, _trigger_pipeline(p, s) PROVE LockInv'
  BY <1>4 DEF _trigger_pipeline
<1>5. ASSUME NEW p \in Pods, poll_commit(p) PROVE LockInv'
  <2>1. close_poll(p) /\ UNCHANGED <<pushed, now, run_at>> /\ poll_at'[p] = 0
    BY <1>5 DEF poll_commit, close_poll
  <2>2. /\ polled'[p] = {} /\ triggered'[p] = {}
        /\ \A q \in Pods : q # p => /\ poll'[q] = poll[q] /\ poll_at'[q] = poll_at[q]
                                    /\ polled'[q] = polled[q] /\ triggered'[q] = triggered[q]
        /\ \A s \in Schedules : lock[s] # p => lock'[s] = lock[s]
    BY ONLY TypeOK, <2>1, ClosePoll
  <2>3. \A s \in Schedules : s \notin polled[p] => next_run_at'[s] = next_run_at[s]
    BY <1>5 DEF poll_commit, advanced
  <2>4. \A q \in Pods : q # p => \A s \in polled[q] :
          s \in Schedules /\ s \notin polled[p] /\ lock[s] # p
    OBVIOUS
  <2>5. \A q \in Pods : q # p => \A s \in polled[q] :
          next_run_at'[s] = next_run_at[s] /\ lock'[s] = lock[s]
    BY <2>2, <2>3, <2>4
  <2>6. ASSUME NEW q \in Pods PROVE PollInv(q)'
    <3>1. CASE q = p
      BY <2>1, <2>2, <3>1
    <3>2. CASE q # p
      <4>1. PollInv(q)
        OBVIOUS
      <4>2. /\ UNCHANGED <<poll_at[q], now, poll[q], polled[q], triggered[q], pushed>>
            /\ \A s \in polled[q] : next_run_at'[s] = next_run_at[s] /\ lock'[s] = lock[s]
        BY <2>1, <2>2, <2>5, <3>2
      <4>3. QED
        BY ONLY <4>1, <4>2 DEF PollInv
    <3>3. QED
      BY <3>1, <3>2
  <2>7. QED
    BY <2>1, <2>6 DEF LockInv
<1>6. ASSUME NEW p \in Pods, crash(p) PROVE LockInv'
  <2>1. close_poll(p) /\ UNCHANGED <<pushed, now, run_at, next_run_at>> /\ poll_at'[p] = 0
    BY <1>6 DEF crash, close_poll
  <2>2. /\ polled'[p] = {} /\ triggered'[p] = {}
        /\ \A q \in Pods : q # p => /\ poll'[q] = poll[q] /\ poll_at'[q] = poll_at[q]
                                    /\ polled'[q] = polled[q] /\ triggered'[q] = triggered[q]
        /\ \A s \in Schedules : lock[s] # p => lock'[s] = lock[s]
    BY ONLY TypeOK, <2>1, ClosePoll
  <2>3. \A q \in Pods : q # p => \A s \in polled[q] : s \in Schedules /\ lock[s] # p
    OBVIOUS
  <2>4. ASSUME NEW q \in Pods PROVE PollInv(q)'
    <3>1. CASE q = p
      BY <2>1, <2>2, <3>1
    <3>2. CASE q # p
      <4>1. PollInv(q)
        OBVIOUS
      <4>2. /\ UNCHANGED <<poll_at[q], now, poll[q], polled[q], triggered[q], pushed>>
            /\ \A s \in polled[q] : next_run_at'[s] = next_run_at[s] /\ lock'[s] = lock[s]
        BY <2>1, <2>2, <2>3, <3>2
      <4>3. QED
        BY ONLY <4>1, <4>2 DEF PollInv
    <3>3. QED
      BY <3>1, <3>2
  <2>5. QED
    BY <2>1, <2>4 DEF LockInv
<1>7. CASE reset_schedule
  BY <1>7 DEF reset_schedule
<1>8. CASE reset_commit
  <2>1. \A q \in Pods : \A s \in polled[q] :
          next_run_at'[s] = next_run_at[s] /\ pushed'[s] = pushed[s]
    <3>1. \A s \in Schedules : next_run_at'[s] # next_run_at[s] \/ pushed'[s] # pushed[s] =>
            lock[s] = NoPod
      BY <1>8 DEF reset_commit, Pushed, unlocked
    <3>2. QED
      BY <3>1
  <2>2. \A s \in Schedules : pushed'[s] <= now
    BY <1>8 DEF reset_commit
  <2>3. UNCHANGED <<now, poll, poll_at, triggered, polled, lock>> /\ run_at' = 0
    BY <1>8 DEF reset_commit
  <2>4. QED
    BY <2>1, <2>2, <2>3
<1>9. CASE tick
  BY <1>9 DEF tick
<1>10. CASE UNCHANGED vars
  BY <1>10 DEF vars
<1>11. QED
  BY <1>1, <1>2, <1>3, <1>4, <1>5, <1>6, <1>7, <1>8, <1>9, <1>10 DEF Next, sync_step, poll_step

LEMMA LocksHold == Spec => []LockInv
  BY LockInit, LockStep, TypeCorrect, PTL DEF Spec

----------------------------------------------------------------------------
(* Timers.  The steps that write one compute it from a clock that is current   *)
(* unless the write was overtaken, or, for a poll, from one that is not behind  *)
(* the last push.                                                              *)

\* How a step may change the timer of a row, and the cron expression and the push it
\* is compared with.
LEMMA TimerWrites ==
  ASSUME TypeOK, LockInv, [Next]_vars, ~overtaken', NEW s \in Schedules
  PROVE  /\ ~overtaken
         /\ \/ UNCHANGED <<next_run_at[s], cron[s], pushed[s]>>
            \/ \E after \in Nat :
                 /\ next_run_at'[s] = _compute_next_run(cron'[s], after)
                 /\ pushed'[s] <= after
                 /\ \/ after = now
                    \/ next_run_at[s] <= after /\ \E p \in Pods : poll_commit(p) /\ s \in polled[p]
<1> DEFINE Goal ==
      /\ ~overtaken
      /\ \/ UNCHANGED <<next_run_at[s], cron[s], pushed[s]>>
         \/ \E after \in Nat :
              /\ next_run_at'[s] = _compute_next_run(cron'[s], after)
              /\ pushed'[s] <= after
              /\ \/ after = now
                 \/ next_run_at[s] <= after /\ \E p \in Pods : poll_commit(p) /\ s \in polled[p]
<1> SUFFICES Goal
  OBVIOUS
<1> USE DEF row, syncVars, pollVars, runVars, history
<1>1. ASSUME NEW p \in Pods, sync_commit(p) PROVE Goal
  <2>1. ~overtaken /\ (retimed(p) # {} => sync_at[p] = now) /\ pushed' = pushed
    BY <1>1 DEF sync_commit, TypeOK
  <2>2. CASE s \in retimed(p)
    <3>1. cron'[s] = Declared[s] /\ next_run_at'[s] = _compute_next_run(Declared[s], sync_at[p])
      BY <1>1, <2>2 DEF sync_commit, retimed
    <3>2. now \in Nat /\ pushed[s] <= now
      BY BoundsAssumption DEF TypeOK, LockInv, PollInv
    <3>3. sync_at[p] = now
      BY <2>1, <2>2
    <3>4. QED
      BY <2>1, <3>1, <3>2, <3>3
  <2>3. CASE s \notin retimed(p)
    BY <1>1, <2>1, <2>3 DEF sync_commit, retimed
  <2>4. QED
    BY <2>2, <2>3
<1>2. ASSUME NEW p \in Pods, poll_commit(p) PROVE Goal
  <2>1. ~overtaken /\ cron' = cron /\ pushed' = pushed
    BY <1>2 DEF poll_commit
  <2>2. CASE s \in polled[p]
    <3>1. next_run_at'[s] = _compute_next_run(cron[s], poll_at[p])
      BY <1>2, <2>2 DEF poll_commit, advanced
    <3>2. poll_at[p] \in Nat /\ pushed[s] <= poll_at[p] /\ next_run_at[s] <= poll_at[p]
      BY <2>2 DEF TypeOK, LockInv, PollInv
    <3>3. QED
      BY <1>2, <2>1, <2>2, <3>1, <3>2
  <2>3. CASE s \notin polled[p]
    BY <1>2, <2>1, <2>3 DEF poll_commit, advanced
  <2>4. QED
    BY <2>2, <2>3
<1>3. CASE reset_commit
  <2>1. /\ ~overtaken /\ now = run_at /\ cron' = cron
        /\ \A r \in Pushed : cron[r] = run_saw[r].cron
    BY <1>3 DEF reset_commit, TypeOK
  <2>2. CASE s \in Pushed
    <3>1. next_run_at'[s] = _compute_next_run(cron'[s], run_at) /\ pushed'[s] = run_at
      BY <1>3, <2>1, <2>2 DEF reset_commit, reset_time, Pushed
    <3>2. run_at \in Nat
      BY DEF TypeOK
    <3>3. QED
      BY <2>1, <3>1, <3>2
  <2>3. CASE s \notin Pushed
    BY <1>3, <2>1, <2>3 DEF reset_commit
  <2>4. QED
    BY <2>2, <2>3
<1>4. ASSUME NEW p \in Pods,
             \/ sync_schedules_from_registry(p) \/ sync_conflict(p)
             \/ _poll_and_trigger(p) \/ (\E r \in Schedules : _trigger_pipeline(p, r))
             \/ crash(p)
      PROVE  Goal
  BY <1>4 DEF sync_schedules_from_registry, sync_conflict, _poll_and_trigger, _trigger_pipeline, crash
<1>5. CASE reset_schedule \/ tick \/ UNCHANGED vars
  BY <1>5 DEF reset_schedule, tick, vars
<1>6. QED
  BY <1>1, <1>2, <1>3, <1>4, <1>5 DEF Next, sync_step, poll_step

TimerInv ==
    ~overtaken => \A s \in Schedules : next_run_at[s] > pushed[s] /\ next_run_at[s] % cron[s] = 0

LEMMA TimerInit == Init => TimerInv
<1> SUFFICES ASSUME Init, NEW s \in Schedules
             PROVE  next_run_at[s] > pushed[s] /\ next_run_at[s] % cron[s] = 0
  BY DEF TimerInv
<1>1. cron[s] \in Crons
  BY TypeInit DEF TypeOK
<1>2. next_run_at[s] = _compute_next_run(cron[s], 0) /\ pushed[s] = 0
  BY DEF Init
<1>3. QED
  BY <1>1, <1>2, NextRun

LEMMA TimerStep == TypeOK /\ LockInv /\ TimerInv /\ [Next]_vars => TimerInv'
<1> SUFFICES ASSUME TypeOK, LockInv, TimerInv, [Next]_vars, ~overtaken', NEW s \in Schedules
             PROVE  next_run_at'[s] > pushed'[s] /\ next_run_at'[s] % cron'[s] = 0
  BY DEF TimerInv
<1>1. CASE ~overtaken /\ UNCHANGED <<next_run_at[s], cron[s], pushed[s]>>
  BY <1>1 DEF TimerInv
<1>2. ASSUME NEW after \in Nat,
             next_run_at'[s] = _compute_next_run(cron'[s], after), pushed'[s] <= after
      PROVE  next_run_at'[s] > pushed'[s] /\ next_run_at'[s] % cron'[s] = 0
  <2>1. cron'[s] \in Crons /\ pushed'[s] \in Nat
    BY TypeNext DEF TypeOK
  <2>2. QED
    BY <1>2, <2>1, NextRun
<1>3. QED
  BY <1>1, <1>2, TimerWrites

\* After a manual run the next firing is a later one, whichever polls, starts, crashes
\* and runs come in between, unless a write used a clock or a row that was out of date.
THEOREM ManualRunsPushTimers == Spec => []NotRerunAfterManual
<1>1. TimerInv => NotRerunAfterManual
  BY DEF TimerInv, NotRerunAfterManual
<1>2. QED
  BY <1>1, TimerInit, TimerStep, LocksHold, TypeCorrect, PTL DEF Spec

----------------------------------------------------------------------------
(* The rows follow the code.  A start that read the rows before another one    *)
(* committed is still right about them: nobody takes a declared schedule back,  *)
(* and nobody enables one that is not declared.                                *)

SawInv ==
    /\ \A s \in Schedules : enabled[s] => known[s]
    /\ \A p \in Pods : sync[p] = "write" =>
          /\ \A s \in DOMAIN Declared :
                /\ sync_saw[p][s].known => known[s]
                /\ sync_saw[p][s].known /\ sync_saw[p][s].cron = Declared[s] => cron[s] = Declared[s]
                /\ sync_saw[p][s].enabled => enabled[s]
          /\ \A s \in Schedules \ DOMAIN Declared :
                enabled[s] => sync_saw[p][s].known /\ sync_saw[p][s].enabled

Followed ==
    /\ \A s \in DOMAIN Declared : known[s] /\ enabled[s] /\ cron[s] = Declared[s]
    /\ \A s \in Schedules \ DOMAIN Declared : ~enabled[s]

FollowInv == (\E p \in Pods : sync[p] = "done") => Followed

\* What a start writes: declared rows become known, enabled and of the declared cron
\* expression or keep their columns, others are disabled or keep them.
LEMMA SyncWrites ==
  ASSUME TypeOK, NEW p \in Pods, sync_commit(p)
  PROVE  /\ \A s \in DOMAIN Declared :
              /\ known'[s] = known[s] \/ known'[s]
              /\ enabled'[s] = enabled[s] \/ enabled'[s]
              /\ cron'[s] = cron[s] \/ cron'[s] = Declared[s]
         /\ \A s \in Schedules \ DOMAIN Declared :
              known'[s] = known[s] /\ (enabled'[s] => enabled[s] /\ s \notin Dropped(p))
  BY DeclaredFacts DEF TypeOK, sync_commit, Inserted, Changed, Dropped, Touched

LEMMA SawStep == TypeOK /\ SawInv /\ [Next]_vars => SawInv'
<1> SUFFICES ASSUME TypeOK, SawInv, [Next]_vars PROVE SawInv'
  OBVIOUS
<1> USE DeclaredFacts DEF row, syncVars, pollVars, runVars, history
<1>1. ASSUME NEW p \in Pods, sync_schedules_from_registry(p) PROVE SawInv'
  <2>1. /\ UNCHANGED <<known, cron, enabled>>
        /\ \A q \in Pods : q # p => sync'[q] = sync[q] /\ sync_saw'[q] = sync_saw[q]
        /\ \A s \in Schedules : /\ sync_saw'[p][s].known = known[s]
                                /\ sync_saw'[p][s].cron = cron[s]
                                /\ sync_saw'[p][s].enabled = enabled[s]
    BY <1>1 DEF sync_schedules_from_registry, read, TypeOK
  <2>2. QED
    BY <2>1 DEF SawInv
<1>2. ASSUME NEW p \in Pods, NEW result \in {"start", "done", "failed"}, close_sync(p, result)
      PROVE  /\ sync'[p] # "write"
             /\ \A q \in Pods : q # p => sync'[q] = sync[q] /\ sync_saw'[q] = sync_saw[q]
  BY <1>2 DEF close_sync, TypeOK
<1>3. ASSUME NEW p \in Pods, sync_commit(p) PROVE SawInv'
  <2>1. /\ sync'[p] # "write"
        /\ \A q \in Pods : q # p => sync'[q] = sync[q] /\ sync_saw'[q] = sync_saw[q]
    BY <1>2, <1>3 DEF sync_commit
  <2>2. /\ \A s \in DOMAIN Declared :
             /\ known'[s] = known[s] \/ known'[s]
             /\ enabled'[s] = enabled[s] \/ enabled'[s]
             /\ cron'[s] = cron[s] \/ cron'[s] = Declared[s]
        /\ \A s \in Schedules \ DOMAIN Declared :
             known'[s] = known[s] /\ (enabled'[s] => enabled[s])
    BY <1>3, SyncWrites
  <2>3. \A s \in Schedules : enabled'[s] => known'[s]
    <3>1. \A s \in DOMAIN Declared : s \in Touched(p) => sync_saw[p][s].known \/ s \in Inserted(p)
      BY DEF Inserted
    <3>2. \A s \in DOMAIN Declared : sync_saw[p][s].known => known[s]
      BY <1>3 DEF SawInv, sync_commit
    <3>3. \A s \in DOMAIN Declared : enabled'[s] => known'[s]
      BY <1>3, <3>1, <3>2 DEF SawInv, sync_commit, TypeOK, Dropped
    <3>4. QED
      BY <2>2, <3>3 DEF SawInv
  <2>4. QED
    BY <2>1, <2>2, <2>3 DEF SawInv
<1>4. ASSUME NEW p \in Pods, sync_conflict(p) \/ crash(p) PROVE SawInv'
  <2>1. /\ UNCHANGED <<known, cron, enabled>>
        /\ sync'[p] # "write"
        /\ \A q \in Pods : q # p => sync'[q] = sync[q] /\ sync_saw'[q] = sync_saw[q]
    BY <1>2, <1>4 DEF sync_conflict, crash
  <2>2. QED
    BY <2>1 DEF SawInv
<1>5. ASSUME UNCHANGED <<known, cron, enabled, sync, sync_saw>> PROVE SawInv'
  BY <1>5 DEF SawInv
<1>6. ASSUME NEW p \in Pods, poll_step(p) PROVE UNCHANGED <<known, cron, enabled, sync, sync_saw>>
  BY <1>6 DEF poll_step, _poll_and_trigger, _trigger_pipeline, poll_commit
<1>7. CASE reset_schedule \/ reset_commit \/ tick \/ UNCHANGED vars
  BY <1>5, <1>7 DEF reset_schedule, reset_commit, tick, vars
<1>8. QED
  BY <1>1, <1>3, <1>4, <1>5, <1>6, <1>7 DEF Next, sync_step

LEMMA FollowStep == TypeOK /\ SawInv /\ FollowInv /\ [Next]_vars => FollowInv'
<1> SUFFICES ASSUME TypeOK, SawInv, FollowInv, [Next]_vars, \E p \in Pods : sync'[p] = "done"
             PROVE  Followed'
  BY DEF FollowInv
<1> USE DeclaredFacts DEF row, syncVars, pollVars, runVars, history
<1>1. ASSUME NEW p \in Pods, sync_commit(p) PROVE Followed'
  <2>1. ASSUME NEW s \in DOMAIN Declared PROVE known'[s] /\ enabled'[s] /\ cron'[s] = Declared[s]
    <3>1. CASE s \in Inserted(p) \cup Changed(p)
      <4>1. known'[s] /\ cron'[s] = Declared[s]
        BY <1>1, <3>1 DEF sync_commit, SawInv, TypeOK, Inserted, Changed
      <4>2. enabled'[s]
        BY <1>1, <2>1, <3>1 DEF sync_commit, Touched, Dropped
      <4>3. QED
        BY <4>1, <4>2
    <3>2. CASE s \notin Inserted(p) \cup Changed(p)
      <4>1. sync_saw[p][s].known /\ sync_saw[p][s].cron = Declared[s]
        BY <3>2 DEF Inserted, Changed
      <4>2. known[s] /\ cron[s] = Declared[s]
        BY <1>1, <4>1 DEF SawInv, sync_commit
      <4>3. known'[s] /\ cron'[s] = Declared[s]
        BY <1>1, <4>2 DEF sync_commit
      <4>4. CASE sync_saw[p][s].enabled
        <5>1. enabled[s]
          BY <1>1, <4>4 DEF SawInv, sync_commit
        <5>2. QED
          BY <1>1, <4>3, <5>1, SyncWrites
      <4>5. CASE ~sync_saw[p][s].enabled
        <5>1. s \in Touched(p) \ Dropped(p)
          BY <4>1, <4>5 DEF Touched, Dropped
        <5>2. QED
          BY <1>1, <4>3, <5>1 DEF sync_commit
      <4>6. QED
        BY <4>4, <4>5
    <3>3. QED
      BY <3>1, <3>2
  <2>2. ASSUME NEW s \in Schedules \ DOMAIN Declared PROVE ~enabled'[s]
    <3>1. enabled'[s] => enabled[s] /\ s \notin Dropped(p)
      BY <1>1, SyncWrites
    <3>2. enabled[s] => s \in Dropped(p)
      BY <1>1 DEF SawInv, sync_commit, Dropped
    <3>3. QED
      BY <3>1, <3>2
  <2>3. QED
    BY <2>1, <2>2 DEF Followed
<1>2. ASSUME UNCHANGED <<known, cron, enabled>>, \A p \in Pods : sync'[p] = "done" => sync[p] = "done"
      PROVE  Followed'
  BY <1>2 DEF FollowInv, Followed
<1>3. ASSUME NEW p \in Pods, sync_schedules_from_registry(p) \/ sync_conflict(p) \/ crash(p)
      PROVE  Followed'
  <2>1. UNCHANGED <<known, cron, enabled>> /\ \A q \in Pods : sync'[q] = "done" => sync[q] = "done"
    BY <1>3 DEF sync_schedules_from_registry, sync_conflict, crash, close_sync, TypeOK
  <2>2. QED
    BY <1>2, <2>1
<1>4. ASSUME NEW p \in Pods, poll_step(p) PROVE UNCHANGED <<known, cron, enabled, sync>>
  BY <1>4 DEF poll_step, _poll_and_trigger, _trigger_pipeline, poll_commit
<1>5. CASE reset_schedule \/ reset_commit \/ tick \/ UNCHANGED vars
  BY <1>2, <1>5 DEF reset_schedule, reset_commit, tick, vars
<1>6. QED
  BY <1>1, <1>2, <1>3, <1>4, <1>5 DEF Next, sync_step

\* Once one pod has synchronized, the rows are what the code declares, although any
\* number of pods start, read before it and commit, fail or crash after it.
THEOREM RowsAreDeclared == Spec => []RowsFollowCode
<1>1. Init => SawInv /\ FollowInv
  <2>1. Init => enabled = known /\ \A p \in Pods : sync[p] = "start"
    BY DEF Init
  <2>2. QED
    BY <2>1 DEF SawInv, FollowInv
<1>2. FollowInv /\ TimerInv => RowsFollowCode
  BY DeclaredFacts DEF FollowInv, Followed, TimerInv, RowsFollowCode
<1>3. QED
  BY <1>1, <1>2, SawStep, FollowStep, TimerInit, TimerStep, LocksHold, TypeCorrect, PTL DEF Spec

----------------------------------------------------------------------------
(* Firings.  A slot is fired by the poll that holds the row while the slot is   *)
(* its timer.  A timer only moves past every slot that was fired, so a slot is  *)
(* fired again only after its poll died, and every such death is a fault.       *)

Firing(s) == \E p \in Pods : s \in triggered[p]

FiredInv ==
    /\ \A s \in Schedules, t \in Slots : t > now => fired[s][t] = 0
    /\ ~overtaken => \A s \in Schedules, t \in Slots :
          /\ t > next_run_at[s] => fired[s][t] = 0
          /\ t = next_run_at[s] /\ ~Firing(s) => fired[s][t] <= faults
          /\ fired[s][t] <= 1 + faults

LEMMA FiredInit == Init => FiredInv
<1> SUFFICES ASSUME Init PROVE FiredInv
  OBVIOUS
<1>1. faults = 0 /\ \A s \in Schedules, t \in Slots : fired[s][t] = 0
  BY DEF Init
<1>2. QED
  BY <1>1 DEF FiredInv

\* Where nothing fires, nobody dies and the row keeps its timer or gets one past every
\* slot that was fired, the bounds stay.
LEMMA FiredTimer ==
  ASSUME TypeOK, TypeOK', LockInv, FiredInv, [Next]_vars,
         UNCHANGED <<fired, faults>>, now' >= now,
         \A s \in Schedules : Firing(s) => Firing(s)' \/ next_run_at'[s] # next_run_at[s]
  PROVE  FiredInv'
<1> USE DEF TypeOK
<1>1. ASSUME NEW s \in Schedules, NEW t \in Slots, t > now' PROVE fired'[s][t] = 0
  <2>1. t \in Nat
    BY BoundsAssumption DEF Slots
  <2>2. t > now
    BY <1>1, <2>1, BoundsAssumption
  <2>3. QED
    BY <2>2 DEF FiredInv
<1>2. ASSUME ~overtaken', NEW s \in Schedules, NEW t \in Slots
      PROVE  /\ t > next_run_at'[s] => fired'[s][t] = 0
             /\ t = next_run_at'[s] /\ ~Firing(s)' => fired'[s][t] <= faults'
             /\ fired'[s][t] <= 1 + faults'
  <2>1. /\ t > next_run_at[s] => fired[s][t] = 0
        /\ t = next_run_at[s] /\ ~Firing(s) => fired[s][t] <= faults
        /\ fired[s][t] <= 1 + faults
        /\ t > now => fired[s][t] = 0
    BY <1>2, TimerWrites DEF FiredInv
  <2>2. CASE next_run_at'[s] = next_run_at[s]
    BY <2>1, <2>2
  <2>3. CASE next_run_at'[s] # next_run_at[s]
    <3>1. PICK after \in Nat : /\ next_run_at'[s] = _compute_next_run(cron'[s], after)
                               /\ after = now \/ next_run_at[s] <= after
      BY <1>2, <2>3, TimerWrites
    <3>2. next_run_at'[s] \in Nat /\ next_run_at'[s] > after
      BY <3>1, NextRun
    <3>3. t \in Nat /\ now \in Nat /\ faults \in Nat /\ fired[s][t] \in Nat
      BY BoundsAssumption DEF Slots
    <3>4. t >= next_run_at'[s] => fired[s][t] = 0
      BY <2>1, <3>1, <3>2, <3>3
    <3>5. QED
      BY <2>1, <3>2, <3>3, <3>4
  <2>4. QED
    BY <2>2, <2>3
<1>3. QED
  BY <1>1, <1>2 DEF FiredInv

LEMMA FiredStep == TypeOK /\ LockInv /\ FiredInv /\ [Next]_vars => FiredInv'
<1> SUFFICES ASSUME TypeOK, LockInv, FiredInv, [Next]_vars PROVE FiredInv'
  OBVIOUS
<1> USE DEF row, syncVars, pollVars, runVars, history
<1>1. TypeOK'
  BY TypeNext
<1>2. ASSUME NEW p \in Pods, NEW s \in Schedules, _trigger_pipeline(p, s) PROVE FiredInv'
  <2>1. /\ UNCHANGED <<next_run_at, now, faults, overtaken>>
        /\ s \in polled[p] \ triggered[p]
        /\ triggered' = [triggered EXCEPT ![p] = @ \cup {s}]
    BY <1>2 DEF _trigger_pipeline
  <2>2. /\ \A r \in Schedules : r # s => fired'[r] = fired[r]
        /\ \A t \in Slots : \/ fired'[s][t] = fired[s][t]
                            \/ t = next_run_at[s] /\ fired'[s][t] = fired[s][t] + 1
    BY <1>2 DEF _trigger_pipeline, TypeOK
  <2>3. /\ Firing(s)'
        /\ \A r \in Schedules : Firing(r) => Firing(r)'
    BY <2>1 DEF Firing, TypeOK
  <2>4. ~Firing(s)
    BY <2>1 DEF Firing, LockInv, PollInv, TypeOK
  <2>5. next_run_at[s] <= now
    <3>1. next_run_at[s] <= poll_at[p] /\ poll_at[p] <= now
      BY <2>1 DEF LockInv, PollInv
    <3>2. next_run_at[s] \in Nat /\ poll_at[p] \in Nat /\ now \in Nat
      BY BoundsAssumption DEF TypeOK
    <3>3. QED
      BY <3>1, <3>2
  <2>6. now \in Nat /\ faults \in Nat /\ \A r \in Schedules : \A t \in Slots : fired[r][t] \in Nat /\ t \in Nat
    BY BoundsAssumption DEF TypeOK, Slots
  <2>7. ASSUME NEW t \in Slots
        PROVE  /\ t > now => fired'[s][t] = 0
               /\ ~overtaken => /\ t > next_run_at[s] => fired'[s][t] = 0
                                /\ fired'[s][t] <= 1 + faults
    <3>1. /\ t > now => fired[s][t] = 0
          /\ ~overtaken => /\ t > next_run_at[s] => fired[s][t] = 0
                           /\ t = next_run_at[s] => fired[s][t] <= faults
                           /\ fired[s][t] <= 1 + faults
      BY <2>4 DEF FiredInv
    <3>2. next_run_at[s] \in Nat
      BY DEF TypeOK
    <3>3. QED
      BY <2>2, <2>5, <2>6, <3>1, <3>2
  <2>8. QED
    BY <2>1, <2>2, <2>3, <2>7 DEF FiredInv
<1>3. ASSUME NEW p \in Pods, crash(p) PROVE FiredInv'
  <2>1. UNCHANGED <<fired, now, overtaken, next_run_at>> /\ faults' = faults + 1
    BY <1>3 DEF crash
  <2>2. faults \in Nat /\ \A s \in Schedules, t \in Slots : fired[s][t] \in Nat
    BY DEF TypeOK
  <2>3. QED
    BY <2>1, <2>2 DEF FiredInv
<1>4. ASSUME NEW p \in Pods, poll_commit(p) PROVE FiredInv'
  <2>1. UNCHANGED <<fired, faults, now>> /\ now \in Nat
    BY <1>4, BoundsAssumption DEF poll_commit, TypeOK
  <2>2. close_poll(p)
    BY <1>4 DEF poll_commit
  <2>3. ASSUME NEW s \in Schedules, NEW q \in Pods, s \in triggered[q]
        PROVE  Firing(s)' \/ next_run_at'[s] # next_run_at[s]
    <3>1. CASE q = p
      <4>1. s \in polled[p] /\ next_run_at[s] <= poll_at[p]
        BY <2>3, <3>1 DEF LockInv, PollInv
      <4>2. next_run_at'[s] = _compute_next_run(cron[s], poll_at[p])
        BY <1>4, <4>1 DEF poll_commit, advanced
      <4>3. cron[s] \in Crons /\ poll_at[p] \in Nat /\ next_run_at[s] \in Nat
        BY DEF TypeOK
      <4>4. QED
        BY <4>1, <4>2, <4>3, NextRun
    <3>2. CASE q # p
      <4>1. triggered'[q] = triggered[q]
        BY <2>2, <3>2, ClosePoll
      <4>2. QED
        BY <2>3, <4>1 DEF Firing
    <3>3. QED
      BY <3>1, <3>2
  <2>4. \A s \in Schedules : Firing(s) => Firing(s)' \/ next_run_at'[s] # next_run_at[s]
    BY <2>3 DEF Firing
  <2>5. QED
    BY <1>1, <2>1, <2>4, FiredTimer
<1>5. ASSUME UNCHANGED <<fired, faults, triggered>>, now' >= now PROVE FiredInv'
  <2>1. \A s \in Schedules : Firing(s) => Firing(s)'
    BY <1>5 DEF Firing
  <2>2. QED
    BY <1>1, <1>5, <2>1, FiredTimer
<1>6. now \in Nat
  BY BoundsAssumption DEF TypeOK
<1>7. ASSUME NEW p \in Pods, sync_step(p) \/ _poll_and_trigger(p) PROVE FiredInv'
  <2>1. UNCHANGED <<fired, faults, triggered, now>>
    BY <1>7 DEF sync_step, sync_schedules_from_registry, sync_commit, sync_conflict, _poll_and_trigger
  <2>2. QED
    BY <1>5, <1>6, <2>1
<1>8. CASE reset_schedule \/ reset_commit \/ tick \/ UNCHANGED vars
  <2>1. UNCHANGED <<fired, faults, triggered>> /\ now' >= now
    BY <1>6, <1>8 DEF reset_schedule, reset_commit, tick, vars
  <2>2. QED
    BY <1>5, <2>1
<1>9. QED
  BY <1>2, <1>3, <1>4, <1>7, <1>8 DEF Next, poll_step

\* Any number of pods fire a slot of a schedule once, and once more for each pod that
\* died, unless a write used a clock or a row that was out of date.
THEOREM SlotsFireOnce == Spec => []FiredOncePerSlot
<1>1. FiredInv => FiredOncePerSlot
  BY DEF FiredInv, FiredOncePerSlot
<1>2. QED
  BY <1>1, FiredInit, FiredStep, LocksHold, TypeCorrect, PTL DEF Spec
=============================================================================
