--------------------------- MODULE PlanningProofs ---------------------------
(***************************************************************************)
(* Theorems about Planning for any number of batches, managers, starts,    *)
(* API calls and faults, and about Slicing, which says what a plan         *)
(* contains, for any number of documents and any keys and sizes.           *)
(***************************************************************************)
EXTENDS Planning, Slicing, FiniteSets, FiniteSetTheorems, FunctionTheorems, WellFoundedInduction, TLAPS

----------------------------------------------------------------------------
(* Type correctness. *)

\* What the proofs use of the processes and the ids they write.
LEMMA OwnersFacts ==
  /\ Planner \in Actors /\ Planner \notin Managers
  /\ \A a \in Actors : a = Planner \/ a \in Managers
  /\ Managers \subseteq Actors
  /\ Actors \subseteq Owners
  /\ PlanOwner \in Owners /\ PlanOwner # NoDriver
  /\ \A a \in Actors :
       /\ a # PlanOwner /\ a # NoDriver
       /\ recovery_id(a) \in Owners /\ recovery_id(a) # PlanOwner /\ recovery_id(a) # NoDriver
       /\ recovery_id(a) \notin Actors
  BY ActorsAssumption DEF Actors, Owners

LEMMA TypeInit == Init => TypeOK
<1> SUFFICES ASSUME Init PROVE TypeOK
  OBVIOUS
<1>1. /\ execution \in States /\ hpc = "idle"
      /\ saved \in 0..Batches /\ saved = 0 /\ pending \subseteq 1..saved
      /\ driver \in Owners \cup {NoDriver}
      /\ calls \in Nat /\ starts \in Nat /\ faults \in Nat
  BY PlanningBounds DEF Init, States
<1>2. plan_complete \in BOOLEAN /\ driverExpired \in BOOLEAN /\ old \in BOOLEAN /\ beating \in BOOLEAN
      /\ unprotected \in BOOLEAN /\ gave_up \in BOOLEAN
  BY Zenon DEF Init
<1>3. /\ pc \in [Actors -> Steps]
      /\ \A a \in Managers : pc[a] = "off"
      /\ pc[Planner] = "queued"
  BY OwnersFacts DEF Init, Steps
<1>4. QED
  BY <1>1, <1>2, <1>3 DEF TypeOK, PlanSteps, Leaving

LEMMA TypePlanner ==
  ASSUME TypeOK, planner_step
  PROVE  TypeOK'
<1> USE PlanningBounds, OwnersFacts DEF TypeOK, States, Steps, PlanSteps, LoopSteps, Leaving, goto,
           fault, rows, lease, bounds
<1>1. CASE lease_start
  BY <1>1 DEF lease_start, may_claim_driver
<1>2. CASE plan_start
  BY <1>2 DEF plan_start
<1>3. CASE check_state
  BY <1>3 DEF check_state
<1>4. ASSUME NEW next \in {"check", "plan"}, create_jobs(next) PROVE TypeOK'
  BY <1>4 DEF create_jobs
<1>5. CASE plan_aborted
  BY <1>5 DEF plan_aborted
<1>6. CASE mark_plan_complete
  BY <1>6 DEF mark_plan_complete
<1>7. CASE lease_stop
  <2>1. /\ UNCHANGED <<execution, plan_complete, saved, pending, old, hpc, calls, starts, faults,
                       unprotected, gave_up>>
        /\ beating' = FALSE
        /\ pc' = [pc EXCEPT ![Planner] = after_lease(pc[Planner])]
        /\ pc[Planner] \in Leaving
    BY <1>7 DEF lease_stop
  <2>2. after_lease(pc[Planner]) \in {"drive", "off", "failed"}
    BY <2>1 DEF after_lease
  <2>3. driver' \in Owners \cup {NoDriver} /\ driverExpired' \in BOOLEAN
    BY <1>7 DEF lease_stop, release
  <2>4. /\ pc' \in [Actors -> Steps]
        /\ \A a \in Managers : pc'[a] = pc[a]
        /\ pc'[Planner] \in {"drive", "off", "failed"}
    BY <2>1, <2>2
  <2>5. beating' \in BOOLEAN
    BY <2>1
  <2>6. QED
    BY ONLY TypeOK, <2>1, <2>3, <2>4, <2>5 DEF TypeOK, PlanSteps, LoopSteps, Leaving
<1>8. CASE dispatch_failed
  BY <1>8 DEF dispatch_failed
<1>9. QED
  BY <1>1, <1>2, <1>3, <1>4, <1>5, <1>6, <1>7, <1>8 DEF planner_step

LEMMA TypeActor ==
  ASSUME NEW a \in Actors, TypeOK,
         actor_step(a) \/ manager_start(a) \/ resume_pipeline_missing(a) \/ resume_failed(a)
           \/ manager_crash(a) \/ resume_write(a)
  PROVE  TypeOK'
<1> USE PlanningBounds, OwnersFacts DEF TypeOK, States, Steps, PlanSteps, LoopSteps, Leaving, goto,
           fault, rows, lease, bounds
<1>1. CASE resume_execution(a)
  BY <1>1 DEF resume_execution
<1>2. CASE recover_plan(a)
  BY <1>2 DEF recover_plan
<1>3. CASE recover_claim(a)
  BY <1>3 DEF recover_claim, may_claim_driver
<1>4. CASE plan_abandoned(a)
  BY <1>4 DEF plan_abandoned
<1>5. CASE recover_release(a)
  BY <1>5 DEF recover_release, release
<1>6. ASSUME NEW final \in {"completed", "failed"}, resume_counts(a, final) PROVE TypeOK'
  BY <1>6 DEF resume_counts
<1>7. ASSUME NEW final \in {"completed", "failed"}, drive(a, final) PROVE TypeOK'
  <2>1. CASE driver = a /\ execution = "running"
    BY <1>7, <2>1 DEF drive
  <2>2. CASE ~(driver = a /\ execution = "running")
    <3>1. UNCHANGED <<execution, plan_complete, saved, pending, driver, driverExpired, old, beating,
                      hpc, calls, starts, faults, unprotected, gave_up>>
      BY <1>7, <2>2 DEF drive
    <3>2. pc' = [pc EXCEPT ![a] = "release"]
      BY <1>7 DEF drive
    <3>3. QED
      BY <3>1, <3>2
  <2>3. QED
    BY <2>1, <2>2
<1>8. CASE drive_claim(a)
  <2>1. CASE may_claim_driver(a)
    <3>1. /\ UNCHANGED <<execution, plan_complete, saved, pending, old, beating, hpc, calls, starts,
                         faults, unprotected, gave_up>>
          /\ driver' = a /\ driverExpired' = FALSE
      BY <1>8, <2>1 DEF drive_claim
    <3>2. pc' = [pc EXCEPT ![a] = "driving"]
      BY <1>8, <2>1 DEF drive_claim
    <3>3. /\ pc' \in [Actors -> Steps]
          /\ \A m \in Managers : pc'[m] \in {pc[m], "driving"}
          /\ pc'[Planner] \in {pc[Planner], "driving"}
      BY <3>2
    <3>4. driver' \in Owners \cup {NoDriver} /\ driverExpired' \in BOOLEAN
      BY <3>1
    <3>5. UNCHANGED <<execution, plan_complete, saved, pending, old, beating, hpc, calls, starts,
                      faults, unprotected, gave_up>>
      BY <3>1
    <3>6. QED
      BY ONLY TypeOK, <3>3, <3>4, <3>5 DEF TypeOK, PlanSteps, LoopSteps, Leaving
  <2>2. CASE ~may_claim_driver(a)
    BY <1>8, <2>2 DEF drive_claim
  <2>3. QED
    BY <2>1, <2>2
<1>9. CASE drive_release(a)
  BY <1>9 DEF drive_release, release
<1>10. ASSUME NEW sameHost \in BOOLEAN, manager_restart(a, sameHost) PROVE TypeOK'
  <2>1. CASE sameHost
    BY <1>10, <2>1 DEF manager_restart, release
  <2>2. CASE ~sameHost
    BY <1>10, <2>2 DEF manager_restart
  <2>3. QED
    BY <2>1, <2>2
<1>11. CASE manager_start(a)
  BY <1>11 DEF manager_start
<1>12. CASE resume_pipeline_missing(a)
  BY <1>12 DEF resume_pipeline_missing
<1>13. CASE resume_failed(a)
  BY <1>13 DEF resume_failed
<1>14. CASE manager_crash(a)
  BY <1>14 DEF manager_crash
<1>15. CASE resume_write(a)
  BY <1>15 DEF resume_write
<1>16. QED
  BY <1>1, <1>2, <1>3, <1>4, <1>5, <1>6, <1>7, <1>8, <1>9, <1>10, <1>11, <1>12, <1>13, <1>14, <1>15 DEF actor_step

LEMMA TypeRest ==
  ASSUME TypeOK,
         \/ beat \/ lease_expires \/ grow_old \/ api_call
         \/ pause_write \/ cancel_write \/ cancel_unstarted_jobs \/ force_fail_write
         \/ lease_start_error \/ lease_stop_error \/ plan_error \/ dispatch_failed_error
         \/ lease_missed \/ start_late
  PROVE  TypeOK'
<1> USE PlanningBounds, OwnersFacts DEF TypeOK, States, Steps, PlanSteps, LoopSteps, Leaving, goto,
           fault, rows, lease, bounds
<1>1. CASE beat
  <2>1. driverExpired' \in BOOLEAN
    BY <1>1 DEF beat
  <2>2. UNCHANGED <<execution, plan_complete, saved, pending, driver, old, pc, beating, hpc, calls,
                    starts, faults, unprotected, gave_up>>
    BY <1>1 DEF beat
  <2>3. QED
    BY ONLY TypeOK, <2>1, <2>2 DEF TypeOK
<1>2. CASE lease_expires
  BY <1>2 DEF lease_expires
<1>3. CASE grow_old
  BY <1>3 DEF grow_old
<1>4. CASE api_call
  <2>1. PICK op \in {"pause", "resume", "cancel", "fail"}, states \in SUBSET States : call(op, states)
    BY <1>4 DEF api_call, PausableStates, ResumableStates, CancellableStates
  <2>2. /\ hpc' \in {"idle", "pause", "resume", "cancel", "cancel_jobs", "fail"}
        /\ calls' \in Nat
    BY <2>1 DEF call
  <2>3. UNCHANGED <<execution, plan_complete, saved, pending, driver, driverExpired, old, pc, beating,
                    starts, faults, unprotected, gave_up>>
    BY <2>1 DEF call
  <2>4. QED
    BY <2>2, <2>3
<1>5. CASE pause_write
  BY <1>5 DEF pause_write
<1>6. CASE cancel_write
  BY <1>6 DEF cancel_write
<1>7. CASE cancel_unstarted_jobs
  BY <1>7 DEF cancel_unstarted_jobs
<1>8. CASE force_fail_write
  BY <1>8 DEF force_fail_write
<1>9. CASE lease_start_error
  BY <1>9 DEF lease_start_error
<1>10. CASE lease_stop_error
  <2>1. pc' = [pc EXCEPT ![Planner] = after_lease(pc[Planner])]
    BY <1>10 DEF lease_stop_error
  <2>2. after_lease(pc[Planner]) \in {"drive", "off", "failed"}
    BY DEF after_lease
  <2>3. pc' \in [Actors -> Steps] /\ pc'[Planner] \in {"drive", "off", "failed"}
        /\ \A m \in Managers : pc'[m] = pc[m]
    BY <2>1, <2>2
  <2>4. /\ UNCHANGED <<execution, plan_complete, saved, pending, driver, driverExpired, old, hpc, calls,
                       starts>>
        /\ beating' = FALSE /\ faults' \in Nat /\ unprotected' \in BOOLEAN /\ gave_up' \in BOOLEAN
    BY <1>10 DEF lease_stop_error
  <2>5. beating' \in BOOLEAN
    BY <2>4
  <2>6. QED
    BY ONLY TypeOK, <2>3, <2>4, <2>5 DEF TypeOK, PlanSteps, LoopSteps, Leaving
<1>11. CASE plan_error
  BY <1>11 DEF plan_error
<1>12. CASE dispatch_failed_error
  BY <1>12 DEF dispatch_failed_error
<1>13. CASE lease_missed
  BY <1>13 DEF lease_missed
<1>14. CASE start_late
  BY <1>14 DEF start_late
<1>15. QED
  BY <1>1, <1>2, <1>3, <1>4, <1>5, <1>6, <1>7, <1>8, <1>9, <1>10, <1>11, <1>12, <1>13, <1>14 DEF fault_step

LEMMA TypeNext == TypeOK /\ [Next]_vars => TypeOK'
<1> SUFFICES ASSUME TypeOK, [Next]_vars PROVE TypeOK'
  OBVIOUS
<1>1. CASE planner_step
  BY <1>1, TypePlanner
<1>2. ASSUME NEW a \in Actors,
             actor_step(a) \/ manager_start(a) \/ resume_pipeline_missing(a) \/ resume_failed(a)
               \/ manager_crash(a) \/ resume_write(a)
      PROVE  TypeOK'
  BY <1>2, TypeActor
<1>3. CASE \/ beat \/ lease_expires \/ grow_old \/ api_call
           \/ pause_write \/ cancel_write \/ cancel_unstarted_jobs \/ force_fail_write
           \/ lease_start_error \/ lease_stop_error \/ plan_error \/ dispatch_failed_error
           \/ lease_missed \/ start_late
  BY <1>3, TypeRest
<1>4. CASE UNCHANGED vars
  BY <1>4 DEF TypeOK, vars
<1>5. QED
  BY <1>1, <1>2, <1>3, <1>4 DEF Next, api_step, fault_step

\* Every reachable state of the planner, the recoveries and the row is well typed.
THEOREM TypeCorrect == Spec => []TypeOK
<1>1. TypeOK /\ [Next]_vars => TypeOK'
  BY TypeNext
<1>2. QED
  BY TypeInit, <1>1, PTL DEF Spec

----------------------------------------------------------------------------
(* A fragment of a plan is never driven.  That a loop only runs on a whole    *)
(* plan is inductive once it is known where the planner is: past its plan      *)
(* when the plan is complete, and with every batch saved when it says so.      *)

PlanInv ==
    /\ plan_complete => saved = Batches /\ pc[Planner] \notin PlanSteps \cup {"queued"}
    /\ pc[Planner] = "total" => saved = Batches
    /\ pc[Planner] = "handover" => plan_complete
    /\ \A a \in Actors : pc[a] \in LoopSteps => plan_complete

LEMMA PlanInit == Init => PlanInv
  BY OwnersFacts DEF Init, PlanInv, PlanSteps, LoopSteps

LEMMA PlanPlanner ==
  ASSUME TypeOK, PlanInv, planner_step
  PROVE  PlanInv'
<1> USE OwnersFacts DEF TypeOK, PlanInv, PlanSteps, LoopSteps, Leaving, goto, fault, rows, lease, bounds
<1>1. CASE lease_start
  BY <1>1 DEF lease_start, may_claim_driver
<1>2. CASE plan_start
  BY <1>2 DEF plan_start
<1>3. CASE check_state
  BY <1>3 DEF check_state
<1>4. ASSUME NEW next \in {"check", "plan"}, create_jobs(next) PROVE PlanInv'
  BY <1>4 DEF create_jobs
<1>5. CASE plan_aborted
  BY <1>5 DEF plan_aborted
<1>6. CASE mark_plan_complete
  BY <1>6 DEF mark_plan_complete
<1>7. CASE lease_stop
  BY <1>7 DEF lease_stop, release, after_lease
<1>8. CASE dispatch_failed
  BY <1>8 DEF dispatch_failed
<1>9. QED
  BY <1>1, <1>2, <1>3, <1>4, <1>5, <1>6, <1>7, <1>8 DEF planner_step

LEMMA PlanActor ==
  ASSUME NEW a \in Actors, TypeOK, PlanInv,
         actor_step(a) \/ manager_start(a) \/ resume_pipeline_missing(a) \/ resume_failed(a)
           \/ manager_crash(a) \/ resume_write(a)
  PROVE  PlanInv'
<1> USE OwnersFacts DEF TypeOK, PlanInv, PlanSteps, LoopSteps, Leaving, goto, fault, rows, lease, bounds
<1>1. CASE resume_execution(a)
  BY <1>1 DEF resume_execution
<1>2. CASE recover_plan(a)
  BY <1>2 DEF recover_plan
<1>3. CASE recover_claim(a)
  BY <1>3 DEF recover_claim, may_claim_driver
<1>4. CASE plan_abandoned(a)
  BY <1>4 DEF plan_abandoned
<1>5. CASE recover_release(a)
  BY <1>5 DEF recover_release, release
<1>6. ASSUME NEW final \in {"completed", "failed"}, resume_counts(a, final) PROVE PlanInv'
  BY <1>6 DEF resume_counts
<1>7. ASSUME NEW final \in {"completed", "failed"}, drive(a, final) PROVE PlanInv'
  BY <1>7 DEF drive
<1>8. CASE drive_claim(a)
  BY <1>8 DEF drive_claim, may_claim_driver
<1>9. CASE drive_release(a)
  BY <1>9 DEF drive_release, release
<1>10. ASSUME NEW sameHost \in BOOLEAN, manager_restart(a, sameHost) PROVE PlanInv'
  BY <1>10 DEF manager_restart, release
<1>11. CASE manager_start(a)
  BY <1>11 DEF manager_start
<1>12. CASE resume_pipeline_missing(a)
  BY <1>12 DEF resume_pipeline_missing
<1>13. CASE resume_failed(a)
  BY <1>13 DEF resume_failed
<1>14. CASE manager_crash(a)
  BY <1>14 DEF manager_crash
<1>15. CASE resume_write(a)
  BY <1>15 DEF resume_write
<1>16. QED
  BY <1>1, <1>2, <1>3, <1>4, <1>5, <1>6, <1>7, <1>8, <1>9, <1>10, <1>11, <1>12, <1>13, <1>14, <1>15 DEF actor_step

LEMMA PlanRest ==
  ASSUME TypeOK, PlanInv,
         \/ beat \/ lease_expires \/ grow_old \/ api_call
         \/ pause_write \/ cancel_write \/ cancel_unstarted_jobs \/ force_fail_write
         \/ lease_start_error \/ lease_stop_error \/ plan_error \/ dispatch_failed_error
         \/ lease_missed \/ start_late
  PROVE  PlanInv'
<1> USE OwnersFacts DEF TypeOK, PlanInv, PlanSteps, LoopSteps, Leaving, goto, fault, rows, lease, bounds
<1>1. CASE beat
  BY <1>1 DEF beat
<1>2. CASE lease_expires
  BY <1>2 DEF lease_expires
<1>3. CASE grow_old
  BY <1>3 DEF grow_old
<1>4. CASE api_call
  BY <1>4 DEF api_call, call
<1>5. CASE pause_write
  BY <1>5 DEF pause_write
<1>6. CASE cancel_write
  BY <1>6 DEF cancel_write
<1>7. CASE cancel_unstarted_jobs
  BY <1>7 DEF cancel_unstarted_jobs
<1>8. CASE force_fail_write
  BY <1>8 DEF force_fail_write
<1>9. CASE lease_start_error
  BY <1>9 DEF lease_start_error
<1>10. CASE lease_stop_error
  BY <1>10 DEF lease_stop_error, after_lease
<1>11. CASE plan_error
  BY <1>11 DEF plan_error
<1>12. CASE dispatch_failed_error
  BY <1>12 DEF dispatch_failed_error
<1>13. CASE lease_missed
  BY <1>13 DEF lease_missed
<1>14. CASE start_late
  BY <1>14 DEF start_late
<1>15. QED
  BY <1>1, <1>2, <1>3, <1>4, <1>5, <1>6, <1>7, <1>8, <1>9, <1>10, <1>11, <1>12, <1>13, <1>14 DEF fault_step

LEMMA PlanNext == TypeOK /\ PlanInv /\ [Next]_vars => PlanInv'
<1> SUFFICES ASSUME TypeOK, PlanInv, [Next]_vars PROVE PlanInv'
  OBVIOUS
<1>1. CASE planner_step
  BY <1>1, PlanPlanner
<1>2. ASSUME NEW a \in Actors,
             actor_step(a) \/ manager_start(a) \/ resume_pipeline_missing(a) \/ resume_failed(a)
               \/ manager_crash(a) \/ resume_write(a)
      PROVE  PlanInv'
  BY <1>2, PlanActor
<1>3. CASE \/ beat \/ lease_expires \/ grow_old \/ api_call
           \/ pause_write \/ cancel_write \/ cancel_unstarted_jobs \/ force_fail_write
           \/ lease_start_error \/ lease_stop_error \/ plan_error \/ dispatch_failed_error
           \/ lease_missed \/ start_late
  BY <1>3, PlanRest
<1>4. CASE UNCHANGED vars
  BY <1>4 DEF PlanInv, vars
<1>5. QED
  BY <1>1, <1>2, <1>3, <1>4 DEF Next, api_step, fault_step

\* Whatever dies, expires, is paused, cancelled, recovered or resumed, and in
\* whichever order: no process is ever in the drive loop, or settles the
\* execution from its job rows, before every batch of the plan is saved
\* (resume_execution, _recover_plan and the hand-over of _plan_and_dispatch).
THEOREM FragmentsAreNeverDriven == Spec => []FragmentNeverDriven
<1>1. TypeOK /\ PlanInv /\ [Next]_vars => PlanInv'
  BY PlanNext
<1>2. PlanInv => FragmentNeverDriven
  BY DEF PlanInv, FragmentNeverDriven
<1>3. QED
  BY TypeCorrect, PlanInit, <1>1, <1>2, PTL DEF Spec

----------------------------------------------------------------------------
(* A planner that plans is not taken for dead.  Nobody claims the lease before *)
(* the planner does, because the execution is young; from then on the planner  *)
(* holds it and its thread keeps it fresh, so every claim of a recovery fails. *)

ProtectInv ==
    ~unprotected =>
        /\ pc[Planner] = "queued" => ~old /\ driver = NoDriver
        /\ pc[Planner] \in PlanSteps => driver = PlanOwner /\ beating /\ ~driverExpired
        /\ ~old => \A a \in Actors : pc[a] \notin {"claim", "abandon", "free"}
        /\ pc[Planner] \in PlanSteps => \A a \in Actors : pc[a] \notin {"abandon", "free"}

LEMMA ProtectInit == Init => ProtectInv
  BY OwnersFacts DEF Init, ProtectInv, PlanSteps, LoopSteps

LEMMA ProtectPlanner ==
  ASSUME TypeOK, PlanInv, ProtectInv, planner_step
  PROVE  ProtectInv'
<1> USE OwnersFacts DEF TypeOK, PlanInv, ProtectInv, PlanSteps, LoopSteps, Leaving, goto, fault, rows, lease, bounds
<1>1. CASE lease_start
  BY <1>1 DEF lease_start, may_claim_driver
<1>2. CASE plan_start
  BY <1>2 DEF plan_start
<1>3. CASE check_state
  BY <1>3 DEF check_state
<1>4. ASSUME NEW next \in {"check", "plan"}, create_jobs(next) PROVE ProtectInv'
  BY <1>4 DEF create_jobs
<1>5. CASE plan_aborted
  BY <1>5 DEF plan_aborted
<1>6. CASE mark_plan_complete
  BY <1>6 DEF mark_plan_complete
<1>7. CASE lease_stop
  BY <1>7 DEF lease_stop, release, after_lease
<1>8. CASE dispatch_failed
  BY <1>8 DEF dispatch_failed
<1>9. QED
  BY <1>1, <1>2, <1>3, <1>4, <1>5, <1>6, <1>7, <1>8 DEF planner_step

LEMMA ProtectActor ==
  ASSUME NEW a \in Actors, TypeOK, PlanInv, ProtectInv,
         actor_step(a) \/ manager_start(a) \/ resume_pipeline_missing(a) \/ resume_failed(a)
           \/ manager_crash(a) \/ resume_write(a)
  PROVE  ProtectInv'
<1> USE OwnersFacts DEF TypeOK, PlanInv, ProtectInv, PlanSteps, LoopSteps, Leaving, goto, fault, rows, lease, bounds
<1>1. CASE resume_execution(a)
  BY <1>1 DEF resume_execution
<1>2. CASE recover_plan(a)
  BY <1>2 DEF recover_plan
<1>3. CASE recover_claim(a)
  BY <1>3 DEF recover_claim, may_claim_driver
<1>4. CASE plan_abandoned(a)
  BY <1>4 DEF plan_abandoned
<1>5. CASE recover_release(a)
  BY <1>5 DEF recover_release, release
<1>6. ASSUME NEW final \in {"completed", "failed"}, resume_counts(a, final) PROVE ProtectInv'
  BY <1>6 DEF resume_counts
<1>7. ASSUME NEW final \in {"completed", "failed"}, drive(a, final) PROVE ProtectInv'
  BY <1>7 DEF drive
<1>8. CASE drive_claim(a)
  BY <1>8 DEF drive_claim, may_claim_driver
<1>9. CASE drive_release(a)
  BY <1>9 DEF drive_release, release
<1>10. ASSUME NEW sameHost \in BOOLEAN, manager_restart(a, sameHost) PROVE ProtectInv'
  BY <1>10 DEF manager_restart, release
<1>11. CASE manager_start(a)
  BY <1>11 DEF manager_start
<1>12. CASE resume_pipeline_missing(a)
  BY <1>12 DEF resume_pipeline_missing
<1>13. CASE resume_failed(a)
  BY <1>13 DEF resume_failed
<1>14. CASE manager_crash(a)
  BY <1>14 DEF manager_crash
<1>15. CASE resume_write(a)
  BY <1>15 DEF resume_write
<1>16. QED
  BY <1>1, <1>2, <1>3, <1>4, <1>5, <1>6, <1>7, <1>8, <1>9, <1>10, <1>11, <1>12, <1>13, <1>14, <1>15 DEF actor_step

LEMMA ProtectRest ==
  ASSUME TypeOK, PlanInv, ProtectInv,
         \/ beat \/ lease_expires \/ grow_old \/ api_call
         \/ pause_write \/ cancel_write \/ cancel_unstarted_jobs \/ force_fail_write
         \/ lease_start_error \/ lease_stop_error \/ plan_error \/ dispatch_failed_error
         \/ lease_missed \/ start_late
  PROVE  ProtectInv'
<1> USE OwnersFacts DEF TypeOK, PlanInv, ProtectInv, PlanSteps, LoopSteps, Leaving, goto, fault, rows, lease, bounds
<1>1. CASE beat
  BY <1>1 DEF beat
<1>2. CASE lease_expires
  BY <1>2 DEF lease_expires, owner_alive
<1>3. CASE grow_old
  BY <1>3 DEF grow_old
<1>4. CASE api_call
  BY <1>4 DEF api_call, call
<1>5. CASE pause_write
  BY <1>5 DEF pause_write
<1>6. CASE cancel_write
  BY <1>6 DEF cancel_write
<1>7. CASE cancel_unstarted_jobs
  BY <1>7 DEF cancel_unstarted_jobs
<1>8. CASE force_fail_write
  BY <1>8 DEF force_fail_write
<1>9. CASE lease_start_error
  BY <1>9 DEF lease_start_error
<1>10. CASE lease_stop_error
  BY <1>10 DEF lease_stop_error, after_lease
<1>11. CASE plan_error
  BY <1>11 DEF plan_error
<1>12. CASE dispatch_failed_error
  BY <1>12 DEF dispatch_failed_error
<1>13. CASE lease_missed
  BY <1>13 DEF lease_missed
<1>14. CASE start_late
  BY <1>14 DEF start_late
<1>15. QED
  BY <1>1, <1>2, <1>3, <1>4, <1>5, <1>6, <1>7, <1>8, <1>9, <1>10, <1>11, <1>12, <1>13, <1>14 DEF fault_step

LEMMA ProtectNext == TypeOK /\ PlanInv /\ ProtectInv /\ [Next]_vars => ProtectInv'
<1> SUFFICES ASSUME TypeOK, PlanInv, ProtectInv, [Next]_vars PROVE ProtectInv'
  OBVIOUS
<1>1. CASE planner_step
  BY <1>1, ProtectPlanner
<1>2. ASSUME NEW a \in Actors,
             actor_step(a) \/ manager_start(a) \/ resume_pipeline_missing(a) \/ resume_failed(a)
               \/ manager_crash(a) \/ resume_write(a)
      PROVE  ProtectInv'
  BY <1>2, ProtectActor
<1>3. CASE \/ beat \/ lease_expires \/ grow_old \/ api_call
           \/ pause_write \/ cancel_write \/ cancel_unstarted_jobs \/ force_fail_write
           \/ lease_start_error \/ lease_stop_error \/ plan_error \/ dispatch_failed_error
           \/ lease_missed \/ start_late
  BY <1>3, ProtectRest
<1>4. CASE UNCHANGED vars
  BY <1>4 DEF ProtectInv, vars
<1>5. QED
  BY <1>1, <1>2, <1>3, <1>4 DEF Next, api_step, fault_step

\* The planning lease does its work: until a live holder misses its lease or a
\* lease operation fails, _recover_plan in any number of other managers never
\* fails an execution whose planner is queued or planning.
THEOREM LivePlannersAreProtected == Spec => LivePlannerProtected
<1>1. TypeOK /\ PlanInv /\ [Next]_vars => PlanInv'
  BY PlanNext
<1>2. TypeOK /\ PlanInv /\ ProtectInv /\ [Next]_vars => ProtectInv'
  BY ProtectNext
<1>3. ProtectInv /\ TypeOK /\ [Next]_vars =>
        [~unprotected =>
           \A a \in Actors : plan_abandoned(a) => pc[Planner] \notin PlanSteps \cup {"queued"}]_vars
  BY DEF ProtectInv, plan_abandoned, PlanSteps
<1>4. QED
  BY TypeCorrect, PlanInit, ProtectInit, <1>1, <1>2, <1>3, PTL DEF Spec, LivePlannerProtected

----------------------------------------------------------------------------
(* A stopped plan leaves nothing in the queue.  Without faults a planner is    *)
(* past its plan either with every batch saved or through the stop, which      *)
(* cancels what was saved; nothing is saved after that.                        *)

StopInv ==
    faults = 0 /\ pc[Planner] \notin PlanSteps \cup {"queued"} /\ saved < Batches => pending = {}

LEMMA StopPlanner ==
  ASSUME TypeOK, PlanInv, StopInv, planner_step
  PROVE  StopInv'
<1> USE PlanningBounds, OwnersFacts DEF TypeOK, PlanInv, StopInv, PlanSteps, LoopSteps, Leaving, goto,
          fault, rows, lease, bounds
<1>1. CASE lease_start
  BY <1>1 DEF lease_start
<1>2. CASE plan_start
  BY <1>2 DEF plan_start
<1>3. CASE check_state
  BY <1>3 DEF check_state
<1>4. ASSUME NEW next \in {"check", "plan"}, create_jobs(next) PROVE StopInv'
  BY <1>4 DEF create_jobs
<1>5. CASE plan_aborted
  BY <1>5 DEF plan_aborted
<1>6. CASE mark_plan_complete
  BY <1>6 DEF mark_plan_complete
<1>7. CASE lease_stop
  BY <1>7 DEF lease_stop
<1>8. CASE dispatch_failed
  BY <1>8 DEF dispatch_failed
<1>9. QED
  BY <1>1, <1>2, <1>3, <1>4, <1>5, <1>6, <1>7, <1>8 DEF planner_step

\* No other process puts the planner back into its plan, saves a batch or adds a job.
LEMMA StopActor ==
  ASSUME NEW a \in Actors, TypeOK, StopInv,
         actor_step(a) \/ manager_start(a) \/ resume_write(a)
  PROVE  StopInv'
<1>1. /\ saved' = saved /\ faults' = faults
      /\ pending' = pending \/ pending' = {}
      /\ pc[a] \notin PlanSteps \cup {"queued"}
      /\ \A b \in Actors : b # a => pc'[b] = pc[b]
  BY DEF TypeOK, PlanSteps, goto, rows, bounds, actor_step, manager_start, resume_write,
         resume_execution, recover_plan, recover_claim, plan_abandoned, recover_release,
         resume_counts, drive, drive_claim, drive_release, manager_restart
<1>2. QED
  BY <1>1, OwnersFacts DEF StopInv

LEMMA StopRest ==
  ASSUME TypeOK, StopInv,
         \/ beat \/ lease_expires \/ grow_old \/ api_call
         \/ pause_write \/ cancel_write \/ cancel_unstarted_jobs \/ force_fail_write
  PROVE  StopInv'
<1>1. saved' = saved /\ faults' = faults /\ pc' = pc /\ (pending' = pending \/ pending' = {})
  BY DEF rows, bounds, beat, lease_expires, grow_old, api_call, call, pause_write, cancel_write,
         cancel_unstarted_jobs, force_fail_write
<1>2. QED
  BY <1>1 DEF StopInv

LEMMA StopFault ==
  ASSUME TypeOK, fault_step
  PROVE  StopInv'
<1>1. PICK k \in FaultKinds : fault(k)
  BY DEF fault_step, lease_start_error, lease_stop_error, plan_error, dispatch_failed_error,
         resume_pipeline_missing, resume_failed, manager_crash, lease_missed, start_late, fault
<1>2. faults' # 0
  BY <1>1 DEF fault, TypeOK
<1>3. QED
  BY <1>2 DEF StopInv

\* A cancelled execution whose planner stopped before the end of its plan has no job in
\* the queue, for any number of batches, calls and managers, as long as nothing fails.
THEOREM StoppedPlansAreCancelled == Spec => []StoppedPlanIsCancelled
<1>1. Init => StopInv
  BY DEF Init, StopInv
<1>2. TypeOK /\ PlanInv /\ StopInv /\ [Next]_vars => StopInv'
  <2> SUFFICES ASSUME TypeOK, PlanInv, StopInv, [Next]_vars PROVE StopInv'
    OBVIOUS
  <2>1. CASE planner_step
    BY <2>1, StopPlanner
  <2>2. ASSUME NEW a \in Actors, actor_step(a) \/ manager_start(a) \/ resume_write(a)
        PROVE  StopInv'
    BY <2>2, StopActor
  <2>3. CASE \/ beat \/ lease_expires \/ grow_old \/ api_call
             \/ pause_write \/ cancel_write \/ cancel_unstarted_jobs \/ force_fail_write
    BY <2>3, StopRest
  <2>4. CASE fault_step
    BY <2>4, StopFault
  <2>5. CASE UNCHANGED vars
    BY <2>5 DEF StopInv, vars
  <2>6. QED
    BY <2>1, <2>2, <2>3, <2>4, <2>5 DEF Next, api_step
<1>3. StopInv => StoppedPlanIsCancelled
  BY DEF StopInv, StoppedPlanIsCancelled, PlanSteps
<1>4. QED
  BY <1>1, <1>2, <1>3, TypeInit, TypeNext, PlanInit, PlanNext, PTL DEF Spec

----------------------------------------------------------------------------
(* What a plan contains: the parts into which Slicing cuts a source.       *)
(* First sets of numbers, quotients, and the operators of the model.       *)

LEMMA SubsetFacts ==
  ASSUME NEW S, IsFiniteSet(S), NEW T, T \subseteq S
  PROVE  /\ IsFiniteSet(T) /\ Cardinality(T) \in Nat /\ Cardinality(S) \in Nat
         /\ Cardinality(T) <= Cardinality(S)
         /\ Cardinality(S) = Cardinality(T) => S = T
BY FS_Subset, FS_CardinalityType

LEMMA NatMin ==
  ASSUME NEW T \in SUBSET Nat, T # {}
  PROVE  \E m \in T : \A k \in T : m <= k
<1> DEFINE Less == {p \in Nat \X Nat : p[1] < p[2]}
<1>1. IsWellFoundedOn(Less, Nat)
  BY NatLessThanWellFounded DEF OpToRel
<1>2. \A k, m \in Nat : <<k, m>> \notin Less => m <= k
  <2> SUFFICES ASSUME NEW k \in Nat, NEW m \in Nat, k < m PROVE <<k, m>> \in Less
    OBVIOUS
  <2>1. <<k, m>> \in Nat \X Nat /\ <<k, m>>[1] = k /\ <<k, m>>[2] = m
    OBVIOUS
  <2>2. QED
    BY <2>1
<1> HIDE DEF Less
<1>3. PICK m \in T : \A k \in T : <<k, m>> \notin Less
  BY <1>1, WFMin
<1>4. QED
  BY <1>2, <1>3

\* A finite set of numbers has a largest one: the one with the fewest above it.
LEMMA NatMax ==
  ASSUME NEW T \in SUBSET Nat, T # {}, IsFiniteSet(T)
  PROVE  \E m \in T : \A k \in T : k <= m
<1> DEFINE Above(m) == {k \in T : k > m}
           Counts == {Cardinality(Above(m)) : m \in T}
<1>0. \A k \in T : k \in Nat
  OBVIOUS
<1>1. \A m \in T : IsFiniteSet(Above(m)) /\ Cardinality(Above(m)) \in Nat
  BY FS_Subset, FS_CardinalityType
<1>2. PICK c \in Counts : \A e \in Counts : c <= e
  <2>1. Counts \in SUBSET Nat /\ Counts # {}
    BY <1>1
  <2>2. QED
    BY <2>1, NatMin
<1>3. PICK m \in T : c = Cardinality(Above(m))
  BY <1>2
<1>4. ASSUME NEW k \in T, k > m PROVE FALSE
  <2>1. Above(k) \subseteq Above(m) /\ k \in Above(m) /\ k \notin Above(k)
    BY <1>0, <1>3, <1>4
  <2> HIDE DEF Above
  <2>2. Cardinality(Above(k)) <= Cardinality(Above(m)) /\ Cardinality(Above(k)) # Cardinality(Above(m))
    BY <2>1, <1>1, SubsetFacts
  <2>3. Cardinality(Above(m)) <= Cardinality(Above(k))
    BY <1>2, <1>3
  <2>4. QED
    BY <2>2, <2>3, <1>1
<1>5. QED
  BY <1>4

\* A quotient says in which cell of width w a number is.
LEMMA DivFacts ==
  ASSUME NEW a \in Nat, NEW w \in Nat \ {0}
  PROVE  a \div w \in Nat /\ (a \div w) * w <= a /\ a < (a \div w) * w + w
OBVIOUS

LEMMA ModFacts ==
  ASSUME NEW a \in Nat, NEW w \in Nat \ {0}
  PROVE  a % w \in 0..(w - 1)
OBVIOUS

LEMMA MulGap ==
  ASSUME NEW i \in Nat, NEW k \in Nat, i < k, NEW w \in Nat
  PROVE  i * w + w <= k * w
<1>1. PICK r \in Nat : k = i + 1 + r
  <2>1. k - i - 1 \in Nat /\ k = i + 1 + (k - i - 1)
    OBVIOUS
  <2>2. QED
    BY <2>1
<1>2. k * w = i * w + w + r * w /\ r * w \in Nat /\ i * w \in Nat
  BY <1>1
<1>3. QED
  BY <1>2

\* A number is in one cell of width w only.
LEMMA OneCell ==
  ASSUME NEW a \in Nat, NEW i \in Nat, NEW k \in Nat, NEW w \in Nat,
         i * w <= a, a < i * w + w, k * w <= a, a < k * w + w
  PROVE  i = k
<1>1. i * w \in Nat /\ k * w \in Nat
  OBVIOUS
<1>2. ~(i < k) /\ ~(k < i)
  BY MulGap, <1>1
<1>3. QED
  BY <1>2

LEMMA DivMono ==
  ASSUME NEW a \in Nat, NEW b \in Nat, a <= b, NEW w \in Nat \ {0}
  PROVE  a \div w <= b \div w
<1> DEFINE i == a \div w
           k == b \div w
<1>1. i \in Nat /\ k \in Nat /\ i * w <= a /\ b < k * w + w
  BY DivFacts
<1> HIDE DEF i, k
<1>2. k < i => k * w + w <= i * w
  BY <1>1, MulGap
<1>3. k * w \in Nat /\ i * w \in Nat
  BY <1>1
<1>4. QED
  BY <1>1, <1>2, <1>3 DEF i, k

LEMMA CeilFacts ==
  ASSUME NEW a \in Nat, NEW b \in Nat \ {0}
  PROVE  /\ ceil_div(a, b) \in Nat /\ a <= ceil_div(a, b) * b
         /\ a >= 1 => ceil_div(a, b) >= 1
<1> DEFINE c == (a + b - 1) \div b
<1>1. c \in Nat /\ a + b - 1 < c * b + b
  BY DivFacts
<1> HIDE DEF c
<1>2. c * b \in Nat
  BY <1>1
<1>3. c = 0 => c * b = 0
  BY <1>1
<1>4. QED
  BY <1>1, <1>2, <1>3 DEF c, ceil_div

\* The first n members of a set of keys: the smallest ones, all if there are no more.
LEMMA FirstFacts ==
  ASSUME NEW S \in SUBSET Nat, IsFiniteSet(S), NEW n \in Nat \ {0}
  PROVE  /\ first(n, S) \subseteq S /\ IsFiniteSet(first(n, S))
         /\ S # {} => first(n, S) # {}
         /\ \A k \in first(n, S), l \in S : l < k => l \in first(n, S)
         /\ Cardinality(first(n, S)) < n => first(n, S) = S
<1> DEFINE Below(k) == {l \in S : l < k}
           F == {k \in S : Cardinality(Below(k)) < n}
<1> HIDE DEF F, Below
<1>n. \A k \in S : k \in Nat
  OBVIOUS
<1>0. first(n, S) = F
  BY DEF first, F, Below
<1>1. \A k : IsFiniteSet(Below(k)) /\ Cardinality(Below(k)) \in Nat
  BY SubsetFacts DEF Below
<1>2. F \subseteq S /\ IsFiniteSet(F)
  BY SubsetFacts DEF F
<1>3. ASSUME S # {} PROVE F # {}
  <2>1. PICK m \in S : \A k \in S : m <= k
    BY <1>3, NatMin
  <2>2. \A l \in S : ~(l < m)
    BY <1>n, <2>1
  <2>3. Below(m) = {}
    BY <2>2 DEF Below
  <2>4. Cardinality(Below(m)) = 0
    BY <2>3, FS_EmptySet
  <2>5. QED
    BY <2>4 DEF F
<1>4. ASSUME NEW k \in F, NEW l \in S, l < k PROVE l \in F
  <2>1. \A i \in S : i < l => i < k
    BY <1>n, <1>2, <1>4
  <2>2. Below(l) \subseteq Below(k)
    BY <2>1 DEF Below
  <2>3. Cardinality(Below(l)) <= Cardinality(Below(k))
    BY <2>2, <1>1, SubsetFacts
  <2>4. QED
    BY <2>3, <1>1, <1>4 DEF F
<1>5. ASSUME Cardinality(F) < n, S \ F # {} PROVE FALSE
  <2>1. PICK m \in S \ F : \A k \in S \ F : m <= k
    BY <1>5, NatMin
  <2>2. \A l \in S : l < m => l \in F
    BY <1>n, <2>1
  <2>3. Below(m) \subseteq F
    BY <2>2 DEF Below
  <2>4. Cardinality(Below(m)) >= n
    BY <2>1, <1>1 DEF F
  <2>5. Cardinality(Below(m)) <= Cardinality(F) /\ Cardinality(F) \in Nat
    BY <2>3, <1>2, SubsetFacts
  <2>6. QED
    BY <2>4, <2>5, <1>1, <1>5
<1>6. QED
  BY <1>0, <1>2, <1>3, <1>4, <1>5

LEMMA MaxFacts ==
  ASSUME NEW T \in SUBSET Nat, T # {}, IsFiniteSet(T)
  PROVE  Max(T) \in T /\ \A k \in T : k <= Max(T)
<1>1. PICK m \in T : \A k \in T : k <= m
  BY NatMax
<1>2. Max(T) \in T /\ \A k \in T : Max(T) >= k
  BY <1>1 DEF Max
<1>3. QED
  BY <1>2

LEMMA MinFacts ==
  ASSUME NEW T \in SUBSET Nat, T # {}
  PROVE  Min(T) \in T /\ \A k \in T : Min(T) <= k
<1>1. PICK m \in T : \A k \in T : m <= k
  BY NatMin
<1>2. QED
  BY <1>1 DEF Min

----------------------------------------------------------------------------
(* What a job may ever read: for a document that is not shifted, fixed     *)
(* when the job is planned, whatever happens to the store.                 *)

Zone(j) ==
  CASE j.kind = "whole"  -> Docs
    [] j.kind = "window" -> _fetch_window(j)
    [] j.kind = "slice"  -> _fetch_slice(j)
    [] j.kind = "range"  -> {d \in Docs : _range_clause(key[d], j.after, j.upto)}
    [] j.kind = "past_missing" -> IF nulls THEN {d \in Docs : _range_clause(key[d], 0, 0)} ELSE {}
    [] j.kind = "page"   -> {d \in Docs : key[d] \in _composite_page(j.after)}
    [] j.kind = "ids"    -> {d \in Docs : key[d] \in j.lo..(j.hi - 1)}
    [] j.kind = "keys"   -> j.keys
    [] j.kind = "per_id" -> {input[p] : p \in j.ids}

Scanning == {"windows", "range", "slices"}

\* The kinds of jobs a way of splitting makes.
Makes ==
  {"windows", "range", "slices", "sql_whole"} \X {"whole"} \cup
  {<<"windows", "window">>, <<"range", "range">>, <<"range", "past_missing">>, <<"slices", "slice">>,
   <<"composite", "page">>, <<"sql", "ids">>, <<"s3", "keys">>,
   <<"ids", "per_id">>, <<"ids_params", "per_id">>, <<"ids_batch", "per_id">>}

ConfigType ==
  /\ mode \in AllModes /\ order \in {"asc", "desc"}
  /\ input \in Seq(Docs)
  /\ size \in Nat \ {0} /\ max_slices \in Nat \ {0} /\ page_size \in Nat \ {0}

SplitType ==
  /\ present \subseteq Docs /\ stable \subseteq present /\ pit \subseteq Docs
  /\ key \in [Docs -> Nat] /\ pit_key \in [Docs -> Nat]
  /\ mode = "s3" => \A d \in Docs : key[d] # 0
  /\ plan \in {"start", "open", "scan", "done", "failed"}
  /\ count \in Nat /\ seen \in Nat /\ token \in Nat /\ changes \in Nat
  /\ fetched \subseteq jobs

\* Only pages make jobs before the plan is done.
PlanShape ==
  /\ \A j \in jobs : <<mode, j.kind>> \in Makes
  /\ plan \in {"open", "scan", "failed"} => mode \in Scanning /\ jobs = {}
  /\ plan = "scan" => mode # "slices"
  /\ plan = "start" => jobs = {} \/ mode \in {"composite", "s3"}

ShapeInv == ConfigType /\ SplitType /\ PlanShape

LEMMA ShapeInit ==
  ASSUME SplitInit
  PROVE  ShapeInv
<1>1. ConfigType
  <2>1. <<>> \in Seq(Docs)
    OBVIOUS
  <2>2. input \in Seq(Docs)
    BY <2>1, IdListsAssumption DEF SplitInit
  <2>3. mode \in AllModes /\ order \in {"asc", "desc"}
    BY ModesAssumption DEF SplitInit
  <2>4. size \in Nat \ {0} /\ max_slices \in Nat \ {0} /\ page_size \in Nat \ {0}
    BY SizesAssumption DEF SplitInit
  <2>5. QED
    BY <2>2, <2>3, <2>4 DEF ConfigType
<1>2. key \in [Docs -> Nat]
  BY KeyMapsAssumption DEF SplitInit
<1>3. mode = "s3" => \A d \in Docs : key[d] # 0
  <2> SUFFICES ASSUME mode = "s3", NEW d \in Docs PROVE key[d] # 0
    OBVIOUS
  <2>1. key \in {k \in KeyMaps : IsInjective(k) /\ 0 \notin Range(k)}
    BY DEF SplitInit, IdModes
  <2>2. QED
    BY <1>2, <2>1 DEF Range
<1>4. SplitType /\ PlanShape
  BY <1>2, <1>3 DEF SplitInit, SplitType, PlanShape
<1>5. QED
  BY <1>1, <1>4 DEF ShapeInv

LEMMA DocsFinite == IsFiniteSet(Docs) /\ Cardinality(Docs) = N /\ Docs \subseteq Nat
BY NAssumption, FS_Interval DEF Docs

LEMMA KeysFacts ==
  ASSUME SplitType, NEW D, D \subseteq Docs
  PROVE  /\ Keys(D) \subseteq Nat /\ IsFiniteSet(Keys(D))
         /\ \A d \in D : key[d] \in Keys(D)
         /\ D # {} => Keys(D) # {}
<1> DEFINE f == [d \in D |-> key[d]]
<1>1. Keys(D) \subseteq Nat /\ \A d \in D : key[d] \in Keys(D)
  BY DEF Keys, SplitType
<1>2. IsFiniteSet(D)
  BY DocsFinite, SubsetFacts
<1>3. f \in Surjection(D, Keys(D))
  BY DEF Surjection, Keys
<1>4. IsFiniteSet(Keys(D))
  BY <1>2, <1>3, FS_Surjection
<1>5. QED
  BY <1>1, <1>4

\* What a step of the planner does to the plan; every other variable is its own.
LEMMA SplitSteps ==
  ASSUME SplitNext
  PROVE  \/ _count_documents \/ open_point_in_time \/ _scan_window_cursors
         \/ scan_raises \/ split \/ _split_composite \/ split_sql_whole \/ split_sql
         \/ split_s3 \/ split_ids
         \/ \E j \in jobs : fetch(j)
         \/ \E d \in Docs : insert(d) \/ delete(d)
         \/ \E d \in Docs, k \in NewKeys : update(d, k)
         \/ lose_pit
         \/ UNCHANGED split_vars
BY DEF SplitNext

LEMMA ConfigNext ==
  ASSUME [SplitNext]_split_vars
  PROVE  UNCHANGED config
<1>1. CASE UNCHANGED split_vars
  BY <1>1 DEF split_vars
<1>2. CASE SplitNext
  BY <1>2, SplitSteps DEF split_vars, _count_documents, open_point_in_time, _scan_window_cursors,
     scan_raises, split, _split_composite, split_sql_whole, split_sql, split_s3, split_ids,
     fetch, insert, delete, update, lose_pit, change
<1>3. QED
  BY <1>1, <1>2

LEMMA NumWindowsFacts ==
  ASSUME ConfigType, NEW c \in Nat
  PROVE  num_windows(c) \in Nat /\ (c >= 1 => num_windows(c) >= 1)
<1> DEFINE T == {ceil_div(c, size), max_slices}
<1>1. ceil_div(c, size) \in Nat /\ (c >= 1 => ceil_div(c, size) >= 1) /\ max_slices \in Nat \ {0}
  BY CeilFacts DEF ConfigType
<1>2. T \in SUBSET Nat /\ T # {}
  BY <1>1
<1>3. Min(T) \in T
  BY <1>2, MinFacts
<1>4. QED
  BY <1>1, <1>3 DEF num_windows

\* A page of buckets after a key: the next ones, the rest if there are fewer than size.
LEMMA PageFacts ==
  ASSUME ConfigType, SplitType, NEW a \in Nat
  PROVE  LET page == _composite_page(a)
         IN /\ \A k \in page : k \in Nat /\ k > a
            /\ \A k \in page, d \in present : key[d] > a /\ key[d] <= k => key[d] \in page
            /\ Cardinality(page) < size => \A d \in present : key[d] > a => key[d] \in page
            /\ page = {} => Cardinality(page) < size
            /\ page # {} => Max(page) \in page /\ \A k \in page : k <= Max(page)
<1> DEFINE S == {k \in Keys(present) : k > a}
           page == _composite_page(a)
<1>1. S \in SUBSET Nat /\ IsFiniteSet(S) /\ \A d \in present : key[d] > a => key[d] \in S
  BY KeysFacts, SubsetFacts DEF SplitType
<1>2. \A k \in S : k \in Nat /\ k > a
  BY <1>1
<1>3. page = first(size, S) /\ size \in Nat \ {0}
  BY DEF _composite_page, ConfigType
<1> HIDE DEF S, page
<1>4. /\ page \subseteq S /\ IsFiniteSet(page)
      /\ \A k \in page, l \in S : l < k => l \in page
      /\ Cardinality(page) < size => page = S
  BY <1>1, <1>3, FirstFacts
<1>5. page = {} => Cardinality(page) < size
  BY <1>3, FS_EmptySet
<1>6. page # {} => Max(page) \in page /\ \A k \in page : k <= Max(page)
  BY <1>1, <1>4, MaxFacts
<1>7. \A k \in page, d \in present : key[d] > a /\ key[d] <= k => key[d] \in page
  <2> SUFFICES ASSUME NEW k \in page, NEW d \in present, key[d] > a, key[d] <= k PROVE key[d] \in page
    OBVIOUS
  <2>1. key[d] \in S /\ key[d] \in Nat /\ k \in Nat
    BY <1>1, <1>2, <1>4
  <2>2. QED
    BY <1>4, <2>1
<1>8. QED
  BY <1>1, <1>2, <1>4, <1>5, <1>6, <1>7 DEF page

\* The keys a listing has left, and its next page.
Left == {d \in present : key[d] > token}
Listed == {d \in Left : key[d] \in first(size, Keys(Left))}

LEMMA ListedFacts ==
  ASSUME ConfigType, SplitType, Listed # Left
  PROVE  LET last == Max(Keys(Listed))
         IN /\ last \in Nat /\ last > token
            /\ \A d \in Listed : key[d] <= last
            /\ \A d \in Left : key[d] <= last => d \in Listed
<1> DEFINE F == first(size, Keys(Left))
           last == Max(Keys(Listed))
<1>1. Left \subseteq Docs /\ Listed \subseteq Docs /\ Left # {}
  BY DEF Left, Listed, SplitType
<1>2. /\ Keys(Left) \in SUBSET Nat /\ IsFiniteSet(Keys(Left)) /\ Keys(Left) # {}
      /\ \A d \in Left : key[d] \in Keys(Left)
  BY <1>1, KeysFacts
<1>3. F # {} /\ F \subseteq Keys(Left) /\ \A k \in F, l \in Keys(Left) : l < k => l \in F
  BY <1>2, FirstFacts DEF ConfigType
<1>4. Listed # {}
  BY <1>3 DEF Listed, Keys
<1>5. /\ Keys(Listed) \in SUBSET Nat /\ IsFiniteSet(Keys(Listed)) /\ Keys(Listed) # {}
      /\ \A d \in Listed : key[d] \in Keys(Listed)
  BY <1>1, <1>4, KeysFacts
<1>6. last \in Keys(Listed) /\ \A k \in Keys(Listed) : k <= last
  BY <1>5, MaxFacts
<1>7. last \in F
  BY <1>6 DEF Listed, Keys
<1>8. PICK e \in Listed : last = key[e]
  BY <1>6 DEF Keys
<1>9. last \in Nat /\ last > token
  BY <1>5, <1>6, <1>8 DEF Listed, Left
<1> HIDE DEF F, last
<1>10. ASSUME NEW d \in Left, key[d] <= last PROVE d \in Listed
  <2>1. key[d] \in Keys(Left) /\ key[d] \in Nat
    BY <1>2
  <2>2. key[d] \in F
    BY <1>3, <1>7, <1>9, <1>10, <2>1
  <2>3. QED
    BY <2>2 DEF Listed, F
<1>11. QED
  BY <1>5, <1>6, <1>9, <1>10 DEF last

LEMMA ShapeNext ==
  ASSUME ShapeInv, [SplitNext]_split_vars
  PROVE  ShapeInv'
<1> USE DEF ShapeInv
<1>0. ConfigType'
  BY ConfigNext DEF config, ConfigType
<1>c. mode' = mode
  BY ConfigNext DEF config
<1>p. \A D : D \subseteq Docs => Cardinality(D) \in Nat
  BY DocsFinite, SubsetFacts
<1>1. CASE UNCHANGED split_vars
  BY <1>1, <1>0 DEF split_vars, SplitType, PlanShape, store, results, snapshot, config
<1>2. CASE _count_documents
  <2>1. count' \in Nat
    BY <1>2, <1>p DEF _count_documents, SplitType
  <2>2. plan' \in {"done", "open"} /\ (plan' = "open" => jobs' = jobs) /\ jobs' \subseteq jobs \cup {whole}
        /\ jobs \subseteq jobs'
    BY <1>2 DEF _count_documents, planned
  <2>3. SplitType'
    BY <1>2, <2>1, <2>2 DEF _count_documents, store, results, snapshot, config, SplitType
  <2>4. jobs = {} /\ mode \in Scanning
    BY <1>2 DEF _count_documents, PlanShape, Scanning
  <2>5. PlanShape'
    BY <2>2, <2>4, <1>c DEF PlanShape, Makes, Scanning, whole
  <2>6. QED
    BY <1>0, <2>3, <2>5
<1>3. CASE open_point_in_time
  <2>1. plan' \in {"done", "scan"} /\ (plan' = "scan" => jobs' = jobs /\ mode # "slices") /\ mode \in Scanning /\ jobs = {}
    BY <1>3 DEF open_point_in_time, planned, PlanShape
  <2>2. \A j \in jobs' : mode = "slices" /\ j.kind = "slice"
    BY <1>3, <2>1 DEF open_point_in_time, planned
  <2>3. SplitType'
    BY <1>3, <2>1 DEF open_point_in_time, store, results, snapshot, config, SplitType
  <2>4. PlanShape'
    BY <2>1, <2>2, <1>c DEF PlanShape, Makes
  <2>5. QED
    BY <1>0, <2>3, <2>4
<1>4. CASE _scan_window_cursors
  <2>1. seen' \in Nat
    <3>1. seen + page_size \in Nat /\ Cardinality(pit) \in Nat
      BY <1>p DEF SplitType, ConfigType
    <3>2. {seen + page_size, Cardinality(pit)} \in SUBSET Nat
      BY <3>1
    <3>3. QED
      BY <1>4, <3>2, MinFacts DEF _scan_window_cursors
  <2>2. QED
    BY <1>4, <2>1, <1>0 DEF _scan_window_cursors, store, results, snapshot, config, SplitType, PlanShape
<1>5. CASE scan_raises
  BY <1>5, <1>0 DEF scan_raises, store, results, snapshot, config, SplitType, PlanShape
<1>6. CASE split
  <2>1. plan' = "done" /\ mode \in {"windows", "range"} /\ jobs = {}
    BY <1>6 DEF split, planned, PlanShape, Scanning
  <2>2. \A j \in jobs' : IF mode = "windows" THEN j.kind = "window" ELSE j.kind \in {"range", "past_missing"}
    BY <1>6, <2>1 DEF split, planned, _split_range_windows, past_missing
  <2>3. SplitType'
    BY <1>6, <2>1 DEF split, store, results, snapshot, config, SplitType
  <2>4. PlanShape'
    BY <2>1, <2>2, <1>c DEF PlanShape, Makes, Scanning
  <2>5. QED
    BY <1>0, <2>3, <2>4
<1>7. CASE _split_composite
  <2>1. jobs \subseteq jobs' /\ \A j \in jobs' : j \in jobs \/ j.kind = "page"
    BY <1>7 DEF _split_composite, yield
  <2>2. plan' \in {"start", "done"} /\ mode = "composite"
    BY <1>7 DEF _split_composite
  <2>3. token' \in Nat
    <3> DEFINE page == _composite_page(token)
    <3>1. token' = token \/ (token' = Max(page) /\ ~(Cardinality(page) < size))
      BY <1>7 DEF _split_composite
    <3>2. QED
      BY <3>1, PageFacts DEF SplitType
  <2>4. SplitType'
    BY <1>7, <2>1, <2>2, <2>3 DEF _split_composite, store, results, snapshot, config, SplitType
  <2>5. PlanShape'
    BY <2>1, <2>2, <1>c DEF PlanShape, Makes
  <2>6. QED
    BY <1>0, <2>4, <2>5
<1>8. CASE split_sql
  <2>1. plan' = "done" /\ jobs \subseteq jobs' /\ jobs = {} /\ mode = "sql"
    BY <1>8 DEF split_sql, planned, PlanShape
  <2>2. \A j \in jobs' : j.kind = "ids"
    BY <1>8, <2>1 DEF split_sql, planned
  <2>3. SplitType'
    BY <1>8, <2>1 DEF split_sql, store, results, snapshot, config, SplitType
  <2>4. PlanShape'
    BY <2>1, <2>2, <1>c DEF PlanShape, Makes
  <2>5. QED
    BY <1>0, <2>3, <2>4
<1>9. CASE split_s3
  <2>1. jobs \subseteq jobs' /\ \A j \in jobs' : j \in jobs \/ j.kind = "keys"
    BY <1>9 DEF split_s3, yield
  <2>2. plan' \in {"start", "done"} /\ mode = "s3"
    BY <1>9 DEF split_s3
  <2>3. token' \in Nat
    <3>1. token' = token \/ (token' = Max(Keys(Listed)) /\ Listed # Left)
      BY <1>9 DEF split_s3, Listed, Left
    <3>2. QED
      BY <3>1, ListedFacts DEF SplitType
  <2>4. SplitType'
    BY <1>9, <2>1, <2>2, <2>3 DEF split_s3, store, results, snapshot, config, SplitType
  <2>5. PlanShape'
    BY <2>1, <2>2, <1>c DEF PlanShape, Makes
  <2>6. QED
    BY <1>0, <2>4, <2>5
<1>10. CASE split_ids
  <2>1. plan' = "done" /\ jobs \subseteq jobs' /\ jobs = {} /\ mode \in IdModes
    BY <1>10 DEF split_ids, planned, PlanShape, IdModes
  <2>2. \A j \in jobs' : j.kind = "per_id"
    BY <1>10, <2>1 DEF split_ids, planned
  <2>3. SplitType'
    BY <1>10, <2>1 DEF split_ids, store, results, snapshot, config, SplitType
  <2>4. PlanShape'
    BY <2>1, <2>2, <1>c DEF PlanShape, Makes, IdModes
  <2>5. QED
    BY <1>0, <2>3, <2>4
<1>11. ASSUME NEW j \in jobs, fetch(j) PROVE ShapeInv'
  BY <1>11, <1>0 DEF fetch, store, results, snapshot, config, SplitType, PlanShape
<1>12. ASSUME NEW d \in Docs, insert(d) \/ delete(d) PROVE ShapeInv'
  BY <1>12, <1>0 DEF insert, delete, change, results, snapshot, config, SplitType, PlanShape
<1>13. CASE lose_pit
  BY <1>13, <1>0 DEF lose_pit, change, results, snapshot, config, SplitType, PlanShape
<1>14. ASSUME NEW d \in Docs, NEW k \in NewKeys, update(d, k) PROVE ShapeInv'
  <2>1. k \in Nat
    BY KeyMapsAssumption
  <2>2. key' = [key EXCEPT ![d] = k] /\ mode # "s3"
    BY <1>14 DEF update
  <2>3. key' \in [Docs -> Nat]
    BY <2>1, <2>2 DEF SplitType
  <2>4. QED
    BY <1>0, <1>c, <1>14, <2>2, <2>3 DEF update, change, results, snapshot, SplitType, PlanShape
<1>15. CASE split_sql_whole
  <2>1. plan' = "done" /\ jobs = {} /\ mode = "sql_whole" /\ jobs' \subseteq {whole}
    BY <1>15 DEF split_sql_whole, planned, PlanShape
  <2>2. SplitType'
    BY <1>15, <2>1 DEF split_sql_whole, store, results, snapshot, config, SplitType
  <2>3. PlanShape'
    BY <2>1, <1>c DEF PlanShape, Makes, whole
  <2>4. QED
    BY <1>0, <2>2, <2>3
<1>16. QED
  BY <1>1, <1>2, <1>3, <1>4, <1>5, <1>6, <1>7, <1>8, <1>9, <1>10, <1>11, <1>12, <1>13, <1>14, <1>15,
     SplitSteps

----------------------------------------------------------------------------
(* The parts are disjoint, cover what was there all the time, and are what *)
(* the jobs read.                                                          *)

Disjoint ==
  \A d \in Docs : ~shifted(d) /\ ~doubled(d) =>
      \A i, j \in jobs : d \in Zone(i) /\ d \in Zone(j) => i = j

Covered ==
  plan = "done" /\ ~(mode = "windows" /\ raced) =>
      \A d \in stable \cap target : ~shifted(d) /\ ~unkeyed(d) => \E j \in jobs : d \in Zone(j)

\* While pages are listed, everything up to the token is in one of them, and nothing beyond.
PagesInv ==
  plan = "start" /\ mode \in {"composite", "s3"} =>
      \A d \in Docs : ~shifted(d) =>
          /\ \A j \in jobs : d \in Zone(j) => key[d] <= token
          /\ d \in stable \cap target /\ key[d] # 0 /\ key[d] <= token => \E j \in jobs : d \in Zone(j)

ReadInv ==
  /\ \A x \in read : x[1] \in fetched /\ (x[2] \in Docs /\ ~shifted(x[2]) => x[2] \in Zone(x[1]))
  /\ \A j \in fetched : \A d \in stable \cap Zone(j) : ~shifted(d) => <<j, d>> \in read

PartsInv == Disjoint /\ Covered /\ PagesInv /\ ReadInv

\* Until the scan is over: the count, the snapshot and the cursors found so far.
ScanInv ==
  /\ plan = "start" => seen = 0
  /\ plan \in {"open", "scan"} => count >= 1
  /\ plan = "open" => seen = 0
  /\ plan = "open" /\ ~raced => count = Cardinality(present)
  /\ plan = "scan" => stable \subseteq pit /\ cursors = cursors_to(seen) /\ seen <= Cardinality(pit)
  /\ plan = "scan" /\ ~raced => count = Cardinality(pit)

LEMMA PartsInit ==
  ASSUME SplitInit
  PROVE  PartsInv /\ ScanInv
<1>1. Disjoint /\ Covered /\ ReadInv /\ ScanInv
  BY DEF SplitInit, Disjoint, Covered, ReadInv, ScanInv
<1>2. \A d \in stable : key[d] \in Nat
  BY ShapeInit DEF ShapeInv, SplitType
<1>3. PagesInv
  BY <1>2 DEF SplitInit, PagesInv
<1>4. QED
  BY <1>1, <1>3 DEF PartsInv

\* A document that is not shifted stays in its part.
LEMMA ZoneFrame ==
  ASSUME UNCHANGED config, UNCHANGED snapshot, NEW j, <<mode, j.kind>> \in Makes, NEW d \in Docs, ~shifted(d)',
         mode = "composite" => changes' > 0 \/ (present' = present /\ key' = key),
         mode \in {"range", "sql"} => d \in moved' \/ key'[d] = key[d]
  PROVE  d \in Zone(j)' <=> d \in Zone(j)
<1>1. UNCHANGED <<mode, order, nulls, size, input, pit, pit_key>>
  BY DEF config, snapshot
<1>2. CASE mode = "composite"
  <2>1. present' = present /\ key' = key /\ j.kind = "page"
    BY <1>1, <1>2 DEF Makes, shifted
  <2>2. _composite_page(j.after)' = _composite_page(j.after)
    BY <1>1, <2>1 DEF _composite_page, first, Keys
  <2>3. QED
    BY <1>1, <2>1, <2>2 DEF Zone, Docs
<1>3. CASE j.kind = "window"
  BY <1>1, <1>3 DEF Zone, _fetch_window, pos, before, precedes
<1>4. CASE j.kind = "slice"
  BY <1>1, <1>4 DEF Zone, _fetch_slice
<1>5. CASE j.kind \in {"range", "past_missing", "ids"}
  <2>1. key'[d] = key[d]
    BY <1>1, <1>5 DEF Makes, shifted
  <2>2. CASE j.kind = "range"
    BY <1>1, <2>1, <2>2 DEF Zone, _range_clause, precedes, Docs
  <2>3. CASE j.kind = "past_missing"
    BY <1>1, <2>1, <2>3 DEF Zone, _range_clause, precedes, Docs
  <2>4. CASE j.kind = "ids"
    BY <1>1, <2>1, <2>4 DEF Zone, Docs
  <2>5. QED
    BY <1>5, <2>2, <2>3, <2>4
<1>6. CASE j.kind \in {"whole", "keys", "per_id"}
  BY <1>1, <1>6 DEF Zone, Docs
<1>7. QED
  BY <1>2, <1>3, <1>4, <1>5, <1>6 DEF Makes

LEMMA PlanFrame ==
  ASSUME UNCHANGED config
  PROVE  /\ mode' = mode /\ target' = target /\ Docs' = Docs
         /\ jobs' = jobs => \A d : doubled(d)' = doubled(d)
         /\ UNCHANGED store => \A d : shifted(d)' = shifted(d) /\ unkeyed(d)' = unkeyed(d)
<1>1. UNCHANGED <<mode, order, nulls, size, max_slices, page_size, input>> /\ Docs' = Docs
  BY DEF config, Docs
<1>2. mode' = mode /\ target' = target
  BY <1>1 DEF target
<1>3. batches' = batches
  BY <1>1 DEF batches, chunk
<1>4. ASSUME jobs' = jobs, NEW d PROVE doubled(d)' = doubled(d)
  BY <1>1, <1>3, <1>4 DEF doubled, past_missing
<1>5. ASSUME UNCHANGED store, NEW d PROVE shifted(d)' = shifted(d) /\ unkeyed(d)' = unkeyed(d)
  BY <1>1, <1>5 DEF shifted, unkeyed, store
<1>6. QED
  BY <1>1, <1>2, <1>4, <1>5

\* A step that plans nothing and fetches nothing.
LEMMA PartsQuiet ==
  ASSUME ShapeInv, PartsInv, UNCHANGED config, UNCHANGED <<jobs, read, fetched, token>>,
         jobs = {} \/ UNCHANGED snapshot,
         stable' \subseteq stable, raced => raced', \A d \in Docs : shifted(d) => shifted(d)',
         mode = "composite" => changes' > 0 \/ (present' = present /\ key' = key),
         mode \in {"range", "sql"} /\ plan = "done" => \A d \in Docs : d \in moved' \/ key'[d] = key[d],
         mode = "s3" => key' = key,
         plan' \in {"start", "done"} => plan' = plan
  PROVE  PartsInv'
<1>1. mode' = mode /\ target' = target /\ Docs' = Docs /\ \A d : doubled(d)' = doubled(d)
  BY PlanFrame
<1>2. ASSUME NEW d \in Docs, ~shifted(d)', NEW j \in jobs PROVE d \in Zone(j)' <=> d \in Zone(j)
  <2>1. <<mode, j.kind>> \in Makes /\ (mode \in {"range", "sql"} => plan = "done")
    BY DEF ShapeInv, PlanShape, SplitType
  <2>2. mode \in {"range", "sql"} => d \in moved' \/ key'[d] = key[d]
    BY <2>1
  <2>3. QED
    BY <1>2, <2>1, <2>2, ZoneFrame
<1>3. Disjoint'
  BY <1>1, <1>2 DEF PartsInv, Disjoint
<1>4. stable \subseteq Docs /\ fetched \subseteq jobs
  BY DEF ShapeInv, SplitType
<1>5. ASSUME plan = "done", NEW d \in Docs, ~shifted(d)', ~unkeyed(d)' PROVE ~unkeyed(d)
  BY <1>1, <1>5 DEF unkeyed, shifted
<1>6. Covered'
  BY <1>1, <1>2, <1>4, <1>5 DEF PartsInv, Covered
<1>7. PagesInv'
  <2> SUFFICES ASSUME plan' = "start", mode \in {"composite", "s3"}, NEW d \in Docs, ~shifted(d)'
               PROVE  /\ \A j \in jobs : d \in Zone(j)' => key'[d] <= token
                      /\ d \in stable' \cap target /\ key'[d] # 0 /\ key'[d] <= token
                            => \E j \in jobs : d \in Zone(j)'
    BY <1>1 DEF PagesInv
  <2>1. key' = key /\ plan = "start" /\ ~shifted(d)
    BY <1>1 DEF shifted
  <2>2. QED
    BY <1>2, <2>1 DEF PartsInv, PagesInv
<1>8. ReadInv'
  BY <1>1, <1>2, <1>4 DEF PartsInv, ReadInv
<1>9. QED
  BY <1>3, <1>6, <1>7, <1>8 DEF PartsInv

\* A plan that is made at once: what its jobs have to be.
LEMMA PartsPlanned ==
  ASSUME ShapeInv, PartsInv, UNCHANGED config, UNCHANGED store, UNCHANGED results,
         jobs = {}, plan' = "done",
         \A d \in Docs : ~doubled(d)' => \A i, j \in jobs' : d \in Zone(i)' /\ d \in Zone(j)' => i = j,
         ~(mode = "windows" /\ raced) =>
            \A d \in stable \cap target : ~unkeyed(d) => \E j \in jobs' : d \in Zone(j)'
  PROVE  PartsInv'
<1>1. /\ mode' = mode /\ target' = target /\ Docs' = Docs
      /\ \A d : shifted(d)' = shifted(d) /\ unkeyed(d)' = unkeyed(d)
  BY PlanFrame
<1>2. UNCHANGED <<read, fetched, stable, raced>>
  BY DEF store, results
<1>3. Disjoint' /\ Covered' /\ PagesInv'
  BY <1>1, <1>2 DEF Disjoint, Covered, PagesInv
<1>4. ReadInv'
  BY <1>1, <1>2 DEF PartsInv, ReadInv, ShapeInv, SplitType
<1>5. QED
  BY <1>3, <1>4 DEF PartsInv

----------------------------------------------------------------------------
(* The parts each way of splitting makes. *)

LEMMA PositionFacts ==
  ASSUME SplitType, NEW D, D \subseteq Docs, NEW d \in D
  PROVE  pos(d, D) \in 1..Cardinality(D)
<1> DEFINE E == {e \in D : before(e, d)}
<1>1. IsFiniteSet(D)
  BY DocsFinite, SubsetFacts
<1>2. ~before(d, d)
  BY DocsFinite DEF before, precedes, SplitType
<1>3. E \subseteq D /\ d \notin E
  BY <1>2
<1> HIDE DEF E
<1>4. Cardinality(E) \in Nat /\ Cardinality(D) \in Nat /\ Cardinality(E) <= Cardinality(D) /\ Cardinality(E) # Cardinality(D)
  BY <1>1, <1>3, SubsetFacts
<1>5. pos(d, D) = Cardinality(E) + 1
  BY DEF pos, E
<1>6. QED
  BY <1>4, <1>5

LEMMA PartsWhole ==
  ASSUME ShapeInv, PartsInv, _count_documents
  PROVE  PartsInv'
<1>1. mode \in Scanning /\ jobs = {} /\ mode \notin {"composite", "s3"} /\ plan = "start"
  BY DEF _count_documents, ShapeInv, PlanShape, Scanning
<1>2. UNCHANGED config /\ UNCHANGED store /\ UNCHANGED results /\ UNCHANGED token
  BY DEF _count_documents
<1>3. CASE plan' = "open"
  <2>1. jobs' = jobs /\ UNCHANGED <<read, fetched, stable, raced>>
    BY <1>2, <1>3 DEF _count_documents, planned, store, results
  <2>2. \A d \in Docs : shifted(d) => shifted(d)'
    BY <1>2, PlanFrame
  <2>3. QED
    BY <1>1, <1>2, <1>3, <2>1, <2>2, PartsQuiet
<1>4. CASE plan' = "done" /\ jobs' = {} /\ count' = 0
  <2>1. present = {}
    <3>1. Cardinality(present) = 0 /\ IsFiniteSet(present)
      BY <1>4, DocsFinite, SubsetFacts DEF _count_documents, ShapeInv, SplitType
    <3>2. QED
      BY <3>1, FS_EmptySet
  <2>2. stable = {}
    BY <2>1 DEF ShapeInv, SplitType
  <2>3. QED
    BY <1>1, <1>2, <1>4, <2>2, PartsPlanned
<1>5. CASE plan' = "done" /\ jobs' = {whole}
  <2>1. Zone(whole)' = Docs
    BY DEF Zone, whole, Docs
  <2>2. stable \subseteq Docs
    BY DEF ShapeInv, SplitType
  <2>3. QED
    BY <1>1, <1>2, <1>5, <2>1, <2>2, PartsPlanned
<1>6. QED
  BY <1>1, <1>3, <1>4, <1>5 DEF _count_documents, planned

LEMMA PartsSlices ==
  ASSUME ShapeInv, PartsInv, open_point_in_time
  PROVE  PartsInv'
<1>1. jobs = {} /\ mode \notin {"composite", "s3"} /\ plan = "open"
  BY DEF open_point_in_time, ShapeInv, PlanShape, Scanning
<1>2. UNCHANGED config /\ UNCHANGED store /\ UNCHANGED results /\ UNCHANGED token /\ pit' = present
  BY DEF open_point_in_time
<1>3. CASE mode # "slices"
  <2>1. jobs' = jobs /\ plan' = "scan" /\ UNCHANGED <<read, fetched, stable, raced>>
    BY <1>2, <1>3 DEF open_point_in_time, store, results
  <2>2. \A d \in Docs : shifted(d) => shifted(d)'
    BY <1>2, PlanFrame
  <2>3. QED
    BY <1>1, <1>2, <2>1, <2>2, PartsQuiet
<1>4. CASE mode = "slices"
  <2>1. jobs' = {[kind |-> "slice", id |-> i] : i \in 0..(size - 1)} /\ plan' = "done"
    BY <1>1, <1>4 DEF open_point_in_time, planned
  <2>2. ASSUME NEW i \in 0..(size - 1), NEW j, j = [kind |-> "slice", id |-> i]
        PROVE  Zone(j)' = {d \in present : d % size = i}
    BY <2>2, <1>2 DEF Zone, _fetch_slice, config
  <2>3. ASSUME NEW d, NEW i \in jobs', NEW j \in jobs', d \in Zone(i)', d \in Zone(j)' PROVE i = j
    <3>1. PICK a \in 0..(size - 1) : i = [kind |-> "slice", id |-> a]
      BY <2>1
    <3>2. PICK b \in 0..(size - 1) : j = [kind |-> "slice", id |-> b]
      BY <2>1
    <3>3. d % size = a /\ d % size = b
      BY <2>2, <2>3, <3>1, <3>2
    <3>4. QED
      BY <3>1, <3>2, <3>3
  <2>4. ASSUME NEW d \in stable PROVE \E j \in jobs' : d \in Zone(j)'
    <3>1. d \in Nat /\ d \in present /\ size \in Nat \ {0}
      BY DocsFinite DEF ShapeInv, SplitType, ConfigType
    <3>2. d % size \in 0..(size - 1)
      BY <3>1, ModFacts
    <3>3. PICK j \in jobs' : j = [kind |-> "slice", id |-> d % size]
      BY <2>1, <3>2
    <3>4. Zone(j)' = {e \in present : e % size = d % size}
      BY <2>2, <3>2, <3>3
    <3>5. QED
      BY <3>1, <3>3, <3>4
  <2>5. QED
    BY <1>1, <1>2, <2>1, <2>3, <2>4, PartsPlanned
<1>5. QED
  BY <1>3, <1>4

\* A window's width covers its share of the count.
LEMMA WindowSizeFacts ==
  ASSUME ConfigType, count \in Nat, count >= 1
  PROVE  LET nw == num_windows(count)
             ws == window_size
         IN nw \in Nat \ {0} /\ ws \in Nat \ {0} /\ count <= ws * nw
<1>1. num_windows(count) \in Nat \ {0}
  BY NumWindowsFacts
<1>2. QED
  BY <1>1, CeilFacts DEF window_size

\* When the scan is over, every position of the snapshot has its cursor, if nothing raced.
LEMMA CursorsFound ==
  ASSUME ShapeInv, ScanInv, plan = "scan", scanned, ~raced,
         NEW p \in 1..Cardinality(pit)
  PROVE  \E c \in cursors : p \in (c + 1)..(c + window_size)
<1> DEFINE nw == num_windows(count)
           ws == window_size
           G == {k * ws : k \in 0..(nw - 1)}
           i == (p - 1) \div ws
<1>1. nw \in Nat \ {0} /\ ws \in Nat \ {0} /\ count <= ws * nw /\ count = Cardinality(pit)
  BY WindowSizeFacts DEF ShapeInv, SplitType, ScanInv
<1>2. cursors = G \cap 0..seen /\ (Cardinality(cursors) = nw \/ seen = count)
  BY <1>1 DEF ScanInv, cursors_to, scanned
<1>3. p \in Nat /\ 1 <= p /\ p <= count /\ p - 1 \in Nat /\ count \in Nat
  BY <1>1 DEF ShapeInv, SplitType
<1> HIDE DEF nw, ws
<1>4. i \in Nat /\ i * ws <= p - 1 /\ p - 1 < i * ws + ws
  BY <1>1, <1>3, DivFacts
<1> HIDE DEF i
<1>5. i < nw
  <2>1. SUFFICES ASSUME nw <= i PROVE FALSE
    BY <1>1, <1>4
  <2>2. nw * ws <= i * ws
    <3>1. nw < i => nw * ws + ws <= i * ws
      BY <1>1, <1>4, MulGap
    <3>2. nw * ws \in Nat /\ i * ws \in Nat
      BY <1>1, <1>4
    <3>3. QED
      BY <1>1, <1>4, <2>1, <3>1, <3>2
  <2>3. count <= nw * ws /\ nw * ws \in Nat /\ i * ws \in Nat
    BY <1>1, <1>4
  <2>4. QED
    BY <1>3, <1>4, <2>2, <2>3
<1>6. i * ws \in G /\ i * ws \in Nat
  BY <1>1, <1>4, <1>5
<1>7. CASE seen = count
  <2>1. i * ws \in cursors
    BY <1>2, <1>3, <1>4, <1>6, <1>7 DEF ShapeInv, SplitType
  <2>2. QED
    BY <1>1, <1>3, <1>4, <1>6, <2>1 DEF ws
<1>8. CASE Cardinality(cursors) = nw
  <2> DEFINE f == [k \in 0..(nw - 1) |-> k * ws]
  <2>1. IsFiniteSet(0..(nw - 1)) /\ Cardinality(0..(nw - 1)) = nw
    BY <1>1, FS_Interval
  <2>2. f \in Surjection(0..(nw - 1), G)
    BY DEF Surjection
  <2> HIDE DEF f, G
  <2>3. IsFiniteSet(G) /\ Cardinality(G) <= nw
    BY <2>1, <2>2, FS_Surjection
  <2>4. cursors \subseteq G
    BY <1>2
  <2>5. cursors = G
    BY <1>1, <1>8, <2>3, <2>4, SubsetFacts
  <2>6. QED
    BY <1>1, <1>3, <1>4, <1>6, <2>5 DEF ws
<1>9. QED
  BY <1>2, <1>7, <1>8

LEMMA PartsWindows ==
  ASSUME ShapeInv, PartsInv, ScanInv, split, mode = "windows"
  PROVE  PartsInv'
<1> DEFINE ws == window_size
           job(c) == [kind |-> "window", search_after |-> c, size |-> ws]
<1>1. jobs = {} /\ plan' = "done" /\ jobs' = {job(c) : c \in cursors} /\ plan = "scan" /\ scanned
  BY DEF split, planned, ShapeInv, PlanShape
<1>2. UNCHANGED config /\ UNCHANGED store /\ UNCHANGED results /\ UNCHANGED <<pit, pit_key>>
  BY DEF split, snapshot
<1>3. ws \in Nat \ {0} /\ \A c \in cursors : \E k \in Nat : c = k * ws
  <2>1. count \in Nat /\ count >= 1 /\ cursors = cursors_to(seen)
    BY <1>1 DEF ShapeInv, SplitType, ScanInv
  <2>2. ws \in Nat \ {0} /\ num_windows(count) \in Nat \ {0}
    BY <2>1, WindowSizeFacts DEF ShapeInv
  <2>3. QED
    BY <2>1, <2>2 DEF cursors_to
<1> HIDE DEF ws
<1>4. ASSUME NEW c, NEW j, j = job(c)
      PROVE  Zone(j)' = {d \in pit : pos(d, pit) \in (c + 1)..(c + ws)}
  <2>1. \A d : pos(d, pit)' = pos(d, pit)
    BY <1>2 DEF pos, before, precedes, config
  <2>2. j.kind = "window" /\ j.search_after = c /\ j.size = ws
    BY <1>4
  <2>3. QED
    BY <1>2, <2>1, <2>2 DEF Zone, _fetch_window
<1>5. ASSUME NEW b \in cursors, NEW c \in cursors, NEW p \in Nat, p \in (b + 1)..(b + ws), p \in (c + 1)..(c + ws)
      PROVE  b = c
  <2>1. PICK i \in Nat : b = i * ws
    BY <1>3
  <2>2. PICK k \in Nat : c = k * ws
    BY <1>3
  <2>3. i * ws \in Nat /\ k * ws \in Nat
    BY <1>3
  <2>4. p - 1 \in Nat /\ i * ws <= p - 1 /\ p - 1 < i * ws + ws /\ k * ws <= p - 1 /\ p - 1 < k * ws + ws
    BY <1>3, <1>5, <2>1, <2>2, <2>3
  <2>5. QED
    BY <1>3, <2>1, <2>2, <2>4, OneCell
<1>6. \A d \in pit : pos(d, pit) \in 1..Cardinality(pit) /\ pos(d, pit) \in Nat
  <2>1. Cardinality(pit) \in Nat
    BY DocsFinite, SubsetFacts DEF ShapeInv, SplitType
  <2>2. QED
    BY <2>1, PositionFacts DEF ShapeInv, SplitType
<1>7. ASSUME NEW d, NEW i \in jobs', NEW j \in jobs', d \in Zone(i)', d \in Zone(j)' PROVE i = j
  <2>1. PICK b \in cursors : i = job(b)
    BY <1>1
  <2>2. PICK c \in cursors : j = job(c)
    BY <1>1
  <2>3. /\ Zone(i)' = {e \in pit : pos(e, pit) \in (b + 1)..(b + ws)}
        /\ Zone(j)' = {e \in pit : pos(e, pit) \in (c + 1)..(c + ws)}
    BY <1>4, <2>1, <2>2
  <2>4. b = c
    BY <1>5, <1>6, <1>7, <2>3
  <2>5. QED
    BY <2>1, <2>2, <2>4
<1>8. ASSUME ~raced, NEW d \in stable PROVE \E j \in jobs' : d \in Zone(j)'
  <2>1. d \in pit
    BY <1>1 DEF ScanInv
  <2>2. PICK c \in cursors : pos(d, pit) \in (c + 1)..(c + ws)
    BY <1>1, <1>6, <1>8, <2>1, CursorsFound DEF ws
  <2>3. PICK j \in jobs' : j = job(c)
    BY <1>1
  <2>4. Zone(j)' = {e \in pit : pos(e, pit) \in (c + 1)..(c + ws)}
    BY <1>4, <2>3
  <2>5. QED
    BY <2>1, <2>2, <2>4
<1>9. QED
  BY <1>1, <1>2, <1>7, <1>8, PartsPlanned

\* The first and the last of a set of keys in the sort order.
LEMMA OrderFacts ==
  ASSUME ConfigType, NEW T \in SUBSET (Nat \ {0}), T # {}, IsFiniteSet(T)
  PROVE  /\ \E b \in T : \A c \in T : ~precedes(c, b)
         /\ \E b \in T : \A c \in T : ~precedes(b, c)
<1>0. T \in SUBSET Nat
  OBVIOUS
<1>1. \A k \in T : k \in Nat /\ k # 0
  OBVIOUS
<1>2. PICK lo \in T : \A k \in T : lo <= k
  BY <1>0, NatMin
<1>3. PICK hi \in T : \A k \in T : k <= hi
  BY <1>0, NatMax
<1>4. \A c \in T : ~(c < lo) /\ ~(hi < c) /\ ~(lo > c) /\ ~(c > hi)
  BY <1>1, <1>2, <1>3
<1>5. CASE order = "asc"
  BY <1>1, <1>4, <1>5 DEF precedes
<1>6. CASE order = "desc"
  BY <1>1, <1>4, <1>6 DEF precedes
<1>7. QED
  BY <1>5, <1>6 DEF ConfigType

LEMMA PrecedesFacts ==
  ASSUME ConfigType
  PROVE  /\ \A a, b, c \in Nat : precedes(a, b) /\ precedes(b, c) => precedes(a, c)
         /\ \A a, b \in Nat : a = b \/ precedes(a, b) \/ precedes(b, a)
         /\ \A a, b \in Nat : ~(precedes(a, b) /\ precedes(b, a))
BY DEF precedes, ConfigType

LEMMA BoundaryFacts ==
  ASSUME SplitType
  PROVE  boundaries \in SUBSET (Nat \ {0}) /\ IsFiniteSet(boundaries)
<1> DEFINE D == {e \in pit : pos(e, pit) \in cursors}
           f == [d \in D |-> pit_key[d]]
<1>1. D \subseteq Docs /\ cursor_keys = {pit_key[d] : d \in D}
  BY DEF SplitType, cursor_keys
<1>2. IsFiniteSet(D)
  BY <1>1, DocsFinite, SubsetFacts
<1> HIDE DEF D
<1>3. cursor_keys \subseteq Nat
  BY <1>1 DEF SplitType
<1>4. f \in Surjection(D, cursor_keys)
  BY <1>1 DEF Surjection
<1>5. IsFiniteSet(cursor_keys)
  BY <1>2, <1>4, FS_Surjection
<1>6. QED
  BY <1>3, <1>5, SubsetFacts DEF boundaries

\* Neighbouring boundaries: the window after a ends at the next boundary.
LEMMA NextBoundary ==
  ASSUME ShapeInv, NEW a \in boundaries \cup {0}
  PROVE  LET b == CHOOSE b \in boundaries \cup {0} : follows(a, b)
         IN b \in boundaries \cup {0} /\ follows(a, b)
<1> DEFINE B == boundaries
           later == {c \in B : a = 0 \/ precedes(a, c)}
<1>1. B \in SUBSET (Nat \ {0}) /\ IsFiniteSet(B)
  BY BoundaryFacts DEF ShapeInv
<1>2. later \in SUBSET (Nat \ {0}) /\ IsFiniteSet(later)
  BY <1>1, SubsetFacts
<1>3. \E b \in B \cup {0} : follows(a, b)
  <2>1. CASE later = {}
    BY <2>1 DEF follows
  <2>2. CASE later # {}
    <3>1. PICK b \in later : \A c \in later : ~precedes(c, b)
      BY <1>2, <2>2, OrderFacts DEF ShapeInv
    <3>2. follows(a, b) /\ b \in B
      BY <2>2, <3>1 DEF follows
    <3>3. QED
      BY <3>2
  <2>3. QED
    BY <2>1, <2>2
<1>4. QED
  BY <1>3

LEMMA PartsRanges ==
  ASSUME ShapeInv, PartsInv, split, mode = "range"
  PROVE  PartsInv'
<1> DEFINE B == boundaries
           upto(a) == CHOOSE b \in B \cup {0} : follows(a, b)
           job(a) == [kind |-> "range", after |-> a, upto |-> upto(a)]
<1>1. /\ jobs = {} /\ plan' = "done"
      /\ {job(a) : a \in B \cup {0}} \subseteq jobs'
      /\ jobs' \subseteq {job(a) : a \in B \cup {0}} \cup {past_missing}
  BY DEF split, planned, _split_range_windows, ShapeInv, PlanShape
<1>2. UNCHANGED config /\ UNCHANGED store /\ UNCHANGED results /\ key' = key
  BY DEF split, store
<1>3. \A a \in B \cup {0} : upto(a) \in B \cup {0} /\ follows(a, upto(a))
  BY NextBoundary
<1>4. B \subseteq Nat \ {0} /\ IsFiniteSet(B)
  BY BoundaryFacts DEF ShapeInv
<1> HIDE DEF upto, B
<1>5. ASSUME NEW a \in B \cup {0}, NEW j, j = job(a)
      PROVE  Zone(j)' = {d \in Docs : _range_clause(key[d], a, upto(a))}
  <2>1. j.kind = "range" /\ j.after = a /\ j.upto = upto(a)
    BY <1>5
  <2>2. QED
    BY <1>2, <2>1 DEF Zone, config, _range_clause, precedes, Docs
<1>6. ASSUME NEW a \in B \cup {0}, NEW b \in B \cup {0}, NEW k \in Nat \ {0}, b # 0, a = 0 \/ precedes(a, b),
             _range_clause(k, a, upto(a)), _range_clause(k, b, upto(b))
      PROVE  FALSE
  <2>1. b \in B /\ precedes(b, k)
    BY <1>6 DEF _range_clause
  <2>2. upto(a) \in B /\ ~precedes(b, upto(a))
    BY <1>3, <1>6, <2>1 DEF follows, B
  <2>3. ~precedes(upto(a), k) /\ upto(a) \in Nat /\ b \in Nat
    BY <1>4, <1>6, <2>1, <2>2 DEF _range_clause
  <2>4. QED
    BY <2>1, <2>2, <2>3, PrecedesFacts DEF ShapeInv
<1>7. ASSUME NEW d \in Docs, ~doubled(d)', NEW i \in jobs', NEW j \in jobs', d \in Zone(i)', d \in Zone(j)'
      PROVE  i = j
  <2>1. i # past_missing /\ j # past_missing
    <3> SUFFICES ASSUME past_missing \in jobs', d \in Zone(past_missing)' PROVE FALSE
      BY <1>7
    <3>1. nulls'
      BY DEF Zone, past_missing
    <3>2. QED
      BY <1>7, <3>1 DEF doubled, past_missing
  <2>2. PICK a \in B \cup {0} : i = job(a)
    BY <1>1, <2>1
  <2>3. PICK b \in B \cup {0} : j = job(b)
    BY <1>1, <2>1
  <2>4. _range_clause(key[d], a, upto(a)) /\ _range_clause(key[d], b, upto(b))
    BY <1>5, <1>7, <2>2, <2>3
  <2>5. a \in Nat /\ b \in Nat
    BY <1>4
  <2>6. a = b \/ (b # 0 /\ (a = 0 \/ precedes(a, b))) \/ (a # 0 /\ (b = 0 \/ precedes(b, a)))
    BY <2>5, PrecedesFacts DEF ShapeInv
  <2>7. key[d] \in Nat \ {0}
    BY <2>4 DEF ShapeInv, SplitType, _range_clause
  <2>8. a = b
    BY <1>6, <2>4, <2>6, <2>7
  <2>9. QED
    BY <2>2, <2>3, <2>8
<1>8. ASSUME NEW d \in stable, ~unkeyed(d) PROVE \E j \in jobs' : d \in Zone(j)'
  <2> DEFINE A == {a \in B : precedes(a, key[d])}
  <2>1. d \in Docs /\ key[d] \in Nat \ {0}
    BY <1>8 DEF ShapeInv, SplitType, unkeyed
  <2>2. A \in SUBSET (Nat \ {0}) /\ IsFiniteSet(A)
    BY <1>4, SubsetFacts
  <2>3. PICK a \in B \cup {0} : /\ a = 0 \/ precedes(a, key[d])
                                /\ \A c \in A : a # 0 /\ ~precedes(a, c)
    <3>1. CASE A = {}
      BY <3>1
    <3>2. CASE A # {}
      <4>1. PICK a \in A : \A c \in A : ~precedes(a, c)
        BY <2>2, <3>2, OrderFacts DEF ShapeInv
      <4>2. a \in B /\ a # 0 /\ precedes(a, key[d])
        BY <1>4, <4>1
      <4>3. QED
        BY <4>1, <4>2
    <3>3. QED
      BY <3>1, <3>2
  <2>4. upto(a) = 0 \/ ~precedes(upto(a), key[d])
    <3> SUFFICES ASSUME upto(a) # 0, precedes(upto(a), key[d]) PROVE FALSE
      OBVIOUS
    <3>1. upto(a) \in B /\ (a = 0 \/ precedes(a, upto(a)))
      BY <1>3, <2>3 DEF follows, B
    <3>2. upto(a) \in A
      BY <3>1
    <3>3. QED
      BY <2>3, <3>1, <3>2
  <2>5. _range_clause(key[d], a, upto(a))
    BY <2>1, <2>3, <2>4 DEF _range_clause
  <2>6. PICK j \in jobs' : j = job(a)
    BY <1>1
  <2>7. Zone(j)' = {e \in Docs : _range_clause(key[e], a, upto(a))}
    BY <1>5, <2>6
  <2>8. QED
    BY <2>1, <2>5, <2>7
<1>9. QED
  BY <1>1, <1>2, <1>7, <1>8, PartsPlanned

LEMMA PartsSqlWhole ==
  ASSUME ShapeInv, PartsInv, split_sql_whole
  PROVE  PartsInv'
<1>1. jobs = {} /\ plan' = "done" /\ jobs' = IF present = {} THEN {} ELSE {whole}
  BY DEF split_sql_whole, planned, ShapeInv, PlanShape
<1>2. UNCHANGED config /\ UNCHANGED store /\ UNCHANGED results
  BY DEF split_sql_whole
<1>3. Zone(whole)' = Docs /\ stable \subseteq Docs /\ stable \subseteq present
  BY DEF Zone, whole, Docs, ShapeInv, SplitType
<1>4. \A d \in stable : \E j \in jobs' : d \in Zone(j)'
  BY <1>1, <1>3
<1>5. QED
  BY <1>1, <1>2, <1>4, PartsPlanned

LEMMA PartsSql ==
  ASSUME ShapeInv, PartsInv, split_sql
  PROVE  PartsInv'
<1> DEFINE ids == Keys(present) \ {0}
           lo == Min(ids)
           hi == Max(ids)
           job(c) == [kind |-> "ids", lo |-> c, hi |-> c + size]
<1>1. /\ jobs = {} /\ plan' = "done" /\ mode = "sql"
      /\ jobs' = IF ids = {} THEN {} ELSE {job(c) : c \in id_windows(lo, hi)}
  BY DEF split_sql, planned, ShapeInv, PlanShape
<1>2. UNCHANGED config /\ UNCHANGED store /\ UNCHANGED results /\ key' = key /\ Docs' = Docs
  BY DEF split_sql, store, Docs
<1>3. stable \subseteq present /\ stable \subseteq Docs /\ present \subseteq Docs
  BY DEF ShapeInv, SplitType
<1>4. /\ ids \in SUBSET Nat /\ IsFiniteSet(ids)
      /\ \A d \in stable : unkeyed(d) \/ key[d] \in ids
  <2>1. Keys(present) \subseteq Nat /\ IsFiniteSet(Keys(present)) /\ \A d \in present : key[d] \in Keys(present)
    BY <1>3, KeysFacts DEF ShapeInv
  <2>2. QED
    BY <1>1, <1>3, <2>1, SubsetFacts DEF unkeyed
<1>5. CASE ids = {}
  BY <1>1, <1>2, <1>4, <1>5, PartsPlanned
<1>6. CASE ids # {}
  <2>1. jobs' = {job(c) : c \in id_windows(lo, hi)}
    BY <1>1, <1>6
  <2>2. lo \in Nat /\ hi \in Nat /\ \A k \in ids : k \in Nat /\ lo <= k /\ k <= hi
    BY <1>4, <1>6, MinFacts, MaxFacts
  <2> HIDE DEF lo, hi, ids
  <2>3. size \in Nat \ {0} /\ \A d \in Docs : key[d] \in Nat
    BY DEF ShapeInv, ConfigType, SplitType
  <2>4. ASSUME NEW c \in Nat, NEW j, j = job(c)
        PROVE  Zone(j)' = {d \in Docs : key[d] \in c..(c + size - 1)}
    <3>1. j.kind = "ids" /\ j.lo = c /\ j.hi = c + size
      BY <2>4
    <3>2. Zone(j)' = {d \in Docs : key[d] \in j.lo..(j.hi - 1)}
      BY <1>2, <3>1 DEF Zone, config
    <3>3. j.hi - 1 = c + size - 1
      BY <2>3, <3>1
    <3>4. QED
      BY <3>1, <3>2, <3>3
  <2>5. \A c \in id_windows(lo, hi) : c \in Nat /\ \E i \in Nat : c = lo + i * size
    BY <2>2, <2>3 DEF id_windows
  <2>6. ASSUME NEW b \in id_windows(lo, hi), NEW c \in id_windows(lo, hi), NEW k \in Nat,
               k \in b..(b + size - 1), k \in c..(c + size - 1)
        PROVE  b = c
    <3>1. PICK i \in Nat : b = lo + i * size
      BY <2>5
    <3>2. PICK l \in Nat : c = lo + l * size
      BY <2>5
    <3>3. i * size \in Nat /\ l * size \in Nat
      BY <2>3
    <3>4. k - lo \in Nat /\ i * size <= k - lo /\ k - lo < i * size + size /\ l * size <= k - lo /\ k - lo < l * size + size
      BY <2>2, <2>3, <2>6, <3>1, <3>2, <3>3
    <3>5. QED
      BY <2>3, <3>1, <3>2, <3>4, OneCell
  <2>7. ASSUME NEW d \in Docs, NEW i \in jobs', NEW j \in jobs', d \in Zone(i)', d \in Zone(j)' PROVE i = j
    <3>1. PICK b \in id_windows(lo, hi) : i = job(b)
      BY <2>1
    <3>2. PICK c \in id_windows(lo, hi) : j = job(c)
      BY <2>1
    <3>3. key[d] \in b..(b + size - 1) /\ key[d] \in c..(c + size - 1)
      BY <2>4, <2>5, <2>7, <3>1, <3>2
    <3>4. b = c
      BY <2>3, <2>6, <3>3
    <3>5. QED
      BY <3>1, <3>2, <3>4
  <2>8. ASSUME NEW d \in stable, ~unkeyed(d) PROVE \E j \in jobs' : d \in Zone(j)'
    <3> DEFINE i == (key[d] - lo) \div size
    <3>1. d \in Docs /\ key[d] \in Nat /\ lo <= key[d] /\ key[d] <= hi /\ key[d] - lo \in Nat /\ hi - lo \in Nat
      BY <1>3, <1>4, <2>2, <2>3, <2>8
    <3>2. i \in Nat /\ i * size <= key[d] - lo /\ key[d] - lo < i * size + size
      BY <2>3, <3>1, DivFacts
    <3>3. i <= (hi - lo) \div size /\ (hi - lo) \div size \in Nat
      <4>1. (hi - lo) \div size \in Nat
        BY <2>3, <3>1, DivFacts
      <4>2. key[d] - lo <= hi - lo
        BY <2>2, <3>1
      <4>3. QED
        BY <2>3, <3>1, <4>1, <4>2, DivMono
    <3> HIDE DEF i
    <3>4. lo + i * size \in id_windows(lo, hi)
      BY <3>2, <3>3 DEF id_windows
    <3>5. PICK j \in jobs' : j = job(lo + i * size)
      BY <2>1, <3>4
    <3>6. Zone(j)' = {e \in Docs : key[e] \in (lo + i * size)..(lo + i * size + size - 1)}
      BY <2>4, <2>5, <3>4, <3>5
    <3>7. i * size \in Nat
      BY <2>3, <3>2
    <3>8. key[d] \in (lo + i * size)..(lo + i * size + size - 1)
      BY <2>2, <2>3, <3>1, <3>2, <3>7
    <3>9. QED
      BY <3>1, <3>6, <3>8
  <2>9. QED
    BY <1>1, <1>2, <2>7, <2>8, PartsPlanned
<1>7. QED
  BY <1>5, <1>6

\* Chunks are disjoint and leave nothing out.
LEMMA ChunkFacts ==
  ASSUME ConfigType, NEW D, D \subseteq DOMAIN input, NEW n \in Nat \ {0}
  PROVE  /\ \A c \in chunk(D, n) : c \subseteq D
         /\ \A b, c \in chunk(D, n) : \A d \in b : d \in c => b = c
         /\ \A d \in D : \E c \in chunk(D, n) : d \in c
<1> DEFINE ahead(d) == {q \in D : q < d}
           cell(d) == Cardinality(ahead(d)) \div n
           part(i) == {d \in D : cell(d) = i}
           L == Len(input)
<1>1. chunk(D, n) = {part(i) : i \in 0..L} \ {{}}
  BY DEF chunk
<1>2. ASSUME NEW d \in D PROVE cell(d) \in 0..L
  <2>1. L \in Nat /\ DOMAIN input = 1..L
    BY DEF ConfigType
  <2> HIDE DEF L
  <2>2. IsFiniteSet(1..L) /\ Cardinality(1..L) = L
    BY <2>1, FS_Interval
  <2>3. ahead(d) \subseteq 1..L
    BY <2>1
  <2> HIDE DEF ahead
  <2>4. Cardinality(ahead(d)) \in Nat /\ Cardinality(ahead(d)) <= L
    BY <2>1, <2>2, <2>3, SubsetFacts
  <2>5. cell(d) \in Nat /\ cell(d) * n <= Cardinality(ahead(d))
    BY <2>4, DivFacts
  <2> HIDE DEF cell
  <2>6. cell(d) <= cell(d) * n
    BY <2>5
  <2>7. QED
    BY <2>1, <2>4, <2>5, <2>6
<1> HIDE DEF cell, L
<1>3. \A c \in chunk(D, n) : \E i \in 0..L : c = part(i)
  BY <1>1
<1>4. ASSUME NEW b \in chunk(D, n), NEW c \in chunk(D, n), NEW d \in b, d \in c PROVE b = c
  <2>1. PICK i \in 0..L : b = part(i)
    BY <1>3
  <2>2. PICK k \in 0..L : c = part(k)
    BY <1>3
  <2>3. cell(d) = i /\ cell(d) = k
    BY <1>4, <2>1, <2>2
  <2>4. QED
    BY <2>1, <2>2, <2>3
<1>5. \A d \in D : part(cell(d)) \in chunk(D, n) /\ d \in part(cell(d))
  BY <1>1, <1>2
<1>6. \A c \in chunk(D, n) : c \subseteq D
  BY <1>3
<1> HIDE DEF part
<1>7. QED
  BY <1>4, <1>5, <1>6

\* The batches of a request: each position of its list is in one of them.
LEMMA BatchFacts ==
  ASSUME ConfigType
  PROVE  /\ \A b \in batches : b \subseteq DOMAIN input
         /\ \A a, b \in batches : \A p \in a : p \in b => a = b
         /\ \A p \in DOMAIN input : \E b \in batches : p \in b
BY ChunkFacts DEF batches, ConfigType

\* The parts of a batch's source: each position of the batch is in one of them.
LEMMA ChunksFacts ==
  ASSUME ConfigType, mode \in IdModes, NEW b \in batches
  PROVE  /\ \A c \in chunks(b) : c \subseteq DOMAIN input
         /\ mode # "ids_params" => \A c \in chunks(b) : c \subseteq b
         /\ \A c, e \in chunks(b) : \A p \in c : p \in e => c = e
         /\ \A p \in b : \E c \in chunks(b) : p \in c
<1>1. b \subseteq DOMAIN input /\ page_size \in Nat \ {0}
  BY BatchFacts DEF ConfigType
<1>2. CASE mode = "ids"
  <2>1. chunks(b) = chunk(b, page_size)
    BY <1>2 DEF chunks
  <2>2. QED
    BY <1>1, <2>1, ChunkFacts
<1>3. CASE mode = "ids_params"
  <2>1. chunks(b) = chunk(DOMAIN input, page_size)
    BY <1>3 DEF chunks
  <2>2. QED
    BY <1>1, <1>3, <2>1, ChunkFacts
<1>4. CASE mode = "ids_batch"
  <2>1. chunks(b) = {b}
    BY <1>4 DEF chunks
  <2>2. QED
    BY <1>1, <2>1
<1>5. QED
  BY <1>2, <1>3, <1>4 DEF IdModes

LEMMA PartsIds ==
  ASSUME ShapeInv, PartsInv, split_ids
  PROVE  PartsInv'
<1> DEFINE job(b, c) == [kind |-> "per_id", batch |-> b, ids |-> c]
<1>1. /\ jobs = {} /\ plan' = "done" /\ mode \in IdModes
      /\ jobs' = UNION {{job(b, c) : c \in chunks(b)} : b \in batches}
  BY DEF split_ids, planned, ShapeInv, PlanShape, IdModes
<1>2. UNCHANGED config /\ UNCHANGED store /\ UNCHANGED results /\ UNCHANGED <<mode, input, size>> /\ batches' = batches
  BY DEF split_ids, config, batches, chunk
<1>3. /\ \A b \in batches : b \subseteq DOMAIN input
      /\ \A a, b \in batches : \A p \in a : p \in b => a = b
      /\ \A p \in DOMAIN input : \E b \in batches : p \in b
  BY <1>1, BatchFacts DEF ShapeInv
<1>4. ASSUME NEW b \in batches
      PROVE  /\ \A c \in chunks(b) : c \subseteq DOMAIN input
             /\ mode # "ids_params" => \A c \in chunks(b) : c \subseteq b
             /\ \A c, e \in chunks(b) : \A p \in c : p \in e => c = e
             /\ \A p \in b : \E c \in chunks(b) : p \in c
  <2>1. ConfigType
    BY DEF ShapeInv
  <2>2. QED
    BY <1>1, <2>1, ChunksFacts
<1>5. \A b, c, j : j = job(b, c) => Zone(j)' = {input[p] : p \in c}
  BY <1>2 DEF Zone
<1>6. ASSUME NEW d \in Docs, ~doubled(d)', NEW i \in jobs', NEW j \in jobs', d \in Zone(i)', d \in Zone(j)'
      PROVE  i = j
  <2>1. PICK a \in batches : \E c \in chunks(a) : i = job(a, c)
    BY <1>1
  <2>2. PICK b \in batches : \E c \in chunks(b) : j = job(b, c)
    BY <1>1
  <2>3. PICK c \in chunks(a) : i = job(a, c)
    BY <2>1
  <2>4. PICK e \in chunks(b) : j = job(b, e)
    BY <2>2
  <2>5. PICK p \in c : d = input[p]
    BY <1>5, <1>6, <2>3
  <2>6. PICK q \in e : d = input[q]
    BY <1>5, <1>6, <2>4
  <2>7. p \in DOMAIN input /\ q \in DOMAIN input
    BY <1>4
  <2>8. p = q /\ (mode = "ids_params" => a = b)
    BY <1>1, <1>2, <1>6, <2>5, <2>6, <2>7 DEF doubled
  <2>9. a = b
    BY <1>3, <1>4, <2>8
  <2>10. QED
    BY <1>4, <2>3, <2>4, <2>8, <2>9
<1>7. ASSUME NEW d \in target PROVE \E j \in jobs' : d \in Zone(j)'
  <2>1. PICK p \in DOMAIN input : d = input[p]
    BY <1>1 DEF target, IdModes, Range
  <2>2. PICK b \in batches : p \in b
    BY <1>3
  <2>3. PICK c \in chunks(b) : p \in c
    BY <1>4, <2>2
  <2>4. job(b, c) \in {job(b, e) : e \in chunks(b)}
    BY <2>3
  <2>5. PICK j \in jobs' : j = job(b, c)
    BY <1>1, <2>4
  <2>6. QED
    BY <1>5, <2>1, <2>3, <2>5
<1>8. QED
  BY <1>1, <1>2, <1>6, <1>7, PartsPlanned

\* One more page, beyond all the others: it is disjoint from them.
LEMMA PartsPage ==
  ASSUME ShapeInv, PartsInv, UNCHANGED config, UNCHANGED store, UNCHANGED snapshot, UNCHANGED results,
         plan = "start", mode \in {"composite", "s3"}, plan' \in {"start", "done"},
         NEW new, jobs' = jobs \/ jobs' = jobs \cup {new}, \A j \in jobs' : <<mode, j.kind>> \in Makes,
         new \in jobs' => \A d \in Zone(new) : d \in Docs /\ key[d] > token,
         plan' = "start" =>
            /\ token' \in Nat /\ token' >= token
            /\ new \in jobs' => \A d \in Zone(new) : key[d] <= token'
            /\ \A d \in stable \cap target : key[d] > token /\ key[d] <= token' => new \in jobs' /\ d \in Zone(new),
         plan' = "done" => \A d \in stable \cap target : key[d] > token => new \in jobs' /\ d \in Zone(new)
  PROVE  PartsInv'
<1>1. /\ mode' = mode /\ target' = target /\ Docs' = Docs
      /\ \A d : shifted(d)' = shifted(d) /\ unkeyed(d)' = unkeyed(d)
  BY PlanFrame
<1>k. UNCHANGED <<key, present, stable, raced, changes, moved, read, fetched>>
  BY DEF store, results
<1>2. ASSUME NEW d \in Docs, ~shifted(d), NEW j \in jobs' PROVE d \in Zone(j)' <=> d \in Zone(j)
  BY <1>1, <1>k, <1>2, ZoneFrame
<1>3. \A d \in Docs : key[d] \in Nat
  BY DEF ShapeInv, SplitType
<1>4. token \in Nat /\ stable \subseteq Docs /\ fetched \subseteq jobs
  BY DEF ShapeInv, SplitType
<1>5. ASSUME NEW d \in Docs, ~shifted(d)
      PROVE  /\ \A j \in jobs : d \in Zone(j) => key[d] <= token
             /\ d \in stable \cap target /\ key[d] # 0 /\ key[d] <= token => \E j \in jobs : d \in Zone(j)
  BY <1>5 DEF PartsInv, PagesInv
<1>6. Disjoint'
  <2> SUFFICES ASSUME NEW d \in Docs, ~shifted(d), ~doubled(d)', NEW i \in jobs', NEW j \in jobs',
                      d \in Zone(i), d \in Zone(j)
               PROVE  i = j
    BY <1>1, <1>2 DEF Disjoint
  <2>1. CASE i \in jobs /\ j \in jobs
    <3>1. doubled(d) => doubled(d)'
      <4>1. UNCHANGED <<mode, nulls>> /\ mode \notin IdModes /\ jobs \subseteq jobs'
        BY DEF config, IdModes
      <4>2. QED
        BY <4>1 DEF doubled, IdModes, past_missing
    <3>2. QED
      BY <2>1, <3>1 DEF PartsInv, Disjoint
  <2>2. new \in jobs' /\ d \in Zone(new) => ~(key[d] <= token)
    BY <1>3, <1>4
  <2>3. CASE i = new /\ j \in jobs
    BY <1>5, <2>2, <2>3
  <2>4. CASE j = new /\ i \in jobs
    BY <1>5, <2>2, <2>4
  <2>5. QED
    BY <2>1, <2>3, <2>4
<1>7. ASSUME NEW d \in stable \cap target, ~shifted(d), key[d] # 0, key[d] <= token PROVE \E j \in jobs' : d \in Zone(j)
  BY <1>4, <1>5, <1>7
<1>8. \A d \in stable : key[d] <= token \/ key[d] > token
  BY <1>3, <1>4
<1>9. Covered'
  <2> SUFFICES ASSUME plan' = "done", NEW d \in stable \cap target, ~shifted(d), ~unkeyed(d)
               PROVE  \E j \in jobs' : d \in Zone(j)
    BY <1>1, <1>2, <1>4, <1>k DEF Covered
  <2>1. key[d] # 0
    BY <1>4 DEF unkeyed, ShapeInv, SplitType
  <2>2. QED
    BY <1>7, <1>8, <2>1
<1>10. PagesInv'
  <2> SUFFICES ASSUME plan' = "start", NEW d \in Docs, ~shifted(d)
               PROVE  /\ \A j \in jobs' : d \in Zone(j) => key[d] <= token'
                      /\ d \in stable \cap target /\ key[d] # 0 /\ key[d] <= token' => \E j \in jobs' : d \in Zone(j)
    BY <1>1, <1>2, <1>k DEF PagesInv
  <2>1. \A j \in jobs : d \in Zone(j) => key[d] <= token'
    BY <1>3, <1>4, <1>5
  <2>2. \A j \in jobs' : d \in Zone(j) => key[d] <= token'
    BY <2>1
  <2>3. QED
    BY <1>7, <1>8, <2>2
<1>11. ReadInv'
  BY <1>1, <1>2, <1>4, <1>k DEF PartsInv, ReadInv
<1>12. QED
  BY <1>6, <1>9, <1>10, <1>11 DEF PartsInv

LEMMA PartsComposite ==
  ASSUME ShapeInv, ShapeInv', PartsInv, _split_composite
  PROVE  PartsInv'
<1> DEFINE page == _composite_page(token)
           new == [kind |-> "page", after |-> token]
<1>1. /\ UNCHANGED config /\ UNCHANGED store /\ UNCHANGED results /\ UNCHANGED snapshot
      /\ plan = "start" /\ mode = "composite"
      /\ IF page = {} THEN jobs' = jobs ELSE jobs' = jobs \cup {new}
      /\ IF Cardinality(page) < size
         THEN plan' = "done" /\ token' = token
         ELSE plan' = plan /\ token' = Max(page)
  BY DEF _split_composite, yield
<1>2. Zone(new) = {d \in Docs : key[d] \in page}
  BY DEF Zone
<1>3. /\ \A k \in page : k \in Nat /\ k > token
      /\ \A k \in page, d \in present : key[d] > token /\ key[d] <= k => key[d] \in page
      /\ Cardinality(page) < size => \A d \in present : key[d] > token => key[d] \in page
      /\ page = {} => Cardinality(page) < size
      /\ page # {} => Max(page) \in page /\ \A k \in page : k <= Max(page)
  BY PageFacts DEF ShapeInv, SplitType
<1>4. stable \subseteq present /\ present \subseteq Docs /\ token \in Nat
  BY DEF ShapeInv, SplitType
<1>5. \A j \in jobs' : <<mode, j.kind>> \in Makes
  <2>1. mode' = mode
    BY <1>1 DEF config
  <2>2. QED
    BY <2>1 DEF ShapeInv, PlanShape, Makes
<1> HIDE DEF page, new
<1>6. \A d \in Zone(new) : d \in Docs /\ key[d] > token
  BY <1>2, <1>3
<1>7. ASSUME plan' = "start"
      PROVE  /\ token' \in Nat /\ token' >= token
             /\ \A d \in Zone(new) : key[d] <= token'
             /\ \A d \in stable \cap target : key[d] > token /\ key[d] <= token' => new \in jobs' /\ d \in Zone(new)
  <2>1. page # {} /\ token' = Max(page) /\ new \in jobs'
    BY <1>1, <1>3, <1>7
  <2>2. QED
    BY <1>2, <1>3, <1>4, <2>1
<1>8. ASSUME plan' = "done" PROVE \A d \in stable \cap target : key[d] > token => new \in jobs' /\ d \in Zone(new)
  BY <1>1, <1>2, <1>3, <1>4, <1>8
<1>9. plan' \in {"start", "done"} /\ (jobs' = jobs \/ jobs' = jobs \cup {new}) /\ mode \in {"composite", "s3"}
  BY <1>1
<1>10. UNCHANGED config /\ UNCHANGED store /\ UNCHANGED results /\ UNCHANGED snapshot /\ plan = "start"
  BY <1>1
<1>11. QED
  BY <1>5, <1>6, <1>7, <1>8, <1>9, <1>10, PartsPage

LEMMA PartsListing ==
  ASSUME ShapeInv, ShapeInv', PartsInv, split_s3
  PROVE  PartsInv'
<1> DEFINE keys == Listed \cap Matching
           new == [kind |-> "keys", keys |-> keys]
<1>1. /\ UNCHANGED config /\ UNCHANGED store /\ UNCHANGED results /\ UNCHANGED snapshot
      /\ plan = "start" /\ mode = "s3"
      /\ IF keys = {} THEN jobs' = jobs ELSE jobs' = jobs \cup {new}
      /\ IF Listed = Left
         THEN plan' = "done" /\ token' = token
         ELSE plan' = plan /\ token' = Max(Keys(Listed))
  BY DEF split_s3, yield, Listed, Left
<1>2. Zone(new) = keys /\ target = Matching
  <2>1. Zone(new) = keys
    BY DEF Zone
  <2>2. target = Matching
    BY <1>1 DEF target, IdModes
  <2>3. QED
    BY <2>1, <2>2
<1>3. stable \subseteq present /\ present \subseteq Docs /\ token \in Nat
  BY DEF ShapeInv, SplitType
<1>4. Listed \subseteq Left /\ Left = {d \in present : key[d] > token}
  BY DEF Listed, Left
<1>5. \A j \in jobs' : <<mode, j.kind>> \in Makes
  <2>1. mode' = mode
    BY <1>1 DEF config
  <2>2. QED
    BY <2>1 DEF ShapeInv, PlanShape, Makes
<1> HIDE DEF new
<1>6. \A d \in Zone(new) : d \in Docs /\ key[d] > token
  BY <1>2, <1>3, <1>4
<1>7. ASSUME plan' = "start"
      PROVE  /\ token' \in Nat /\ token' >= token
             /\ \A d \in Zone(new) : key[d] <= token'
             /\ \A d \in stable \cap target : key[d] > token /\ key[d] <= token' => new \in jobs' /\ d \in Zone(new)
  <2>1. Listed # Left /\ token' = Max(Keys(Listed))
    BY <1>1, <1>7
  <2>2. /\ token' \in Nat /\ token' > token
        /\ \A d \in Listed : key[d] <= token'
        /\ \A d \in Left : key[d] <= token' => d \in Listed
    BY <2>1, ListedFacts DEF ShapeInv
  <2>3. QED
    BY <1>1, <1>2, <1>3, <1>4, <2>2
<1>8. ASSUME plan' = "done" PROVE \A d \in stable \cap target : key[d] > token => new \in jobs' /\ d \in Zone(new)
  BY <1>1, <1>2, <1>3, <1>4, <1>8
<1>9. plan' \in {"start", "done"} /\ (jobs' = jobs \/ jobs' = jobs \cup {new}) /\ mode \in {"composite", "s3"}
  BY <1>1
<1>10. UNCHANGED config /\ UNCHANGED store /\ UNCHANGED results /\ UNCHANGED snapshot /\ plan = "start"
  BY <1>1
<1>11. QED
  BY <1>5, <1>6, <1>7, <1>8, <1>9, <1>10, PartsPage

\* A fetch reads within its job's part, and all that was there all the time.
LEMMA PartsFetch ==
  ASSUME ShapeInv, PartsInv, NEW j \in jobs, fetch(j)
  PROVE  PartsInv'
<1>1. /\ UNCHANGED config /\ UNCHANGED store /\ UNCHANGED snapshot /\ UNCHANGED <<plan, token, jobs>>
      /\ \/ UNCHANGED <<fetched, read>>
         \/ /\ fetched' = fetched \cup {j} /\ j \notin fetched
            /\ read' = read \cup {<<j, d>> : d \in records(j)}
  BY DEF fetch
<1>2. /\ mode' = mode /\ target' = target /\ Docs' = Docs
      /\ \A d : shifted(d)' = shifted(d) /\ unkeyed(d)' = unkeyed(d) /\ doubled(d)' = doubled(d)
  BY <1>1, PlanFrame
<1>k. UNCHANGED <<key, present, stable, raced, changes, moved>>
  BY <1>1 DEF store
<1>3. ASSUME NEW d \in Docs, ~shifted(d), NEW i \in jobs PROVE d \in Zone(i)' <=> d \in Zone(i)
  <2>1. <<mode, i.kind>> \in Makes
    BY DEF ShapeInv, PlanShape
  <2>2. QED
    BY <1>1, <1>2, <1>3, <1>k, <2>1, ZoneFrame
<1>4. present \subseteq Docs /\ stable \subseteq present /\ fetched \subseteq jobs
  BY DEF ShapeInv, SplitType
<1>5. records(j) \subseteq Zone(j) /\ stable \cap Zone(j) \subseteq records(j)
  <2>1. <<mode, j.kind>> \in Makes
    BY DEF ShapeInv, PlanShape
  <2>2. CASE j.kind = "whole"
    BY <1>4, <2>2 DEF records, Zone
  <2>3. CASE j.kind = "window"
    BY <2>3 DEF records, Zone
  <2>4. CASE j.kind = "slice"
    BY <2>4 DEF records, Zone
  <2>5. CASE j.kind = "range"
    BY <1>4, <2>5 DEF records, Zone, _fetch_range_window
  <2>11. CASE j.kind = "past_missing"
    BY <1>4, <2>11 DEF records, Zone, _fetch_past_missing
  <2>6. CASE j.kind = "page"
    BY <1>4, <2>6 DEF records, Zone, _fetch_composite
  <2>7. CASE j.kind = "ids"
    BY <1>4, <2>7 DEF records, Zone, fetch_sql
  <2>8. CASE j.kind = "keys"
    BY <2>8 DEF records, Zone, fetch_s3
  <2>9. CASE j.kind = "per_id"
    BY <1>4, <2>9 DEF records, Zone, fetch_ids
  <2>10. QED
    BY <2>1, <2>2, <2>3, <2>4, <2>5, <2>6, <2>7, <2>8, <2>9, <2>11 DEF Makes
<1>6. Disjoint' /\ Covered' /\ PagesInv'
  BY <1>1, <1>2, <1>3, <1>4, <1>k DEF PartsInv, Disjoint, Covered, PagesInv
<1>7. ReadInv'
  <2> SUFFICES /\ \A x \in read' : x[1] \in fetched' /\ (x[2] \in Docs /\ ~shifted(x[2]) => x[2] \in Zone(x[1]))
               /\ \A i \in fetched' : \A d \in stable \cap Zone(i) : ~shifted(d) => <<i, d>> \in read'
    <3>1. fetched' \subseteq jobs
      BY <1>1, <1>4
    <3>2. QED
      BY <1>1, <1>2, <1>3, <1>4, <1>k, <3>1 DEF ReadInv
  <2>1. /\ \A x \in read : x[1] \in fetched /\ (x[2] \in Docs /\ ~shifted(x[2]) => x[2] \in Zone(x[1]))
        /\ \A i \in fetched : \A d \in stable \cap Zone(i) : ~shifted(d) => <<i, d>> \in read
    BY DEF PartsInv, ReadInv
  <2>2. \A d \in records(j) : <<j, d>>[1] = j /\ <<j, d>>[2] = d
    OBVIOUS
  <2>3. QED
    BY <1>1, <1>5, <2>1, <2>2
<1>8. QED
  BY <1>6, <1>7 DEF PartsInv

\* The store changes: a part keeps the documents that are not shifted.
LEMMA PartsStore ==
  ASSUME ShapeInv, PartsInv,
         \/ \E d \in Docs : insert(d) \/ delete(d)
         \/ \E d \in Docs, k \in NewKeys : update(d, k)
         \/ lose_pit
  PROVE  PartsInv'
<1>1. /\ UNCHANGED config /\ UNCHANGED snapshot /\ UNCHANGED <<jobs, read, fetched, token, plan>>
      /\ stable' \subseteq stable /\ changes' = changes + 1 /\ moved \subseteq moved'
  BY DEF insert, delete, update, lose_pit, change, results
<1>2. raced => raced'
  BY Zenon DEF insert, delete, update, lose_pit
<1>3. changes' > 0
  BY <1>1 DEF ShapeInv, SplitType
<1>4. \A d \in Docs : shifted(d) => shifted(d)'
  BY <1>1, <1>3 DEF shifted, config
<1>5. /\ mode = "s3" => key' = key
      /\ plan = "done" => \A d \in Docs : d \in moved' \/ key'[d] = key[d]
  <2>1. CASE key' = key
    BY <2>1
  <2>2. ASSUME NEW d \in Docs, NEW k \in NewKeys, update(d, k)
        PROVE  mode # "s3" /\ (plan = "done" => \A e \in Docs : e \in moved' \/ key'[e] = key[e])
    BY <2>2 DEF update, ShapeInv, SplitType
  <2>3. QED
    BY <2>1, <2>2 DEF insert, delete, lose_pit
<1>6. QED
  BY <1>1, <1>2, <1>3, <1>4, <1>5, PartsQuiet

LEMMA PartsNext ==
  ASSUME ShapeInv, ShapeInv', PartsInv, ScanInv, [SplitNext]_split_vars
  PROVE  PartsInv'
<1>1. ASSUME UNCHANGED config, UNCHANGED store, UNCHANGED snapshot, UNCHANGED results, UNCHANGED <<jobs, token>>,
             plan' \in {plan, "failed"}
      PROVE  PartsInv'
  <2>1. UNCHANGED <<read, fetched, stable, raced, key, present>>
    BY <1>1 DEF store, results
  <2>2. \A d \in Docs : shifted(d) => shifted(d)'
    BY <1>1, PlanFrame
  <2>3. QED
    BY <1>1, <2>1, <2>2, PartsQuiet
<1>2. CASE UNCHANGED split_vars \/ _scan_window_cursors \/ scan_raises
  BY <1>1, <1>2 DEF split_vars, _scan_window_cursors, scan_raises
<1>3. CASE split
  <2>1. mode \in {"windows", "range"}
    BY <1>3 DEF split, ShapeInv, PlanShape, Scanning
  <2>2. QED
    BY <1>3, <2>1, PartsWindows, PartsRanges
<1>4. ASSUME NEW j \in jobs, fetch(j) PROVE PartsInv'
  BY <1>4, PartsFetch
<1>5. QED
  BY <1>2, <1>3, <1>4, SplitSteps, PartsWhole, PartsSlices, PartsComposite, PartsSqlWhole, PartsSql, PartsListing,
     PartsIds, PartsStore

LEMMA ScanNext ==
  ASSUME ShapeInv, ShapeInv', ScanInv, [SplitNext]_split_vars
  PROVE  ScanInv'
<1>c. UNCHANGED <<mode, size, max_slices>>
  BY ConfigNext DEF config
<1>t. present \subseteq Docs /\ stable \subseteq present /\ pit \subseteq Docs /\ count \in Nat /\ seen \in Nat
  BY DEF ShapeInv, SplitType
<1>k. ASSUME count' = count PROVE \A s : cursors_to(s)' = cursors_to(s)
  BY <1>c, <1>k DEF cursors_to, num_windows, window_size, ceil_div
<1>1. CASE UNCHANGED split_vars
  BY <1>1, <1>k DEF split_vars, store, snapshot, ScanInv
<1>2. CASE _count_documents
  <2>1. UNCHANGED <<present, seen>> /\ plan = "start" /\ count' = Cardinality(present)
    BY <1>2 DEF _count_documents, store
  <2>2. plan' \in {"done", "open"} /\ (plan' = "open" => count' # 0)
    BY <1>2 DEF _count_documents, planned
  <2>3. QED
    BY <2>1, <2>2 DEF ScanInv, ShapeInv, SplitType
<1>3. CASE open_point_in_time
  <2>1. /\ UNCHANGED <<present, seen, count, stable, raced>> /\ plan = "open" /\ pit' = present /\ cursors' = {0}
        /\ plan' \in {"done", "scan"}
    BY <1>3 DEF open_point_in_time, planned, store
  <2>2. seen = 0 /\ count >= 1
    BY <2>1 DEF ScanInv
  <2>3. cursors_to(0) = {0}
    <3> DEFINE nw == num_windows(count)
               ws == window_size
    <3>1. nw \in Nat \ {0} /\ ws \in Nat \ {0}
      BY <1>t, <2>2, WindowSizeFacts DEF ShapeInv
    <3>2. cursors_to(0) = {k * ws : k \in 0..(nw - 1)} \cap 0..0
      BY DEF cursors_to
    <3> HIDE DEF nw, ws
    <3>3. 0 \in 0..(nw - 1) /\ 0 * ws = 0
      BY <3>1
    <3>4. QED
      BY <3>2, <3>3
  <2>4. 0 <= Cardinality(present)
    <3>1. Cardinality(present) \in Nat
      BY <1>t, DocsFinite, SubsetFacts
    <3>2. QED
      BY <3>1
  <2>5. QED
    BY <1>k, <1>t, <2>1, <2>2, <2>3, <2>4 DEF ScanInv
<1>4. CASE _scan_window_cursors
  <2>1. /\ UNCHANGED <<count, pit, stable, raced, plan>> /\ plan = "scan"
        /\ seen' = Min({seen + page_size, Cardinality(pit)})
        /\ cursors' = cursors \cup cursors_to(seen')
    BY <1>4 DEF _scan_window_cursors, store, snapshot
  <2>2. seen <= seen' /\ seen' <= Cardinality(pit)
    <3>0. Cardinality(pit) \in Nat
      BY <1>t, DocsFinite, SubsetFacts
    <3>1. seen + page_size \in Nat /\ Cardinality(pit) \in Nat /\ seen <= seen + page_size /\ seen <= Cardinality(pit)
      BY <1>t, <2>1, <3>0 DEF ScanInv, ShapeInv, ConfigType
    <3>2. {seen + page_size, Cardinality(pit)} \in SUBSET Nat
      BY <3>1
    <3>3. seen' \in {seen + page_size, Cardinality(pit)} /\ seen' <= Cardinality(pit)
      BY <2>1, <3>2, MinFacts
    <3>4. QED
      BY <3>1, <3>3
  <2>3. cursors_to(seen) \subseteq cursors_to(seen')
    BY <1>t, <2>2 DEF cursors_to, ShapeInv, SplitType
  <2>4. QED
    BY <1>k, <2>1, <2>2, <2>3 DEF ScanInv
<1>5. CASE scan_raises \/ split
  <2>1. plan' \in {"failed", "done"}
    BY <1>5 DEF scan_raises, split, planned
  <2>2. QED
    BY <2>1 DEF ScanInv
<1>6. CASE _split_composite \/ split_sql_whole \/ split_sql \/ split_s3 \/ split_ids
  <2>1. seen' = seen /\ plan = "start" /\ plan' \in {"start", "done"}
    BY <1>6 DEF _split_composite, split_sql_whole, split_sql, split_s3, split_ids, planned
  <2>2. QED
    BY <2>1 DEF ScanInv
<1>7. ASSUME NEW j \in jobs, fetch(j) PROVE ScanInv'
  BY <1>7, <1>k DEF fetch, store, snapshot, ScanInv
<1>8. CASE \/ \E d \in Docs : insert(d) \/ delete(d)
           \/ \E d \in Docs, k \in NewKeys : update(d, k)
           \/ lose_pit
  <2>1. /\ UNCHANGED <<count, pit, plan, seen, cursors>> /\ stable' \subseteq stable
        /\ raced' = raced \/ raced' = (raced \/ plan = "open")
        /\ plan = "open" /\ ~raced' => present' = present
    BY <1>8 DEF insert, delete, update, lose_pit, change, snapshot
  <2>2. ~raced' => ~raced
    BY <2>1
  <2>3. QED
    BY <1>k, <2>1, <2>2 DEF ScanInv
<1>9. QED
  BY <1>1, <1>2, <1>3, <1>4, <1>5, <1>6, <1>7, <1>8, SplitSteps

----------------------------------------------------------------------------

SplitInv == ShapeInv /\ PartsInv /\ ScanInv

LEMMA SplitInvariant == SplitSpec => []SplitInv
<1>1. SplitInit => SplitInv
  BY ShapeInit, PartsInit DEF SplitInv
<1>2. SplitInv /\ [SplitNext]_split_vars => SplitInv'
  BY ShapeNext, PartsNext, ScanNext DEF SplitInv
<1>3. QED
  BY <1>1, <1>2, PTL DEF SplitSpec

\* No document is delivered by two jobs, for any number of documents and IDs, any keys, sizes and
\* page sizes and each way of splitting, whatever comes, goes or changes between plan and fetches:
\* all but the documents that move between two live reads and those the plan names twice.
THEOREM PartsDoNotOverlap == SplitSpec => []NoOverlap
<1>1. SplitInv => NoOverlap
  <2> SUFFICES ASSUME SplitInv, NEW d \in Docs, ~shifted(d), ~doubled(d) PROVE Cardinality(readers(d)) <= 1
    BY DEF NoOverlap
  <2>1. ASSUME NEW i \in readers(d), NEW j \in readers(d) PROVE i = j
    <3>1. i \in jobs /\ j \in jobs /\ d \in Zone(i) /\ d \in Zone(j)
      BY DEF readers, SplitInv, PartsInv, ReadInv, ShapeInv, SplitType
    <3>2. QED
      BY <3>1 DEF SplitInv, PartsInv, Disjoint
  <2>2. CASE readers(d) = {}
    BY <2>2, FS_EmptySet
  <2>3. ASSUME NEW i \in readers(d) PROVE Cardinality(readers(d)) <= 1
    <3>1. readers(d) = {i}
      BY <2>1, <2>3
    <3>2. Cardinality({i}) = 1
      BY FS_Singleton
    <3>3. QED
      BY <3>1, <3>2
  <2>4. QED
    BY <2>2, <2>3
<1>2. QED
  BY <1>1, SplitInvariant, PTL

\* When every job was fetched, a document that was there all the time was read by one, for any
\* number of documents and IDs, any keys, sizes and page sizes and each way of splitting, unless the
\* store changed between the count and the point in time of a plan of windows, the document moved
\* between two live reads, or ranges and buckets are made of a field it does not have.
THEOREM NothingIsMissed == SplitSpec => []NothingMissed
<1>1. SplitInv => NothingMissed
  <2> SUFFICES ASSUME SplitInv, plan = "done", fetched = jobs, ~(mode = "windows" /\ raced),
                      NEW d \in stable \cap target, ~shifted(d), ~unkeyed(d)
               PROVE  readers(d) # {}
    BY DEF NothingMissed
  <2>1. PICK j \in jobs : d \in Zone(j)
    BY DEF SplitInv, PartsInv, Covered
  <2>2. <<j, d>> \in read
    BY <2>1 DEF SplitInv, PartsInv, ReadInv
  <2>3. QED
    BY <2>2 DEF readers
<1>2. QED
  BY <1>1, SplitInvariant, PTL

=============================================================================
