---------------------------- MODULE JobRunProofs ----------------------------
(***************************************************************************)
(* Theorems about deduplicating jobs for any number of jobs, records,      *)
(* deliveries, attempts and faults.                                        *)
(***************************************************************************)
EXTENDS JobRun, FiniteSetTheorems, WellFoundedInduction, TLAPS

----------------------------------------------------------------------------
(* Type correctness. *)

TypeTable == /\ claims \in [Records -> Jobs \cup {NoJob}]
             /\ inserting \in [Records -> Runs \cup {NoRun}]
             /\ released \subseteq Records
TypeRuns == /\ rpc \in [Runs -> Busy \cup {"message", "done", "dead"}]
            /\ won \in [Runs -> SUBSET Records]
            /\ unsent \in [Runs -> SUBSET Nat] /\ \A r \in Runs : unsent[r] \subseteq DOMAIN Slice(r)
TypeLocal == /\ pos \in [Runs -> Nat]
             /\ attempt \in [Runs -> 1..MaxSends]
             /\ outcome \in [Runs -> {"completed", "deduplicated", "failed"}]
TypeJobs == /\ content \in Plans
            /\ row \in [Jobs -> {"dispatched", "running", "completed", "deduplicated", "failed", "gone"}]
            /\ legacy \subseteq Jobs /\ written_before \subseteq Jobs
            /\ faults \in 0..MaxFaults /\ happened \subseteq Trouble
TypeHanded == handed \in [Records -> SUBSET (Runs \X Nat)]

LEMMA TypeParts == TypeOK => TypeTable /\ TypeRuns /\ TypeLocal /\ TypeJobs /\ TypeHanded
BY DEF TypeOK, TypeTable, TypeRuns, TypeLocal, TypeJobs, TypeHanded

LEMMA TypeJoin ==
  ASSUME TypeTable', TypeRuns', TypeLocal', TypeJobs', TypeHanded'
  PROVE  TypeOK'
BY DEF TypeOK, TypeTable, TypeRuns, TypeLocal, TypeJobs, TypeHanded

LEMMA TypeInit == Init => TypeOK
BY JobOfAssumption, EarlierAssumption, BoundsAssumption DEF Init, TypeOK, Busy, Trouble

\* What a slice is.
LEMMA SliceFacts ==
  ASSUME TypeOK, NEW r \in Runs
  PROVE  /\ Slice(r) \in Seq(Records)
         /\ DOMAIN Slice(r) \subseteq Nat
         /\ \A i \in DOMAIN Slice(r) : Slice(r)[i] \in Records
         /\ \A S : kept(r, S) \subseteq DOMAIN Slice(r)
         /\ \A S : \A i \in kept(r, S) : Slice(r)[i] \in S
<1>1. Slice(r) \in Seq(Records)
  BY JobOfAssumption, PlansAssumption, TypeParts DEF TypeJobs, Slice
<1>2. DOMAIN Slice(r) = 1..Len(Slice(r)) /\ Len(Slice(r)) \in Nat
  BY <1>1
<1>3. QED
  BY <1>1, <1>2 DEF kept

LEMMA FaultType ==
  ASSUME TypeOK, NEW kind \in Trouble, Fault(kind) \/ Trace(kind)
  PROVE  faults' \in 0..MaxFaults /\ happened' \subseteq Trouble
BY BoundsAssumption, TypeParts DEF Fault, Trace, TypeJobs

\* The run ends and forgets.
LEMMA EndType ==
  ASSUME TypeOK, NEW r \in Runs, NEW step \in {"done", "dead"}, end(r, step), UNCHANGED content
  PROVE  TypeRuns' /\ TypeLocal'
<1>1. TypeLocal'
  BY BoundsAssumption, TypeParts DEF end, TypeLocal
<1>2. /\ rpc' \in [Runs -> Busy \cup {"message", "done", "dead"}]
      /\ won' \in [Runs -> SUBSET Records]
      /\ unsent' = [unsent EXCEPT ![r] = {}]
  BY TypeParts DEF end, goto, TypeRuns
<1>3. unsent' \in [Runs -> SUBSET Nat] /\ \A q \in Runs : unsent'[q] \subseteq unsent[q]
  BY <1>2, TypeParts DEF TypeRuns
<1>4. \A q \in Runs : unsent'[q] \subseteq DOMAIN Slice(q)'
  BY <1>3, TypeParts DEF TypeRuns, Slice
<1>5. QED
  BY <1>1, <1>2, <1>3, <1>4 DEF TypeRuns

\* A step of the run that sends nothing.
LEMMA MoveType ==
  ASSUME TypeOK, NEW r \in Runs, NEW step \in Busy \cup {"done"}, goto(r, step),
         UNCHANGED content, won' \in [Runs -> SUBSET Records],
         unsent' = unsent \/ \E S : S \subseteq DOMAIN Slice(r) /\ unsent' = [unsent EXCEPT ![r] = S]
  PROVE  TypeRuns'
<1>1. rpc' \in [Runs -> Busy \cup {"message", "done", "dead"}]
  BY TypeParts DEF goto, TypeRuns
<1>2. unsent' \in [Runs -> SUBSET Nat] /\ \A q \in Runs : unsent'[q] \subseteq DOMAIN Slice(q)
  BY SliceFacts, TypeParts DEF TypeRuns
<1>3. \A q \in Runs : unsent'[q] \subseteq DOMAIN Slice(q)'
  BY <1>2 DEF Slice
<1>4. QED
  BY <1>1, <1>2, <1>3 DEF TypeRuns

LEMMA TypeClaiming ==
  ASSUME TypeOK, NEW r \in Runs,
         _claim_job(r) \/ claim_fails_open(r) \/ run_job_records(r) \/ held_by_other_job(r)
  PROVE  TypeOK'
<1> USE DEF table, Busy
<1>1. TypeTable' /\ TypeHanded'
  BY TypeParts DEF _claim_job, claim_fails_open, run_job_records, held_by_other_job, TypeTable, TypeHanded
<1>2. TypeLocal'
  BY TypeParts DEF _claim_job, claim_fails_open, run_job_records, held_by_other_job, then_report, TypeLocal
<1>3. TypeRuns'
  <2>1. /\ \E step \in Busy \cup {"done"} : goto(r, step)
        /\ UNCHANGED <<content, won, unsent>>
    BY DEF _claim_job, claim_fails_open, run_job_records, held_by_other_job, then_report
  <2>2. won' \in [Runs -> SUBSET Records]
    BY <2>1, TypeParts DEF TypeRuns
  <2>3. QED
    BY <2>1, <2>2, MoveType
<1>4. TypeJobs'
  <2>1. JobOf[r] \in Jobs
    BY JobOfAssumption
  <2>2. CASE _claim_job(r)
    BY <2>1, <2>2, TypeParts DEF _claim_job, may_run, TypeJobs, Trouble
  <2>3. CASE claim_fails_open(r)
    BY <2>3, FaultType, TypeParts DEF claim_fails_open, TypeJobs, Trouble
  <2>4. CASE run_job_records(r) \/ held_by_other_job(r)
    BY <2>1, <2>4, TypeParts DEF run_job_records, held_by_other_job, TypeJobs
  <2>5. QED
    BY <2>2, <2>3, <2>4
<1>5. QED
  BY <1>1, <1>2, <1>3, <1>4, TypeJoin

LEMMA TypeRecords ==
  ASSUME TypeOK, NEW r \in Runs, insert_record(r) \/ commit_claims(r) \/ claim_deadlock(r)
  PROVE  TypeOK'
<1>j. JobOf[r] \in Jobs
  BY JobOfAssumption
<1>h. held(r) \subseteq Records
  BY SliceFacts DEF held, Inserted, RecordsOf, Slice
<1>b. rolled_back(r) \in [Records -> Runs \cup {NoRun}]
  BY TypeParts DEF rolled_back, TypeTable
<1>1. CASE insert_record(r)
  <2>1. TypeTable'
    BY <1>1, SliceFacts, TypeParts DEF insert_record, TypeTable
  <2>2. TypeLocal'
    BY <1>1, TypeParts DEF insert_record, TypeLocal
  <2>3. TypeRuns' /\ TypeJobs' /\ TypeHanded'
    BY <1>1, TypeParts DEF insert_record, TypeRuns, TypeJobs, TypeHanded, Slice
  <2>4. QED
    BY <2>1, <2>2, <2>3, TypeJoin
<1>2. CASE commit_claims(r)
  <2>1. TypeTable'
    BY <1>2, <1>j, <1>b, TypeParts DEF commit_claims, TypeTable
  <2>2. TypeLocal'
    BY <1>2, TypeParts DEF commit_claims, then_report, TypeLocal
  <2>3. TypeRuns'
    <3>1. /\ \E step \in Busy : goto(r, step)
          /\ UNCHANGED <<content, unsent>> /\ won' = [won EXCEPT ![r] = held(r)]
      BY <1>2 DEF commit_claims, then_report, Busy
    <3>2. won' \in [Runs -> SUBSET Records]
      BY <3>1, <1>h, TypeParts DEF TypeRuns
    <3>3. QED
      BY <3>1, <3>2, MoveType
  <2>4. TypeJobs' /\ TypeHanded'
    BY <1>2, TypeParts DEF commit_claims, TypeJobs, TypeHanded
  <2>5. QED
    BY <2>1, <2>2, <2>3, <2>4, TypeJoin
<1>3. CASE claim_deadlock(r)
  <2>1. TypeTable'
    BY <1>3, <1>b, TypeParts DEF claim_deadlock, TypeTable
  <2>2. TypeLocal'
    BY <1>3, TypeParts DEF claim_deadlock, then_report, TypeLocal
  <2>3. TypeRuns'
    <3>1. goto(r, "report") /\ UNCHANGED <<content, unsent, won>>
      BY <1>3 DEF claim_deadlock, then_report
    <3>2. won' \in [Runs -> SUBSET Records]
      BY <3>1, TypeParts DEF TypeRuns
    <3>3. QED
      BY <3>1, <3>2, MoveType DEF Busy
  <2>4. faults' \in 0..MaxFaults /\ happened' \subseteq Trouble
    BY <1>3, FaultType DEF claim_deadlock, Trouble
  <2>5. TypeJobs' /\ TypeHanded'
    BY <1>3, <2>4, TypeParts DEF claim_deadlock, TypeJobs, TypeHanded
  <2>6. QED
    BY <2>1, <2>2, <2>3, <2>5, TypeJoin
<1>4. QED
  BY <1>1, <1>2, <1>3

LEMMA TypeSending ==
  ASSUME TypeOK, NEW r \in Runs,
         health_check(r) \/ accept(r) \/ sent(r) \/ send_with_retry(r) \/ fails(r)
  PROVE  TypeOK'
<1>1. TypeTable'
  BY TypeParts DEF health_check, accept, sent, send_with_retry, fails, table, TypeTable
<1>2. TypeLocal'
  BY BoundsAssumption, TypeParts DEF health_check, accept, sent, send_with_retry, fails, may_retry, attempts_used,
         then_report, TypeLocal
<1>3. TypeRuns'
  <2>w. UNCHANGED <<content, won>> /\ won' \in [Runs -> SUBSET Records]
    BY TypeParts DEF health_check, accept, sent, send_with_retry, fails, TypeRuns
  <2>k. kept(r, won[r]) \subseteq DOMAIN Slice(r) /\ unsent[r] \subseteq DOMAIN Slice(r)
    BY SliceFacts, TypeParts DEF TypeRuns
  <2>1. CASE health_check(r)
    BY <2>1, <2>w, <2>k, MoveType DEF health_check, Busy
  <2>2. CASE accept(r) \/ send_with_retry(r)
    <3>1. goto(r, "send")
      BY <2>2, TypeParts DEF accept, send_with_retry, goto, TypeRuns
    <3>2. \E S : S \subseteq DOMAIN Slice(r) /\ unsent' = [unsent EXCEPT ![r] = S]
      BY <2>2, <2>k DEF accept, send_with_retry
    <3>3. QED
      BY <2>w, <3>1, <3>2, MoveType DEF Busy
  <2>3. CASE sent(r)
    BY <2>3, <2>w, MoveType DEF sent, then_report, Busy
  <2>4. CASE fails(r)
    <3>1. \E step \in {"report", "release"} : goto(r, step)
      BY <2>4 DEF fails, then_report
    <3>2. unsent' = [unsent EXCEPT ![r] = {}]
      BY <2>4 DEF fails
    <3>3. QED
      BY <2>w, <3>1, <3>2, MoveType DEF Busy
  <2>5. QED
    BY <2>1, <2>2, <2>3, <2>4
<1>4. TypeJobs'
  <2>1. faults' \in 0..MaxFaults /\ happened' \subseteq Trouble
    BY FaultType, TypeParts DEF health_check, accept, sent, send_with_retry, fails, TypeJobs, Trouble
  <2>2. QED
    BY <2>1, TypeParts DEF health_check, accept, sent, send_with_retry, fails, TypeJobs
<1>5. TypeHanded'
  <2>1. CASE UNCHANGED handed
    BY <2>1, TypeParts DEF TypeHanded
  <2>2. ASSUME NEW i \in unsent[r], handed' = [handed EXCEPT ![Slice(r)[i]] = @ \cup {<<r, i>>}]
        PROVE  TypeHanded'
    <3>1. i \in Nat /\ Slice(r)[i] \in Records
      BY SliceFacts, TypeParts DEF TypeRuns
    <3>2. QED
      BY <2>2, <3>1, TypeParts DEF TypeHanded
  <2>3. QED
    BY <2>1, <2>2 DEF health_check, accept, sent, send_with_retry, fails
<1>6. QED
  BY <1>1, <1>2, <1>3, <1>4, <1>5, TypeJoin

LEMMA ReleaseType ==
  ASSUME TypeOK, NEW r \in Runs, release_record_hashes(r)
  PROVE  claims' \in [Records -> Jobs \cup {NoJob}] /\ released' \subseteq Records
BY TypeParts DEF release_record_hashes, released_by, TypeTable, TypeRuns

LEMMA TypeEnding ==
  ASSUME TypeOK, NEW r \in Runs,
         \/ release(r) \/ release_error(r) \/ _update_job_in_db(r) \/ update_error(r)
         \/ terminate(r) \/ kill(r)
  PROVE  TypeOK'
<1>h. TypeHanded'
  BY TypeParts DEF release, release_error, _update_job_in_db, update_error, terminate, kill, TypeHanded
<1>b. rolled_back(r) \in [Records -> Runs \cup {NoRun}]
  BY TypeParts DEF rolled_back, TypeTable
<1>t. TypeTable'
  <2>1. CASE release(r)
    BY <2>1, ReleaseType, TypeParts DEF release, TypeTable
  <2>2. CASE terminate(r)
    BY <2>2, <1>b, ReleaseType DEF terminate, TypeTable
  <2>3. CASE kill(r)
    BY <2>3, <1>b, TypeParts DEF kill, TypeTable
  <2>4. CASE release_error(r) \/ _update_job_in_db(r) \/ update_error(r)
    BY <2>4, TypeParts DEF release_error, _update_job_in_db, update_error, table, TypeTable
  <2>5. QED
    BY <2>1, <2>2, <2>3, <2>4
<1>j. TypeJobs'
  <2>1. JobOf[r] \in Jobs /\ outcome[r] \in {"completed", "deduplicated", "failed"}
    BY JobOfAssumption, TypeParts DEF TypeLocal
  <2>2. faults' \in 0..MaxFaults /\ happened' \subseteq Trouble
    BY FaultType, TypeParts DEF release, release_error, _update_job_in_db, update_error, terminate, kill,
                               TypeJobs, Trouble
  <2>3. CASE _update_job_in_db(r)
    BY <2>1, <2>2, <2>3, TypeParts DEF _update_job_in_db, TypeJobs
  <2>4. CASE ~_update_job_in_db(r)
    BY <2>2, <2>4, TypeParts DEF release, release_error, update_error, terminate, kill, TypeJobs
  <2>5. QED
    BY <2>3, <2>4
<1>1. CASE release(r) \/ release_error(r)
  <2>1. /\ goto(r, "report") /\ UNCHANGED <<content, won, unsent, pos, attempt>>
        /\ outcome' = [outcome EXCEPT ![r] = "failed"]
    BY <1>1 DEF release, release_error, then_report
  <2>2. TypeLocal' /\ won' \in [Runs -> SUBSET Records]
    BY <2>1, TypeParts DEF TypeLocal, TypeRuns
  <2>3. TypeRuns'
    BY <2>1, <2>2, MoveType DEF Busy
  <2>4. QED
    BY <1>h, <1>t, <1>j, <2>2, <2>3, TypeJoin
<1>2. CASE ~(release(r) \/ release_error(r))
  <2>1. \E step \in {"done", "dead"} : end(r, step)
    BY <1>2 DEF _update_job_in_db, update_error, terminate, kill
  <2>2. UNCHANGED content
    BY <1>2 DEF _update_job_in_db, update_error, terminate, kill
  <2>3. QED
    BY <1>h, <1>t, <1>j, <2>1, <2>2, EndType, TypeJoin
<1>3. QED
  BY <1>1, <1>2

LEMMA TypeManager ==
  ASSUME TypeOK,
         \/ \E j \in Jobs : requeue(j) \/ requeue_live(j)
         \/ purge_expired_content \/ purge_expired_executions
  PROVE  TypeOK'
<1>1. TypeRuns' /\ TypeLocal' /\ TypeHanded'
  BY TypeParts DEF requeue, requeue_live, purge_expired_content, purge_expired_executions, local,
                   TypeRuns, TypeLocal, TypeHanded, Slice
<1>2. ASSUME NEW j \in Jobs, requeue(j) \/ requeue_live(j) PROVE TypeTable' /\ TypeJobs'
  <2>1. TypeTable'
    BY <1>2, TypeParts DEF requeue, requeue_live, table, TypeTable
  <2>2. faults' \in 0..MaxFaults /\ happened' \subseteq Trouble
    BY <1>2, FaultType, TypeParts DEF requeue, requeue_live, TypeJobs, Trouble
  <2>3. QED
    BY <1>2, <2>1, <2>2, TypeParts DEF requeue, requeue_live, TypeJobs
<1>3. CASE purge_expired_content
  <2>1. faults' \in 0..MaxFaults /\ happened' \subseteq Trouble
    BY <1>3, FaultType DEF purge_expired_content, Trouble
  <2>2. TypeTable'
    BY <1>3, TypeParts DEF purge_expired_content, TypeTable
  <2>3. TypeJobs'
    BY <1>3, <2>1, TypeParts DEF purge_expired_content, TypeJobs
  <2>4. QED
    BY <1>1, <2>2, <2>3, TypeJoin
<1>4. CASE purge_expired_executions
  <2>1. TypeTable'
    BY <1>4, TypeParts DEF purge_expired_executions, table, TypeTable
  <2>2. TypeJobs'
    BY <1>4, BoundsAssumption, TypeParts DEF purge_expired_executions, TypeJobs
  <2>3. QED
    BY <1>1, <2>1, <2>2, TypeJoin
<1>5. QED
  BY <1>1, <1>2, <1>3, <1>4, TypeJoin

LEMMA TypeNext == TypeOK /\ [Next]_vars => TypeOK'
<1> SUFFICES ASSUME TypeOK, [Next]_vars PROVE TypeOK'
  OBVIOUS
<1>1. CASE UNCHANGED vars
  BY <1>1 DEF TypeOK, Slice, vars
<1>2. CASE Next
  BY <1>2, TypeClaiming, TypeRecords, TypeSending, TypeEnding, TypeManager DEF Next, Step
<1>3. QED
  BY <1>1, <1>2

\* Every field keeps its type; a run never has positions to send that its slice lacks.
THEOREM TypeCorrect == Spec => []TypeOK
BY TypeInit, TypeNext, PTL DEF Spec

----------------------------------------------------------------------------
(* OneJobDelivers: unless a claim was deleted, the job that holds it is    *)
(* the one whose runs won the record, and the one they delivered it for.   *)

ClaimInv ==
  /\ \A x \in Records : inserting[x] # NoRun => claims[x] = NoJob /\ rpc[inserting[x]] = "claim"
  /\ \A r \in Runs : \A x \in won[r] \ released : claims[x] = JobOf[r]
  /\ \A r \in Runs : \A i \in unsent[r] : Slice(r)[i] \in won[r]
  /\ \A r \in Runs : rpc[r] # "send" => unsent[r] = {}
  /\ \A x \in Records \ released : \A d \in handed[x] : claims[x] = JobOf[d[1]]

LEMMA ClaimInit == Init => ClaimInv
BY DEF Init, ClaimInv

\* Claims that are deleted are remembered, other claims stay, nothing new is won, sent or inserted.
LEMMA ClaimFrame ==
  ASSUME TypeOK, ClaimInv, UNCHANGED <<content, handed>>, released \subseteq released',
         \A x \in Records : /\ claims'[x] = claims[x] \/ (claims'[x] = NoJob /\ x \in released')
                            /\ inserting'[x] \in {inserting[x], NoRun},
         \A r \in Runs : /\ won'[r] = won[r] \/ (won'[r] = {} /\ unsent'[r] = {})
                         /\ unsent'[r] \subseteq unsent[r]
                         /\ rpc'[r] = rpc[r] \/ unsent'[r] = {}
                         /\ rpc[r] = "claim" => rpc'[r] = "claim" \/ \A x \in Records : inserting'[x] # r
  PROVE  ClaimInv'
<1>1. \A r \in Runs : won[r] \subseteq Records
  BY TypeParts DEF TypeRuns
<1>2. \A x \in Records : inserting'[x] # NoRun => claims'[x] = NoJob /\ rpc'[inserting'[x]] = "claim"
  BY TypeParts DEF ClaimInv, TypeTable
<1>3. \A r \in Runs : \A x \in won'[r] \ released' : claims'[x] = JobOf[r]
  BY <1>1 DEF ClaimInv
<1>4. \A r \in Runs : \A i \in unsent'[r] : Slice(r)'[i] \in won'[r]
  BY DEF ClaimInv, Slice
<1>5. \A r \in Runs : rpc'[r] # "send" => unsent'[r] = {}
  BY DEF ClaimInv
<1>6. \A x \in Records \ released' : \A d \in handed'[x] : claims'[x] = JobOf[d[1]]
  BY DEF ClaimInv
<1>7. QED
  BY <1>2, <1>3, <1>4, <1>5, <1>6 DEF ClaimInv

LEMMA ClaimRun ==
  ASSUME TypeOK, ClaimInv, NEW r \in Runs,
         _claim_job(r) \/ claim_fails_open(r) \/ run_job_records(r) \/ held_by_other_job(r)
  PROVE  ClaimInv'
<1>1. /\ UNCHANGED <<content, claims, inserting, released, won, unsent, handed>>
      /\ rpc[r] \notin {"send", "claim"} /\ \E step : rpc' = [rpc EXCEPT ![r] = step]
  BY DEF _claim_job, claim_fails_open, run_job_records, held_by_other_job, then_report, goto, table
<1>2. unsent[r] = {} /\ \A q \in Runs \ {r} : rpc'[q] = rpc[q]
  BY <1>1, TypeParts DEF ClaimInv, TypeRuns
<1>3. QED
  BY <1>1, <1>2, ClaimFrame

LEMMA ClaimInsert ==
  ASSUME TypeOK, ClaimInv, NEW r \in Runs, insert_record(r)
  PROVE  ClaimInv'
<1> DEFINE x == Slice(r)[pos[r]]
<1>1. x \in Records
  BY SliceFacts DEF insert_record
<1>2. /\ UNCHANGED <<content, claims, released, won, unsent, handed, rpc>>
      /\ inserting' = [inserting EXCEPT ![x] = IF claims[x] = NoJob THEN r ELSE inserting[x]]
  BY DEF insert_record
<1> HIDE DEF x
<1>3. \A y \in Records : inserting'[y] # NoRun => claims'[y] = NoJob /\ rpc'[inserting'[y]] = "claim"
  BY <1>1, <1>2, TypeParts DEF ClaimInv, TypeTable, insert_record
<1>4. QED
  BY <1>2, <1>3 DEF ClaimInv, Slice

LEMMA ClaimCommit ==
  ASSUME TypeOK, ClaimInv, NEW r \in Runs, commit_claims(r)
  PROVE  ClaimInv'
<1>t. /\ won \in [Runs -> SUBSET Records] /\ rpc \in [Runs -> Busy \cup {"message", "done", "dead"}]
  BY TypeParts DEF TypeRuns
<1>j. \A q \in Runs : JobOf[q] # NoJob /\ q # NoRun
  BY JobOfAssumption, NoneAssumption
<1>1. /\ rpc[r] = "claim" /\ UNCHANGED <<content, released, unsent, handed>>
      /\ claims' = [x \in Records |-> IF inserting[x] = r THEN JobOf[r] ELSE claims[x]]
      /\ inserting' = [x \in Records |-> IF inserting[x] = r THEN NoRun ELSE inserting[x]]
      /\ won' = [won EXCEPT ![r] = held(r)]
      /\ \E step : rpc' = [rpc EXCEPT ![r] = step]
  BY DEF commit_claims, rolled_back, then_report, goto
<1>2. unsent[r] = {}
  BY <1>1 DEF ClaimInv
<1>3. won'[r] = held(r) /\ \A q \in Runs \ {r} : won'[q] = won[q] /\ rpc'[q] = rpc[q]
  BY <1>t, <1>1
<1>4. \A x \in held(r) : x \in Records /\ claims'[x] = JobOf[r]
  <2>1. \A x \in RecordsOf(JobOf[r]) : x \in Records
    BY SliceFacts DEF RecordsOf, Slice
  <2>2. QED
    BY <1>1, <2>1 DEF held, Inserted
<1>5. \A x \in Records : claims[x] # NoJob => claims'[x] = claims[x]
  BY <1>1, <1>j DEF ClaimInv
<1>6. \A x \in Records : inserting'[x] # NoRun => claims'[x] = NoJob /\ rpc'[inserting'[x]] = "claim"
  BY <1>1, <1>3, TypeParts DEF ClaimInv, TypeTable
<1>7. \A q \in Runs : \A x \in won'[q] \ released' : claims'[x] = JobOf[q]
  <2> SUFFICES ASSUME NEW q \in Runs, NEW x \in won'[q] \ released' PROVE claims'[x] = JobOf[q]
    OBVIOUS
  <2>1. CASE q = r
    BY <2>1, <1>3, <1>4
  <2>2. CASE q # r
    BY <2>2, <1>t, <1>1, <1>3, <1>5, <1>j DEF ClaimInv
  <2>3. QED
    BY <2>1, <2>2
<1>8. \A q \in Runs : /\ \A i \in unsent'[q] : Slice(q)'[i] \in won'[q]
                      /\ rpc'[q] # "send" => unsent'[q] = {}
  BY <1>1, <1>2, <1>3 DEF ClaimInv, Slice
<1>9. \A x \in Records \ released' : \A d \in handed'[x] : claims'[x] = JobOf[d[1]]
  <2> SUFFICES ASSUME NEW x \in Records \ released', NEW d \in handed'[x] PROVE claims'[x] = JobOf[d[1]]
    OBVIOUS
  <2>1. d[1] \in Runs
    BY <1>1, TypeParts DEF TypeHanded
  <2>2. QED
    BY <1>1, <1>5, <1>j, <2>1 DEF ClaimInv
<1>10. QED
  BY <1>6, <1>7, <1>8, <1>9 DEF ClaimInv

LEMMA ClaimSend ==
  ASSUME TypeOK, ClaimInv, NEW r \in Runs, health_check(r) \/ accept(r) \/ sent(r) \/ send_with_retry(r) \/ fails(r)
  PROVE  ClaimInv'
<1>t. rpc \in [Runs -> Busy \cup {"message", "done", "dead"}] /\ unsent \in [Runs -> SUBSET Nat]
  BY TypeParts DEF TypeRuns
<1>u. UNCHANGED <<content, claims, inserting, released, won>>
  BY DEF health_check, accept, sent, send_with_retry, fails, table
<1>1. CASE health_check(r) \/ send_with_retry(r)
  <2>1. rpc' = [rpc EXCEPT ![r] = "send"] /\ unsent' = [unsent EXCEPT ![r] = kept(r, won[r])] /\ UNCHANGED handed
    BY <1>1, <1>t DEF health_check, send_with_retry, goto
  <2>2. /\ rpc'[r] = "send" /\ unsent'[r] = kept(r, won[r])
        /\ \A q \in Runs \ {r} : rpc'[q] = rpc[q] /\ unsent'[q] = unsent[q]
    BY <1>t, <2>1
  <2>3. \A i \in kept(r, won[r]) : Slice(r)[i] \in won[r]
    BY SliceFacts
  <2>4. \A x \in Records : inserting'[x] # NoRun => claims'[x] = NoJob /\ rpc'[inserting'[x]] = "claim"
    <3>1. rpc[r] # "claim"
      BY <1>1 DEF health_check, send_with_retry
    <3>2. QED
      BY <1>u, <2>2, <3>1, TypeParts DEF ClaimInv, TypeTable
  <2>5. QED
    BY <1>u, <2>1, <2>2, <2>3, <2>4 DEF ClaimInv, Slice
<1>2. CASE accept(r)
  <2>1. PICK i \in unsent[r] : /\ unsent' = [unsent EXCEPT ![r] = unsent[r] \ {i}]
                               /\ handed' = [handed EXCEPT ![Slice(r)[i]] = handed[Slice(r)[i]] \cup {<<r, i>>}]
    BY <1>2 DEF accept
  <2>2. Slice(r)[i] \in Records /\ Slice(r)[i] \in won[r]
    BY SliceFacts, TypeParts DEF TypeRuns, ClaimInv
  <2>3. \A q \in Runs : unsent'[q] \subseteq unsent[q]
    BY <1>t, <2>1
  <2>4. \A x \in Records : handed'[x] = handed[x] \/ (x = Slice(r)[i] /\ handed'[x] = handed[x] \cup {<<r, i>>})
    BY <2>1, <2>2, TypeParts DEF TypeHanded
  <2>5. \A x \in Records \ released' : \A d \in handed'[x] : claims'[x] = JobOf[d[1]]
    BY <1>u, <2>2, <2>4 DEF ClaimInv
  <2>6. UNCHANGED rpc
    BY <1>2 DEF accept
  <2>7. QED
    BY <1>u, <2>3, <2>5, <2>6 DEF ClaimInv, Slice
<1>3. CASE sent(r) \/ fails(r)
  <2>1. /\ \E step : rpc' = [rpc EXCEPT ![r] = step]
        /\ rpc[r] # "claim"
        /\ (unsent[r] = {} /\ UNCHANGED unsent) \/ unsent' = [unsent EXCEPT ![r] = {}]
        /\ UNCHANGED handed
    BY <1>3 DEF sent, fails, then_report, goto
  <2>2. unsent'[r] = {} /\ \A q \in Runs \ {r} : rpc'[q] = rpc[q] /\ unsent'[q] = unsent[q]
    BY <1>t, <2>1
  <2>3. QED
    BY <1>u, <2>1, <2>2, ClaimFrame
<1>4. QED
  BY <1>1, <1>2, <1>3

LEMMA ReleaseKeeps ==
  ASSUME TypeOK, NEW r \in Runs, release_record_hashes(r)
  PROVE  /\ released \subseteq released'
         /\ \A x \in Records : claims'[x] = claims[x] \/ (claims'[x] = NoJob /\ x \in released')
BY TypeParts DEF release_record_hashes, TypeTable

\* A run that is part of a cycle of waits is inserting.
LEMMA DeadlockClaims ==
  ASSUME TypeOK, ClaimInv, NEW r \in Runs, claim_deadlock(r)
  PROVE  rpc[r] = "claim"
<1>1. PICK cycle \in SUBSET Runs : r \in cycle /\ UNION {waits_for(s) : s \in cycle} = cycle
  BY DEF claim_deadlock
<1>2. PICK s \in cycle : r \in waits_for(s)
  BY <1>1
<1>3. s \in Runs /\ pos[s] \in DOMAIN Slice(s) /\ r = inserting[Slice(s)[pos[s]]] /\ r # NoRun
  BY <1>1, <1>2 DEF waits_for
<1>4. QED
  BY <1>3, SliceFacts DEF ClaimInv

LEMMA ClaimEnd ==
  ASSUME TypeOK, ClaimInv, NEW r \in Runs,
         \/ claim_deadlock(r) \/ release(r) \/ release_error(r) \/ _update_job_in_db(r) \/ update_error(r)
         \/ terminate(r) \/ kill(r)
  PROVE  ClaimInv'
<1>t. /\ rpc \in [Runs -> Busy \cup {"message", "done", "dead"}] /\ unsent \in [Runs -> SUBSET Nat]
      /\ won \in [Runs -> SUBSET Records]
  BY TypeParts DEF TypeRuns
<1>1. UNCHANGED <<content, handed>>
  BY DEF claim_deadlock, release, release_error, _update_job_in_db, update_error, terminate, kill
<1>2. \A x \in Records : inserting'[x] \in {inserting[x], NoRun}
  BY DEF claim_deadlock, release, release_error, _update_job_in_db, update_error, terminate, kill, rolled_back, table
<1>3. /\ released \subseteq released'
      /\ \A x \in Records : claims'[x] = claims[x] \/ (claims'[x] = NoJob /\ x \in released')
  BY ReleaseKeeps DEF claim_deadlock, release, release_error, _update_job_in_db, update_error, terminate, kill, table
<1>4. CASE claim_deadlock(r) \/ release(r) \/ release_error(r)
  <2>1. rpc[r] # "send" /\ (rpc[r] = "claim" => \A x \in Records : inserting'[x] # r)
    <3>1. CASE claim_deadlock(r)
      BY <3>1, DeadlockClaims, NoneAssumption DEF claim_deadlock, rolled_back
    <3>2. CASE release(r) \/ release_error(r)
      BY <3>2 DEF release, release_error
    <3>3. QED
      BY <1>4, <3>1, <3>2
  <2>4. UNCHANGED <<won, unsent>> /\ rpc' = [rpc EXCEPT ![r] = "report"]
    BY <1>4 DEF claim_deadlock, release, release_error, then_report, goto
  <2>2. unsent[r] = {} /\ \A q \in Runs \ {r} : rpc'[q] = rpc[q]
    BY <1>t, <2>1, <2>4 DEF ClaimInv
  <2>3. QED
    BY <1>1, <1>2, <1>3, <2>1, <2>2, <2>4, ClaimFrame
<1>5. CASE _update_job_in_db(r) \/ update_error(r) \/ terminate(r) \/ kill(r)
  <2>1. /\ \E step : rpc' = [rpc EXCEPT ![r] = step]
        /\ won' = [won EXCEPT ![r] = {}] /\ unsent' = [unsent EXCEPT ![r] = {}]
    BY <1>5 DEF _update_job_in_db, update_error, terminate, kill, end, goto
  <2>2. /\ won'[r] = {} /\ unsent'[r] = {}
        /\ \A q \in Runs \ {r} : rpc'[q] = rpc[q] /\ won'[q] = won[q] /\ unsent'[q] = unsent[q]
    BY <1>t, <2>1
  <2>3. rpc[r] = "claim" => \A x \in Records : inserting'[x] # r
    BY <1>5, NoneAssumption DEF _update_job_in_db, update_error, terminate, kill, rolled_back
  <2>4. QED
    BY <1>1, <1>2, <1>3, <2>2, <2>3, ClaimFrame
<1>6. QED
  BY <1>4, <1>5

LEMMA ClaimNext == TypeOK /\ ClaimInv /\ [Next]_vars => ClaimInv'
<1> SUFFICES ASSUME TypeOK, ClaimInv, [Next]_vars PROVE ClaimInv'
  OBVIOUS
<1>1. CASE UNCHANGED vars
  BY <1>1, ClaimFrame DEF vars
<1>2. ASSUME NEW j \in Jobs, requeue(j) \/ requeue_live(j) PROVE ClaimInv'
  BY <1>2, ClaimFrame DEF requeue, requeue_live, table, local
<1>3. CASE purge_expired_executions
  BY <1>3, ClaimFrame DEF purge_expired_executions, table, local
<1>4. CASE purge_expired_content
  <2>1. /\ UNCHANGED <<content, inserting, handed, rpc, won, unsent>>
        /\ \/ UNCHANGED <<claims, released>>
           \/ \E x \in Records : claims' = [claims EXCEPT ![x] = NoJob] /\ released' = released \cup {x}
    BY <1>4 DEF purge_expired_content, local
  <2>2. /\ released \subseteq released'
        /\ \A x \in Records : claims'[x] = claims[x] \/ (claims'[x] = NoJob /\ x \in released')
    BY <2>1, TypeParts DEF TypeTable
  <2>3. QED
    BY <2>1, <2>2, ClaimFrame
<1>5. QED
  BY <1>1, <1>2, <1>3, <1>4, ClaimRun, ClaimInsert, ClaimCommit, ClaimSend, ClaimEnd DEF Next, Step

\* Two jobs whose slices share a record do not both deliver it, however many deliveries,
\* crashes, retries and requeues there are, unless its claim was deleted.
THEOREM RecordsDeliveredByOneJob == Spec => []OneJobDelivers
<1>1. ClaimInv => OneJobDelivers
  BY DEF ClaimInv, OneJobDelivers
<1>2. QED
  BY <1>1, TypeInit, TypeNext, ClaimInit, ClaimNext, PTL DEF Spec

----------------------------------------------------------------------------
(* One run of a job at a time: without an overlap the row of a job says    *)
(* "running" as long as a run of it is going, so no message starts another.*)

RunStep(r) == Step(r) \/ release_error(r) \/ update_error(r) \/ terminate(r) \/ kill(r)

\* A step of a run that took its message leaves the other runs alone.
LEMMA RunFrame ==
  ASSUME TypeOK, ClaimInv, NEW r \in Runs, RunStep(r)
  PROVE  /\ rpc[r] \in Busy /\ happened \subseteq happened' /\ UNCHANGED content
         /\ \A q \in Runs \ {r} : /\ rpc'[q] = rpc[q] /\ pos'[q] = pos[q] /\ won'[q] = won[q]
                                 /\ unsent'[q] = unsent[q] /\ outcome'[q] = outcome[q]
<1>t. rpc \in [Runs -> Busy \cup {"message", "done", "dead"}] /\ won \in [Runs -> SUBSET Records]
      /\ unsent \in [Runs -> SUBSET Nat] /\ pos \in [Runs -> Nat]
      /\ outcome \in [Runs -> {"completed", "deduplicated", "failed"}]
  BY TypeParts DEF TypeRuns, TypeLocal
<1>1. CASE run_job_records(r) \/ held_by_other_job(r) \/ insert_record(r)
  BY <1>t, <1>1 DEF run_job_records, held_by_other_job, insert_record, then_report, goto, Busy
<1>2. CASE commit_claims(r)
  BY <1>t, <1>2 DEF commit_claims, then_report, goto, Busy
<1>3. CASE claim_deadlock(r)
  BY <1>t, <1>3, DeadlockClaims DEF claim_deadlock, then_report, goto, Trace, Busy
<1>4. CASE health_check(r) \/ sent(r) \/ send_with_retry(r) \/ fails(r)
  BY <1>t, <1>4 DEF health_check, sent, send_with_retry, fails, then_report, goto, Trace, Busy
<1>5. CASE accept(r)
  BY <1>t, <1>5 DEF accept, Busy
<1>6. CASE release(r) \/ release_error(r)
  BY <1>t, <1>6 DEF release, release_error, then_report, goto, Fault, Busy
<1>7. CASE _update_job_in_db(r) \/ update_error(r) \/ terminate(r) \/ kill(r)
  BY <1>t, <1>7 DEF _update_job_in_db, update_error, terminate, kill, end, goto, Fault, Busy
<1>8. QED
  BY <1>1, <1>2, <1>3, <1>4, <1>5, <1>6, <1>7 DEF RunStep, Step

\* Its only write to a row is its report, with which it ends.
LEMMA RunRow ==
  ASSUME TypeOK, NEW r \in Runs, RunStep(r)
  PROVE  \/ UNCHANGED row
         \/ /\ _update_job_in_db(r) /\ rpc'[r] = "done"
            /\ row'[JobOf[r]] = IF row[JobOf[r]] = "gone" THEN "gone" ELSE outcome[r]
            /\ \A j \in Jobs \ {JobOf[r]} : row'[j] = row[j]
<1>1. CASE _update_job_in_db(r)
  BY <1>1, JobOfAssumption, TypeParts DEF _update_job_in_db, end, goto, TypeJobs, TypeRuns
<1>2. CASE ~_update_job_in_db(r)
  BY <1>2 DEF RunStep, Step, run_job_records, held_by_other_job, insert_record, commit_claims, claim_deadlock,
       health_check, accept, sent, send_with_retry, fails, release, release_error, update_error, terminate, kill
<1>3. QED
  BY <1>1, <1>2

\* The other steps.
LEMMA NextCases ==
  ASSUME TypeOK, ClaimInv, [Next]_vars
  PROVE  \/ UNCHANGED vars
         \/ \E r \in Runs : _claim_job(r) \/ claim_fails_open(r) \/ RunStep(r)
         \/ \E j \in Jobs : requeue(j) \/ requeue_live(j)
         \/ purge_expired_content \/ purge_expired_executions
BY DEF Next, RunStep

Alone ==
  "overlap" \notin happened =>
      \A r \in Runs : rpc[r] \in Busy =>
          /\ row[JobOf[r]] = "running"
          /\ \A s \in Runs : JobOf[s] = JobOf[r] /\ rpc[s] \in Busy => s = r

LEMMA AloneInit == Init => Alone
BY DEF Init, Alone, Busy

LEMMA AloneClaim ==
  ASSUME TypeOK, ClaimInv, Alone, NEW r \in Runs, _claim_job(r)
  PROVE  Alone'
<1> DEFINE j == JobOf[r]
<1>1. j \in Jobs
  BY JobOfAssumption
<1>2. CASE row[j] = "dispatched"
  <2>1. row' = [row EXCEPT ![j] = "running"] /\ rpc' = [rpc EXCEPT ![r] = "fetch"] /\ UNCHANGED happened
    BY <1>2 DEF _claim_job, may_run, goto
  <2>2. /\ row'[j] = "running" /\ \A k \in Jobs : k # j => row'[k] = row[k]
        /\ rpc'[r] = "fetch" /\ \A q \in Runs : q # r => rpc'[q] = rpc[q]
    BY <1>1, <2>1, TypeParts DEF TypeJobs, TypeRuns
  <2>3. QED
    BY <1>2, <2>1, <2>2, JobOfAssumption DEF Alone
<1>3. CASE row[j] = "gone"
  BY <1>3 DEF _claim_job, may_run, Alone
<1>4. CASE row[j] \notin {"dispatched", "gone"}
  <2>1. UNCHANGED <<row, happened>> /\ rpc' = [rpc EXCEPT ![r] = "done"]
    BY <1>4 DEF _claim_job, may_run, goto
  <2>2. \A q \in Runs : rpc'[q] = rpc[q] \/ rpc'[q] = "done"
    BY <2>1, TypeParts DEF TypeRuns
  <2>3. QED
    BY <2>1, <2>2 DEF Alone, Busy
<1>5. QED
  BY <1>2, <1>3, <1>4

LEMMA AloneNext == TypeOK /\ ClaimInv /\ Alone /\ [Next]_vars => Alone'
<1> SUFFICES ASSUME TypeOK, ClaimInv, Alone, [Next]_vars PROVE Alone'
  OBVIOUS
<1>0. CASE UNCHANGED vars
  BY <1>0 DEF vars, Alone
<1>1. ASSUME NEW r \in Runs, claim_fails_open(r) PROVE Alone'
  BY <1>1 DEF claim_fails_open, Fault, Alone
<1>2. ASSUME NEW r \in Runs, RunStep(r) PROVE Alone'
  <2>1. /\ rpc[r] \in Busy /\ happened \subseteq happened'
        /\ \A q \in Runs \ {r} : rpc'[q] = rpc[q]
    BY <1>2, RunFrame
  <2>2. UNCHANGED row \/ (rpc'[r] = "done" /\ \A j \in Jobs \ {JobOf[r]} : row'[j] = row[j])
    BY <1>2, RunRow
  <2>3. QED
    BY <2>1, <2>2, JobOfAssumption DEF Alone, Busy
<1>3. ASSUME NEW j \in Jobs, requeue(j) PROVE Alone'
  <2>1. ~Live(j) /\ row' = [row EXCEPT ![j] = "dispatched"] /\ UNCHANGED <<rpc, happened>>
    BY <1>3 DEF requeue, local
  <2>2. \A k \in Jobs : k # j => row'[k] = row[k]
    BY <2>1, TypeParts DEF TypeJobs
  <2>3. QED
    BY <2>1, <2>2, JobOfAssumption DEF Alone, Live
<1>4. ASSUME NEW j \in Jobs, requeue_live(j) PROVE Alone'
  BY <1>4 DEF requeue_live, Fault, Alone
<1>5. CASE purge_expired_content
  BY <1>5 DEF purge_expired_content, Fault, local, Alone
<1>6. CASE purge_expired_executions
  <2>1. UNCHANGED <<rpc, happened>> /\ \A j \in Jobs : row[j] # "running"
    BY <1>6 DEF purge_expired_executions, local, Settled
  <2>2. QED
    BY <2>1, JobOfAssumption DEF Alone
<1>7. QED
  BY <1>0, <1>1, <1>2, <1>3, <1>4, <1>5, <1>6, AloneClaim, NextCases

----------------------------------------------------------------------------
(* FailedHoldsNothing: as long as nothing worse than an error happened, a  *)
(* claim belongs to a job that settled or to the run of it that holds it.  *)

\* A run that has records it won and does not report a failure.
MayKeep(r) == rpc[r] \in {"health", "send", "release"} \/ (rpc[r] = "report" /\ outcome[r] # "failed")

WellHeld(x) ==
  \/ row[claims[x]] \in Settled \cup {"gone"}
  \/ \E r \in Runs : JobOf[r] = claims[x] /\ MayKeep(r) /\ x \in won[r]

HoldInv == happened \subseteq {"error"} => \A x \in Records : claims[x] # NoJob => WellHeld(x)

LEMMA HoldInit == Init => HoldInv
BY DEF Init, HoldInv

\* While a run is going, the claims of its job are records that this run won.
LEMMA HoldOwn ==
  ASSUME HoldInv, Alone, NEW r \in Runs, rpc[r] \in Busy, happened \subseteq {"error"},
         NEW x \in Records, claims[x] = JobOf[r]
  PROVE  MayKeep(r) /\ x \in won[r]
<1>1. row[JobOf[r]] = "running" /\ \A s \in Runs : JobOf[s] = JobOf[r] /\ rpc[s] \in Busy => s = r
  BY DEF Alone
<1>2. \A s \in Runs : MayKeep(s) => rpc[s] \in Busy
  BY DEF MayKeep, Busy
<1>3. QED
  BY <1>1, <1>2, JobOfAssumption, NoneAssumption DEF HoldInv, WellHeld, Settled

LEMMA HoldStep ==
  ASSUME TypeOK, ClaimInv, Alone, HoldInv, NEW r \in Runs, RunStep(r), happened' \subseteq {"error"},
         NEW x \in Records, claims'[x] = JobOf[r]
  PROVE  row'[JobOf[r]] \in Settled \cup {"gone"} \/ (MayKeep(r)' /\ x \in won'[r])
<1>f. rpc[r] \in Busy /\ happened \subseteq {"error"}
  BY RunFrame
<1>t. /\ rpc \in [Runs -> Busy \cup {"message", "done", "dead"}] /\ won \in [Runs -> SUBSET Records]
      /\ outcome \in [Runs -> {"completed", "deduplicated", "failed"}]
  BY TypeParts DEF TypeRuns, TypeLocal
<1>j. JobOf[r] \in Jobs /\ JobOf[r] # NoJob
  BY JobOfAssumption, NoneAssumption
<1>1. CASE run_job_records(r) \/ held_by_other_job(r) \/ insert_record(r) \/ claim_deadlock(r)
  <2>1. ~MayKeep(r) /\ UNCHANGED claims
    BY <1>1, DeadlockClaims DEF run_job_records, held_by_other_job, insert_record, claim_deadlock, table, MayKeep
  <2>2. QED
    BY <2>1, <1>f, HoldOwn
<1>2. CASE commit_claims(r)
  <2>1. ~MayKeep(r) /\ claims[x] # JobOf[r]
    BY <1>2, <1>f, HoldOwn DEF commit_claims, MayKeep
  <2>2. inserting[x] = r /\ x \in held(r)
    BY <1>2, <2>1 DEF commit_claims, held, Inserted
  <2>3. won'[r] = held(r)
    BY <1>2, <1>t DEF commit_claims
  <2>4. MayKeep(r)'
    BY <1>2, <1>t DEF commit_claims, then_report, goto, MayKeep
  <2>5. QED
    BY <2>2, <2>3, <2>4
<1>3. CASE health_check(r) \/ accept(r) \/ sent(r) \/ send_with_retry(r)
  <2>1. UNCHANGED <<claims, won>>
    BY <1>3 DEF health_check, accept, sent, send_with_retry, table
  <2>2. MayKeep(r)'
    BY <1>3, <1>t DEF health_check, accept, sent, send_with_retry, then_report, goto, MayKeep
  <2>3. QED
    BY <2>1, <2>2, <1>f, HoldOwn
<1>4. CASE fails(r)
  <2>1. UNCHANGED <<claims, won>>
    BY <1>4 DEF fails, table
  <2>2. x \in won[r]
    BY <2>1, <1>f, HoldOwn
  <2>3. rpc'[r] = "release"
    BY <1>4, <1>t, <2>2 DEF fails, goto
  <2>4. QED
    BY <2>1, <2>2, <2>3 DEF MayKeep
<1>5. CASE release(r)
  <2>1. claims[x] = JobOf[r] /\ x \notin released_by(r)
    BY <1>5, <1>j DEF release, release_record_hashes
  <2>2. QED
    BY <2>1, <1>f, HoldOwn DEF released_by
<1>6. CASE _update_job_in_db(r)
  <2>1. UNCHANGED claims /\ rpc[r] = "report"
    BY <1>6 DEF _update_job_in_db, table
  <2>2. outcome[r] # "failed"
    BY <2>1, <1>f, HoldOwn DEF MayKeep
  <2>3. row'[JobOf[r]] \in {"gone", outcome[r]}
    BY <1>6, <1>j, TypeParts DEF _update_job_in_db, TypeJobs
  <2>4. QED
    BY <1>t, <2>2, <2>3 DEF Settled
<1>7. CASE release_error(r) \/ update_error(r) \/ terminate(r) \/ kill(r)
  BY <1>7 DEF release_error, update_error, terminate, kill, Fault
<1>8. QED
  BY <1>1, <1>2, <1>3, <1>4, <1>5, <1>6, <1>7 DEF RunStep, Step

\* A claim that a run's step leaves or makes is its own job's or was there before.
LEMMA ClaimsOfOthers ==
  ASSUME TypeOK, NEW r \in Runs, RunStep(r), NEW x \in Records
  PROVE  claims'[x] \in {claims[x], JobOf[r], NoJob}
BY DEF RunStep, Step, run_job_records, held_by_other_job, insert_record, commit_claims, claim_deadlock,
       health_check, accept, sent, send_with_retry, fails, release, release_error, _update_job_in_db, update_error,
       terminate, kill, table, release_record_hashes

LEMMA HoldNext == TypeOK /\ ClaimInv /\ Alone /\ HoldInv /\ [Next]_vars => HoldInv'
<1> SUFFICES ASSUME TypeOK, ClaimInv, Alone, HoldInv, [Next]_vars, happened' \subseteq {"error"},
                    NEW x \in Records, claims'[x] # NoJob
             PROVE  WellHeld(x)'
  BY DEF HoldInv
<1>t. rpc \in [Runs -> Busy \cup {"message", "done", "dead"}] /\ claims \in [Records -> Jobs \cup {NoJob}]
  BY TypeParts DEF TypeRuns, TypeTable
<1>0. CASE UNCHANGED vars
  BY <1>0 DEF vars, HoldInv, WellHeld, MayKeep
<1>1. ASSUME NEW r \in Runs, _claim_job(r) PROVE WellHeld(x)'
  <2>1. /\ UNCHANGED <<claims, won, outcome, happened>> /\ rpc[r] = "message"
        /\ row[JobOf[r]] # "gone"
        /\ \E step : rpc' = [rpc EXCEPT ![r] = step]
        /\ UNCHANGED row \/ (row[JobOf[r]] = "dispatched" /\ row' = [row EXCEPT ![JobOf[r]] = "running"])
    BY <1>1 DEF _claim_job, may_run, goto, table
  <2>2. \A q \in Runs : MayKeep(q) => MayKeep(q)'
    BY <1>t, <2>1 DEF MayKeep
  <2>3. row[claims[x]] \in Settled \cup {"gone"} => row'[claims[x]] = row[claims[x]]
    BY <1>t, <2>1, JobOfAssumption, TypeParts DEF TypeJobs, Settled
  <2>4. QED
    BY <2>1, <2>2, <2>3 DEF HoldInv, WellHeld
<1>2. ASSUME NEW r \in Runs, claim_fails_open(r) PROVE FALSE
  BY <1>2 DEF claim_fails_open, Fault
<1>3. ASSUME NEW r \in Runs, RunStep(r) PROVE WellHeld(x)'
  <2>1. CASE claims'[x] = JobOf[r]
    BY <2>1, <1>3, HoldStep DEF WellHeld
  <2>2. CASE claims'[x] # JobOf[r]
    <3>1. claims'[x] = claims[x] /\ claims[x] \in Jobs \ {JobOf[r]}
      BY <2>2, <1>3, <1>t, ClaimsOfOthers
    <3>2. row'[claims[x]] = row[claims[x]]
      BY <1>3, <3>1, RunRow
    <3>3. \A q \in Runs : JobOf[q] = claims[x] => rpc'[q] = rpc[q] /\ outcome'[q] = outcome[q] /\ won'[q] = won[q]
      BY <1>3, <3>1, RunFrame
    <3>4. happened \subseteq {"error"}
      BY <1>3, RunFrame
    <3>5. QED
      BY <3>1, <3>2, <3>3, <3>4 DEF HoldInv, WellHeld, MayKeep
  <2>3. QED
    BY <2>1, <2>2
<1>4. ASSUME NEW j \in Jobs, requeue(j) PROVE WellHeld(x)'
  <2>1. /\ UNCHANGED <<claims, won, outcome, happened, rpc>> /\ ~Live(j) /\ row[j] \notin Settled \cup {"gone"}
        /\ row' = [row EXCEPT ![j] = "dispatched"]
    BY <1>4 DEF requeue, local, table, Settled
  <2>2. \A k \in Jobs : k # j => row'[k] = row[k]
    BY <2>1, TypeParts DEF TypeJobs
  <2>3. \A q \in Runs : MayKeep(q) => JobOf[q] # j
    BY <2>1 DEF MayKeep, Live, Busy
  <2>4. QED
    BY <1>t, <2>1, <2>2, <2>3 DEF HoldInv, WellHeld, MayKeep
<1>5. ASSUME NEW j \in Jobs, requeue_live(j) PROVE FALSE
  BY <1>5 DEF requeue_live, Fault
<1>6. CASE purge_expired_content
  BY <1>6 DEF purge_expired_content, Fault
<1>7. CASE purge_expired_executions
  BY <1>7, <1>t DEF purge_expired_executions, table, WellHeld
<1>8. QED
  BY <1>0, <1>1, <1>2, <1>3, <1>4, <1>5, <1>6, <1>7, NextCases

\* Whatever the destination and the slices do, a job that failed has given its records back
\* when its run is over, so that another job may deliver them.
THEOREM FailedJobsGiveBack == Spec => []FailedHoldsNothing
<1>1. TypeOK /\ Alone /\ HoldInv => FailedHoldsNothing
  <2> SUFFICES ASSUME TypeOK, HoldInv, happened \subseteq {"error"}, NEW x \in Records, NEW j \in Jobs,
                      claims[x] = j, row[j] = "failed"
               PROVE  Live(j)
    BY DEF FailedHoldsNothing
  <2>1. PICK r \in Runs : JobOf[r] = j /\ MayKeep(r)
    BY NoneAssumption DEF HoldInv, WellHeld, Settled
  <2>2. QED
    BY <2>1 DEF MayKeep, Live, Busy
<1>2. QED
  BY <1>1, TypeInit, TypeNext, ClaimInit, ClaimNext, AloneInit, AloneNext, HoldInit, HoldNext, PTL DEF Spec

----------------------------------------------------------------------------
(* DeliveredOnce: of equal records a run sends the first, and without      *)
(* trouble a job runs once.                                                *)

FirstInv ==
  /\ \A r \in Runs : unsent[r] \subseteq kept(r, won[r])
  /\ \A x \in Records : \A d \in handed[x] : d[2] \in kept(d[1], {x})

OnceInv ==
  happened = {} =>
      /\ released = {}
      /\ \A r \in Runs : rpc[r] # "release" /\ outcome[r] # "failed"
      /\ \A x \in Records : \A d \in handed[x] :
            \/ row[JobOf[d[1]]] \in Settled \cup {"gone"}
            \/ rpc[d[1]] \in {"send", "report"}
      /\ \A x \in Records : \A d, e \in handed[x] : d = e

LEMMA OnceInit == Init => FirstInv /\ OnceInv
BY DEF Init, FirstInv, OnceInv

\* What a run's step does to what it has won and has yet to send.
LEMMA RunSends ==
  ASSUME TypeOK, ClaimInv, NEW r \in Runs, RunStep(r)
  PROVE  \/ unsent'[r] = {}
         \/ won'[r] = won[r] /\ (unsent'[r] \subseteq unsent[r] \/ unsent'[r] = kept(r, won[r]))
<1>t. rpc \in [Runs -> Busy \cup {"message", "done", "dead"}] /\ unsent \in [Runs -> SUBSET Nat]
  BY TypeParts DEF TypeRuns
<1>1. CASE run_job_records(r) \/ held_by_other_job(r) \/ insert_record(r) \/ claim_deadlock(r) \/ sent(r)
           \/ release(r) \/ release_error(r)
  BY <1>1 DEF run_job_records, held_by_other_job, insert_record, claim_deadlock, sent, release, release_error
<1>2. CASE commit_claims(r)
  BY <1>2 DEF commit_claims, ClaimInv
<1>3. CASE health_check(r) \/ accept(r) \/ send_with_retry(r) \/ fails(r)
  BY <1>t, <1>3 DEF health_check, accept, send_with_retry, fails
<1>4. CASE _update_job_in_db(r) \/ update_error(r) \/ terminate(r) \/ kill(r)
  BY <1>t, <1>4 DEF _update_job_in_db, update_error, terminate, kill, end
<1>5. QED
  BY <1>1, <1>2, <1>3, <1>4 DEF RunStep, Step

\* The destination accepts one position of the run's, or nothing.
LEMMA RunHands ==
  ASSUME TypeOK, ClaimInv, NEW r \in Runs, RunStep(r)
  PROVE  \/ UNCHANGED handed
         \/ /\ accept(r)
            /\ \E i \in unsent[r] :
                  /\ Slice(r)[i] \in Records /\ Slice(r)[i] \in won[r]
                  /\ unsent'[r] = unsent[r] \ {i}
                  /\ handed'[Slice(r)[i]] = handed[Slice(r)[i]] \cup {<<r, i>>}
                  /\ \A x \in Records : x # Slice(r)[i] => handed'[x] = handed[x]
<1>1. CASE accept(r)
  <2>1. PICK i \in unsent[r] : /\ unsent' = [unsent EXCEPT ![r] = unsent[r] \ {i}]
                               /\ handed' = [handed EXCEPT ![Slice(r)[i]] = handed[Slice(r)[i]] \cup {<<r, i>>}]
    BY <1>1 DEF accept
  <2>2. Slice(r)[i] \in Records /\ Slice(r)[i] \in won[r]
    BY SliceFacts, TypeParts DEF TypeRuns, ClaimInv
  <2>3. unsent'[r] = unsent[r] \ {i}
    BY <2>1, TypeParts DEF TypeRuns
  <2>4. /\ handed'[Slice(r)[i]] = handed[Slice(r)[i]] \cup {<<r, i>>}
        /\ \A x \in Records : x # Slice(r)[i] => handed'[x] = handed[x]
    BY <2>1, <2>2, TypeParts DEF TypeHanded
  <2>5. QED
    BY <1>1, <2>2, <2>3, <2>4
<1>2. CASE ~accept(r)
  BY <1>2 DEF RunStep, Step, run_job_records, held_by_other_job, insert_record, commit_claims, claim_deadlock,
       health_check, sent, send_with_retry, fails, release, release_error, _update_job_in_db, update_error,
       terminate, kill
<1>3. QED
  BY <1>1, <1>2

\* The steps of the manager and the claim of a message touch nothing that a run won, sends or delivered.
LEMMA QuietSteps ==
  ASSUME \/ UNCHANGED vars
         \/ \E r \in Runs : _claim_job(r) \/ claim_fails_open(r)
         \/ \E j \in Jobs : requeue(j) \/ requeue_live(j)
         \/ purge_expired_content \/ purge_expired_executions
  PROVE  /\ UNCHANGED <<content, inserting, written_before, pos, won, unsent, outcome, handed>>
         /\ happened \subseteq happened'
         /\ "swept" \notin happened' => UNCHANGED <<claims, released>>
BY DEF vars, _claim_job, claim_fails_open, requeue, requeue_live, purge_expired_content, purge_expired_executions,
       table, local, Fault

LEMMA FirstNext == TypeOK /\ ClaimInv /\ FirstInv /\ [Next]_vars => FirstInv'
<1> SUFFICES ASSUME TypeOK, ClaimInv, FirstInv, [Next]_vars PROVE FirstInv'
  OBVIOUS
<1>1. ASSUME UNCHANGED <<content, won, unsent, handed>> PROVE FirstInv'
  BY <1>1 DEF FirstInv, kept, Slice
<1>2. ASSUME NEW r \in Runs, RunStep(r) PROVE FirstInv'
  <2>1. /\ UNCHANGED content
        /\ \A q \in Runs \ {r} : won'[q] = won[q] /\ unsent'[q] = unsent[q]
    BY <1>2, RunFrame
  <2>2. \A q, S : kept(q, S)' = kept(q, S')
    BY <2>1 DEF kept, Slice
  <2>3. \A q \in Runs : unsent'[q] \subseteq kept(q, won'[q])
    BY <1>2, <2>1, RunSends DEF FirstInv
  <2>4. \A x \in Records : \A d \in handed'[x] : d[2] \in kept(d[1], {x})
    <3>1. CASE UNCHANGED handed
      BY <3>1 DEF FirstInv
    <3>2. ASSUME NEW i \in unsent[r], NEW x \in Records, NEW d \in handed'[x],
                 handed'[Slice(r)[i]] = handed[Slice(r)[i]] \cup {<<r, i>>},
                 \A y \in Records : y # Slice(r)[i] => handed'[y] = handed[y]
          PROVE  d[2] \in kept(d[1], {x})
      <4>1. i \in kept(r, {Slice(r)[i]})
        BY DEF FirstInv, kept
      <4>2. CASE d \in handed[x]
        BY <4>2 DEF FirstInv
      <4>3. CASE d = <<r, i>> /\ x = Slice(r)[i]
        BY <4>1, <4>3
      <4>4. QED
        BY <3>2, <4>2, <4>3
    <3>3. QED
      BY <1>2, <3>1, <3>2, RunHands
  <2>5. QED
    BY <2>1, <2>3, <2>4 DEF FirstInv, kept, Slice
<1>3. QED
  BY <1>1, <1>2, NextCases, QuietSteps

\* The first of equal records has one position.
LEMMA OneFirst ==
  ASSUME TypeOK, NEW r \in Runs, NEW x, NEW i \in kept(r, {x}), NEW k \in kept(r, {x})
  PROVE  i = k
<1>1. i \in Nat /\ k \in Nat /\ i >= 1 /\ k >= 1
  <2>1. i \in DOMAIN Slice(r) /\ k \in DOMAIN Slice(r)
    BY DEF kept
  <2>2. QED
    BY <2>1, SliceFacts
<1>2. /\ Slice(r)[i] = x /\ \A m \in 1..(i - 1) : Slice(r)[m] # x
      /\ Slice(r)[k] = x /\ \A m \in 1..(k - 1) : Slice(r)[m] # x
  BY DEF kept
<1>3. QED
  BY <1>1, <1>2

\* Without trouble a run fetches, claims, sends and reports.
LEMMA CleanRun ==
  ASSUME TypeOK, ClaimInv, OnceInv, NEW r \in Runs, RunStep(r), happened' = {}
  PROVE  /\ released' = {}
         /\ rpc'[r] # "release" /\ outcome'[r] # "failed"
         /\ rpc[r] = "send" => rpc'[r] \in {"send", "report"}
         /\ rpc[r] = "report" => _update_job_in_db(r) /\ outcome[r] # "failed"
<1>t. /\ rpc \in [Runs -> Busy \cup {"message", "done", "dead"}]
      /\ outcome \in [Runs -> {"completed", "deduplicated", "failed"}]
  BY TypeParts DEF TypeRuns, TypeLocal
<1>h. happened = {}
  BY RunFrame
<1>1. CASE run_job_records(r) \/ held_by_other_job(r) \/ insert_record(r) \/ commit_claims(r)
  BY <1>1, <1>h, <1>t DEF run_job_records, held_by_other_job, insert_record, commit_claims, then_report, goto,
                     table, OnceInv
<1>2. CASE health_check(r) \/ accept(r) \/ sent(r)
  BY <1>2, <1>h, <1>t DEF health_check, accept, sent, then_report, goto, table, OnceInv
<1>3. CASE _update_job_in_db(r)
  BY <1>3, <1>h, <1>t DEF _update_job_in_db, end, goto, table, OnceInv
<1>4. CASE release(r)
  BY <1>4, <1>h DEF release, OnceInv
<1>5. CASE claim_deadlock(r) \/ send_with_retry(r) \/ fails(r) \/ release_error(r) \/ update_error(r)
           \/ terminate(r) \/ kill(r)
  BY <1>5 DEF claim_deadlock, send_with_retry, fails, release_error, update_error, terminate, kill, Fault, Trace
<1>6. QED
  BY <1>1, <1>2, <1>3, <1>4, <1>5 DEF RunStep, Step

LEMMA OnceRun ==
  ASSUME TypeOK, ClaimInv, Alone, FirstInv, OnceInv, NEW r \in Runs, RunStep(r)
  PROVE  OnceInv'
<1> SUFFICES ASSUME happened' = {} PROVE OnceInv'
  BY DEF OnceInv
<1>h. happened = {} /\ UNCHANGED content
  BY RunFrame
<1>a. /\ rpc[r] \in Busy /\ row[JobOf[r]] = "running"
      /\ \A s \in Runs : JobOf[s] = JobOf[r] /\ rpc[s] \in Busy => s = r
  BY <1>h, RunFrame DEF Alone
<1>d. \A x \in Records : handed[x] \subseteq Runs \X Nat
  BY TypeParts DEF TypeHanded
<1>1. released' = {} /\ \A q \in Runs : rpc'[q] # "release" /\ outcome'[q] # "failed"
  BY <1>h, CleanRun, RunFrame DEF OnceInv
<1>2. ASSUME NEW q \in Runs, row[JobOf[q]] \in Settled \cup {"gone"} \/ rpc[q] \in {"send", "report"}
      PROVE  row'[JobOf[q]] \in Settled \cup {"gone"} \/ rpc'[q] \in {"send", "report"}
  <2>1. CASE q = r
    <3>1. CASE rpc[r] = "send"
      BY <2>1, <3>1, CleanRun
    <3>2. CASE rpc[r] = "report"
      <4>1. outcome[r] \in Settled
        BY <3>2, CleanRun, TypeParts DEF TypeLocal, Settled
      <4>2. row'[JobOf[r]] \in {"gone", outcome[r]}
        BY <3>2, CleanRun, JobOfAssumption, TypeParts DEF _update_job_in_db, TypeJobs
      <4>3. QED
        BY <2>1, <4>1, <4>2
    <3>3. QED
      BY <1>2, <1>a, <2>1, <3>1, <3>2 DEF Settled
  <2>2. CASE q # r
    <3>1. rpc'[q] = rpc[q]
      BY <2>2, RunFrame
    <3>2. row[JobOf[q]] \in Settled \cup {"gone"} => row'[JobOf[q]] = row[JobOf[q]]
      BY <1>a, RunRow, JobOfAssumption DEF Settled
    <3>3. QED
      BY <1>2, <3>1, <3>2
  <2>3. QED
    BY <2>1, <2>2
<1>3. CASE UNCHANGED handed
  BY <1>h, <1>d, <1>1, <1>2, <1>3 DEF OnceInv
<1>4. ASSUME accept(r), NEW i \in unsent[r], NEW y \in Records, y = Slice(r)[i], y \in won[r],
             handed'[y] = handed[y] \cup {<<r, i>>},
             \A x \in Records : x # y => handed'[x] = handed[x]
      PROVE  OnceInv'
  <2>1. rpc[r] = "send" /\ rpc'[r] = "send"
    BY <1>4 DEF accept
  <2>2. \A d \in handed[y] : d = <<r, i>>
    <3> SUFFICES ASSUME NEW d \in handed[y] PROVE d = <<r, i>>
      OBVIOUS
    <3>1. d[1] \in Runs /\ d[2] \in Nat /\ d = <<d[1], d[2]>>
      BY <1>d
    <3>2. claims[y] = JobOf[r] /\ claims[y] = JobOf[d[1]]
      BY <1>h, <1>4 DEF OnceInv, ClaimInv
    <3>3. d[1] = r
      BY <1>h, <1>a, <3>1, <3>2 DEF OnceInv, Settled, Busy
    <3>4. d[2] \in kept(r, {y}) /\ i \in kept(r, {y})
      <4>1. i \in kept(r, won[r])
        BY <1>4 DEF FirstInv
      <4>2. QED
        BY <1>4, <3>3, <4>1 DEF FirstInv, kept
    <3>5. QED
      BY <3>1, <3>3, <3>4, OneFirst
  <2>3. \A x \in Records : \A d, e \in handed'[x] : d = e
    BY <1>h, <1>4, <2>2 DEF OnceInv
  <2>4. \A x \in Records : \A d \in handed'[x] :
           row'[JobOf[d[1]]] \in Settled \cup {"gone"} \/ rpc'[d[1]] \in {"send", "report"}
    <3> SUFFICES ASSUME NEW x \in Records, NEW d \in handed'[x]
                 PROVE  row'[JobOf[d[1]]] \in Settled \cup {"gone"} \/ rpc'[d[1]] \in {"send", "report"}
      OBVIOUS
    <3>1. CASE d \in handed[x]
      BY <1>h, <1>d, <1>2, <3>1 DEF OnceInv
    <3>2. CASE d = <<r, i>>
      BY <2>1, <3>2
    <3>3. QED
      BY <1>4, <3>1, <3>2
  <2>5. QED
    BY <1>1, <2>3, <2>4 DEF OnceInv
<1>5. QED
  BY <1>3, <1>4, RunHands

LEMMA OnceNext == TypeOK /\ ClaimInv /\ Alone /\ FirstInv /\ OnceInv /\ [Next]_vars => OnceInv'
<1> SUFFICES ASSUME TypeOK, ClaimInv, Alone, FirstInv, OnceInv, [Next]_vars, happened' = {} PROVE OnceInv'
  BY DEF OnceInv
<1>d. \A x \in Records : handed[x] \subseteq Runs \X Nat
  BY TypeParts DEF TypeHanded
<1>q. ASSUME UNCHANGED <<handed, outcome, released, happened>>,
             \A r \in Runs : rpc'[r] = rpc[r] \/ (rpc[r] = "message" /\ rpc'[r] \in {"fetch", "done"}),
             \A r \in Runs : row[JobOf[r]] \in Settled \cup {"gone"} => row'[JobOf[r]] \in Settled \cup {"gone"}
      PROVE  OnceInv'
  BY <1>q, <1>d DEF OnceInv
<1>0. CASE UNCHANGED vars
  BY <1>0, <1>q DEF vars
<1>1. ASSUME NEW r \in Runs, _claim_job(r) PROVE OnceInv'
  <2>1. /\ UNCHANGED <<handed, outcome, released, happened>> /\ rpc[r] = "message"
        /\ \E step \in {"fetch", "done"} : rpc' = [rpc EXCEPT ![r] = step]
        /\ UNCHANGED row \/ (row[JobOf[r]] = "dispatched" /\ row' = [row EXCEPT ![JobOf[r]] = "running"])
    BY <1>1 DEF _claim_job, may_run, goto, table
  <2>2. \A q \in Runs : rpc'[q] = rpc[q] \/ (rpc[q] = "message" /\ rpc'[q] \in {"fetch", "done"})
    BY <2>1, TypeParts DEF TypeRuns
  <2>3. \A q \in Runs : row[JobOf[q]] \in Settled \cup {"gone"} => row'[JobOf[q]] \in Settled \cup {"gone"}
    BY <2>1, JobOfAssumption, TypeParts DEF TypeJobs, Settled
  <2>4. QED
    BY <2>1, <2>2, <2>3, <1>q
<1>2. ASSUME NEW r \in Runs, claim_fails_open(r) PROVE FALSE
  BY <1>2 DEF claim_fails_open, Fault
<1>3. ASSUME NEW j \in Jobs, requeue(j) PROVE OnceInv'
  <2>1. /\ UNCHANGED <<handed, outcome, released, happened, rpc>> /\ row[j] \notin Settled \cup {"gone"}
        /\ row' = [row EXCEPT ![j] = "dispatched"]
    BY <1>3 DEF requeue, local, table, Settled
  <2>2. \A q \in Runs : row[JobOf[q]] \in Settled \cup {"gone"} => row'[JobOf[q]] \in Settled \cup {"gone"}
    BY <2>1, JobOfAssumption, TypeParts DEF TypeJobs
  <2>3. QED
    BY <2>1, <2>2, <1>q
<1>4. ASSUME NEW j \in Jobs, requeue_live(j) PROVE FALSE
  BY <1>4 DEF requeue_live, Fault
<1>5. CASE purge_expired_content
  BY <1>5 DEF purge_expired_content, Fault
<1>6. CASE purge_expired_executions
  BY <1>6, <1>q, JobOfAssumption DEF purge_expired_executions, local, table
<1>7. QED
  BY <1>0, <1>1, <1>2, <1>3, <1>4, <1>5, <1>6, OnceRun, NextCases

\* A set whose members are all equal is empty or a singleton.
LEMMA AtMostOne ==
  ASSUME NEW S, \A d, e \in S : d = e
  PROVE  Cardinality(S) <= 1
<1>1. CASE S = {}
  BY <1>1, FS_EmptySet
<1>2. ASSUME NEW d \in S PROVE Cardinality(S) = 1
  <2>1. S = {d}
    BY <1>2
  <2>2. QED
    BY <2>1, FS_Singleton
<1>3. QED
  BY <1>1, <1>2

\* As long as nothing goes wrong every record reaches the destination once, for any number of
\* jobs that share records, of messages of a job and of equal records in a slice.
THEOREM RecordsDeliveredOnce == Spec => []DeliveredOnce
<1>1. OnceInv => DeliveredOnce
  BY AtMostOne DEF OnceInv, DeliveredOnce
<1>2. QED
  BY <1>1, TypeInit, TypeNext, ClaimInit, ClaimNext, AloneInit, AloneNext, OnceInit, FirstNext, OnceNext, PTL DEF Spec

----------------------------------------------------------------------------
(* NothingLost: a record that nobody delivered has a job that answers for  *)
(* it, one that has not settled and whose run has not passed the record    *)
(* over.  The job that holds the claim on a record is such a job, so a run *)
(* that loses the race for the claim may leave the record to it.           *)

Carriers(x) == {j \in Jobs : x \in RecordsOf(j)}
Accounted(x) == handed[x] # {} \/ Carriers(x) \cap written_before # {}

\* The run is past the record and did not win it.
Passed(r, x) ==
  \/ /\ rpc[r] = "claim" /\ inserting[x] # r /\ claims[x] # JobOf[r]
     /\ \E i \in DOMAIN Slice(r) : i < pos[r] /\ Slice(r)[i] = x
  \/ rpc[r] \in {"health", "send"} /\ x \notin won[r]
  \/ rpc[r] = "report" /\ outcome[r] # "failed" /\ x \notin won[r]

Answers(j, x) == row[j] \notin Settled /\ \A r \in Runs : JobOf[r] = j => ~Passed(r, x)

OwnInv ==
  /\ \A x \in Records : claims[x] # NoJob => x \in RecordsOf(claims[x])
  /\ \A x \in Records : inserting[x] # NoRun => x \in RecordsOf(JobOf[inserting[x]])
  /\ \A r \in Runs : won[r] \subseteq RecordsOf(JobOf[r])
  /\ \A r \in Runs : pos[r] >= 1 /\ (rpc[r] # "claim" => pos[r] = 1)

SentInv ==
  /\ \A r \in Runs : rpc[r] = "send" =>
        \A x \in won[r] : Accounted(x) \/ \E i \in unsent[r] : Slice(r)[i] = x
  /\ \A r \in Runs : rpc[r] = "report" /\ outcome[r] # "failed" => \A x \in won[r] : Accounted(x)

LossInv ==
  happened \cap {"overlap", "swept"} = {} =>
      \A x \in Records : Accounted(x) \/
          /\ claims[x] # NoJob => Answers(claims[x], x)
          /\ Carriers(x) # {} => \E j \in Carriers(x) : Answers(j, x)

LEMMA LossInit == Init => OwnInv /\ SentInv /\ LossInv
<1> SUFFICES ASSUME Init PROVE OwnInv /\ SentInv /\ LossInv
  OBVIOUS
<1>1. OwnInv /\ SentInv
  BY DEF Init, OwnInv, SentInv
<1>2. \A r \in Runs : \A x : ~Passed(r, x)
  BY DEF Init, Passed
<1>3. \A j \in Jobs : \A x : Answers(j, x)
  BY <1>2 DEF Init, Answers, Settled
<1>4. LossInv
  BY <1>3 DEF Init, LossInv, Carriers
<1>5. QED
  BY <1>1, <1>4

LEMMA NatMin ==
  ASSUME NEW T \in SUBSET Nat, T # {}
  PROVE  \E m \in T : \A k \in T : m <= k
<1> DEFINE Less == {p \in Nat \X Nat : p[1] < p[2]}
<1>1. IsWellFoundedOn(Less, Nat)
  BY NatLessThanWellFounded DEF OpToRel
<1>2. \A k, m \in Nat : <<k, m>> \notin Less => m <= k
  <2> SUFFICES ASSUME NEW k \in Nat, NEW m \in Nat, k < m PROVE <<k, m>> \in Less
    OBVIOUS
  <2>1. <<k, m>> \in Nat \X Nat /\ <<k, m>>[1] = k /\ <<k, m>>[2] = m
    OBVIOUS
  <2>2. QED
    BY <2>1
<1> HIDE DEF Less
<1>3. PICK m \in T : \A k \in T : <<k, m>> \notin Less
  BY <1>1, WFMin
<1>4. \A k \in T : m <= k
  BY <1>2, <1>3
<1>5. QED
  BY <1>4

\* A record of the slice that is among the hashes is sent from one position.
LEMMA FirstExists ==
  ASSUME TypeOK, NEW r \in Runs, NEW S, NEW x \in S, x \in RecordsOf(JobOf[r])
  PROVE  \E i \in kept(r, S) : Slice(r)[i] = x
<1> DEFINE T == {i \in DOMAIN Slice(r) : Slice(r)[i] = x}
<1>1. T # {} /\ T \in SUBSET Nat /\ T \subseteq DOMAIN Slice(r)
  BY SliceFacts DEF RecordsOf, Slice
<1>2. PICK m \in T : \A k \in T : m <= k
  <2> HIDE DEF T
  <2> QED
    BY <1>1, NatMin
<1>3. DOMAIN Slice(r) = 1..Len(Slice(r)) /\ Len(Slice(r)) \in Nat
  BY SliceFacts
<1>4. \A k \in 1..(m - 1) : k \in DOMAIN Slice(r) /\ k < m
  BY <1>1, <1>3
<1>5. \A k \in 1..(m - 1) : Slice(r)[k] # x
  BY <1>1, <1>2, <1>4, <1>3
<1>6. m \in kept(r, S) /\ Slice(r)[m] = x
  BY <1>5 DEF kept
<1>7. QED
  BY <1>6

\* A record that is accounted for stays so.
LEMMA AccountedStays ==
  ASSUME TypeOK, ClaimInv, [Next]_vars, NEW x \in Records, Accounted(x)
  PROVE  Accounted(x)'
<1>1. UNCHANGED content /\ written_before \subseteq written_before' /\ handed[x] \subseteq handed'[x]
  <2>1. ASSUME NEW r \in Runs, RunStep(r) PROVE written_before \subseteq written_before'
    BY <2>1 DEF RunStep, Step, run_job_records, held_by_other_job, insert_record, commit_claims, claim_deadlock,
       health_check, accept, sent, send_with_retry, fails, release, release_error, _update_job_in_db, update_error,
       terminate, kill
  <2>2. ASSUME NEW r \in Runs, RunStep(r) PROVE UNCHANGED content /\ handed[x] \subseteq handed'[x]
    BY <2>2, RunFrame, RunHands
  <2>3. QED
    BY <2>1, <2>2, NextCases, QuietSteps
<1>2. Carriers(x)' = Carriers(x)
  BY <1>1 DEF Carriers, RecordsOf
<1>3. QED
  BY <1>1, <1>2 DEF Accounted

\* Messages are taken or dropped.
LEMMA QuietRpc ==
  ASSUME TypeOK,
         \/ UNCHANGED vars
         \/ \E r \in Runs : _claim_job(r) \/ claim_fails_open(r)
         \/ \E j \in Jobs : requeue(j) \/ requeue_live(j)
         \/ purge_expired_content \/ purge_expired_executions,
         NEW q \in Runs
  PROVE  rpc'[q] = rpc[q] \/ (rpc[q] = "message" /\ rpc'[q] \in {"fetch", "done"})
<1>1. ASSUME NEW r \in Runs, _claim_job(r) \/ claim_fails_open(r)
      PROVE  rpc'[q] = rpc[q] \/ (rpc[q] = "message" /\ rpc'[q] \in {"fetch", "done"})
  BY <1>1, TypeParts DEF _claim_job, claim_fails_open, goto, TypeRuns
<1>2. QED
  BY <1>1 DEF vars, requeue, requeue_live, purge_expired_content, purge_expired_executions, local

LEMMA OwnNext == TypeOK /\ ClaimInv /\ OwnInv /\ [Next]_vars => OwnInv'
<1> SUFFICES ASSUME TypeOK, ClaimInv, OwnInv, [Next]_vars PROVE OwnInv'
  OBVIOUS
<1>0. UNCHANGED content
  BY NextCases, RunFrame, QuietSteps
<1>1. ASSUME NEW r \in Runs, RunStep(r) PROVE OwnInv'
  <2>t. /\ rpc \in [Runs -> Busy \cup {"message", "done", "dead"}] /\ won \in [Runs -> SUBSET Records]
        /\ pos \in [Runs -> Nat] /\ inserting \in [Records -> Runs \cup {NoRun}]
    BY TypeParts DEF TypeRuns, TypeLocal, TypeTable
  <2>1. \A x \in Records : inserting'[x] \in {inserting[x], NoRun} \/ (inserting'[x] = r /\ x \in RecordsOf(JobOf[r]))
    <3>1. CASE insert_record(r)
      BY <3>1, <2>t, SliceFacts DEF insert_record, RecordsOf, Slice
    <3>2. CASE ~insert_record(r)
      BY <3>2, <1>1 DEF RunStep, Step, run_job_records, held_by_other_job, commit_claims, claim_deadlock,
         health_check, accept, sent, send_with_retry, fails, release, release_error, _update_job_in_db, update_error,
         terminate, kill, table, rolled_back
    <3>3. QED
      BY <3>1, <3>2
  <2>2. \A x \in Records : claims'[x] \in {claims[x], NoJob} \/ (claims'[x] = JobOf[r] /\ inserting[x] = r)
    BY <1>1 DEF RunStep, Step, run_job_records, held_by_other_job, insert_record, commit_claims, claim_deadlock,
         health_check, accept, sent, send_with_retry, fails, release, release_error, _update_job_in_db, update_error,
         terminate, kill, table, release_record_hashes
  <2>3. won'[r] \in {won[r], {}, held(r)}
    BY <1>1, <2>t DEF RunStep, Step, run_job_records, held_by_other_job, insert_record, commit_claims, claim_deadlock,
         health_check, accept, sent, send_with_retry, fails, release, release_error, _update_job_in_db, update_error,
         terminate, kill, end
  <2>4. held(r) \subseteq RecordsOf(JobOf[r])
    BY NoneAssumption DEF held, Inserted, OwnInv
  <2>5. pos'[r] >= 1 /\ (rpc'[r] # "claim" => pos'[r] = 1)
    <3>1. CASE insert_record(r)
      BY <3>1, <2>t DEF insert_record, OwnInv
    <3>2. CASE commit_claims(r) \/ claim_deadlock(r)
      BY <3>2, <2>t DEF commit_claims, claim_deadlock
    <3>3. CASE run_job_records(r) \/ held_by_other_job(r)
      BY <3>3, <2>t DEF run_job_records, held_by_other_job, OwnInv
    <3>4. CASE health_check(r) \/ accept(r) \/ sent(r) \/ send_with_retry(r) \/ fails(r) \/ release(r) \/ release_error(r)
      BY <3>4, <2>t DEF health_check, accept, sent, send_with_retry, fails, release, release_error, OwnInv
    <3>5. CASE _update_job_in_db(r) \/ update_error(r) \/ terminate(r) \/ kill(r)
      BY <3>5, <2>t DEF _update_job_in_db, update_error, terminate, kill, end
    <3>6. QED
      BY <1>1, <3>1, <3>2, <3>3, <3>4, <3>5 DEF RunStep, Step
  <2>6. \A q \in Runs \ {r} : won'[q] = won[q] /\ pos'[q] = pos[q] /\ rpc'[q] = rpc[q]
    BY <1>1, RunFrame
  <2>7. \A x \in Records : claims'[x] # NoJob => x \in RecordsOf(claims'[x])
    BY <2>2, NoneAssumption DEF OwnInv
  <2>8. \A x \in Records : inserting'[x] # NoRun => x \in RecordsOf(JobOf[inserting'[x]])
    BY <2>1 DEF OwnInv
  <2>9. \A q \in Runs : won'[q] \subseteq RecordsOf(JobOf[q])
    BY <2>3, <2>4, <2>6 DEF OwnInv
  <2>10. \A q \in Runs : pos'[q] >= 1 /\ (rpc'[q] # "claim" => pos'[q] = 1)
    BY <2>5, <2>6 DEF OwnInv
  <2>11. QED
    BY <1>0, <2>7, <2>8, <2>9, <2>10 DEF OwnInv, RecordsOf
<1>2. ASSUME UNCHANGED <<inserting, pos, won>>,
             \A x \in Records : claims'[x] \in {claims[x], NoJob},
             \A q \in Runs : rpc'[q] = rpc[q] \/ (rpc[q] = "message" /\ rpc'[q] \in {"fetch", "done"})
      PROVE  OwnInv'
  BY <1>0, <1>2 DEF OwnInv, RecordsOf
<1>3. purge_expired_content => \A x \in Records : claims'[x] \in {claims[x], NoJob}
  BY TypeParts DEF purge_expired_content, TypeTable
<1>4. ASSUME \/ UNCHANGED vars
             \/ \E r \in Runs : _claim_job(r) \/ claim_fails_open(r)
             \/ \E j \in Jobs : requeue(j) \/ requeue_live(j)
             \/ purge_expired_executions
      PROVE  UNCHANGED claims
  BY <1>4 DEF vars, _claim_job, claim_fails_open, requeue, requeue_live, purge_expired_executions, table
<1>5. QED
  BY <1>1, <1>2, <1>3, <1>4, NextCases, QuietSteps, QuietRpc

\* A run that reports success has seen every record it won accepted.
LEMMA SentRun ==
  ASSUME TypeOK, ClaimInv, OwnInv, SentInv, NEW r \in Runs, RunStep(r), [Next]_vars
  PROVE  /\ rpc'[r] = "send" => \A x \in won'[r] : Accounted(x)' \/ \E i \in unsent'[r] : Slice(r)[i] = x
         /\ rpc'[r] = "report" /\ outcome'[r] # "failed" => \A x \in won'[r] : Accounted(x)'
<1>t. /\ rpc \in [Runs -> Busy \cup {"message", "done", "dead"}] /\ won \in [Runs -> SUBSET Records]
      /\ unsent \in [Runs -> SUBSET Nat] /\ outcome \in [Runs -> {"completed", "deduplicated", "failed"}]
  BY TypeParts DEF TypeRuns, TypeLocal
<1>o. \A x \in won[r] : x \in Records /\ x \in RecordsOf(JobOf[r])
  BY <1>t DEF OwnInv
<1>a. \A x \in Records : Accounted(x) => Accounted(x)'
  BY AccountedStays
<1>1. CASE run_job_records(r)
  <2>1. UNCHANGED won /\ rpc'[r] \in {"legacy", "report", "health"} /\ (rpc'[r] = "report" => Slice(r) = <<>>)
    BY <1>1, <1>t DEF run_job_records, then_report, goto
  <2>2. Slice(r) = <<>> => RecordsOf(JobOf[r]) = {}
    BY DEF RecordsOf, Slice
  <2>3. QED
    BY <2>1, <2>2, <1>o
<1>2. CASE held_by_other_job(r)
  <2>1. /\ UNCHANGED <<won, content>> /\ rpc'[r] \in {"report", "claim"}
        /\ rpc'[r] = "report" => JobOf[r] \in written_before'
    BY <1>2, <1>t DEF held_by_other_job, then_report, goto
  <2>2. \A x \in won[r] : JobOf[r] \in Carriers(x)'
    BY <1>o, <2>1, JobOfAssumption DEF Carriers, RecordsOf
  <2>3. QED
    BY <2>1, <2>2 DEF Accounted
<1>3. CASE commit_claims(r)
  <2>1. /\ rpc'[r] \in {"report", "health"} /\ won'[r] = held(r)
        /\ rpc'[r] = "report" => kept(r, held(r)) = {}
    BY <1>3, <1>t DEF commit_claims, then_report, goto
  <2>2. held(r) \subseteq RecordsOf(JobOf[r])
    BY NoneAssumption DEF held, Inserted, OwnInv
  <2>3. kept(r, held(r)) = {} => held(r) = {}
    BY <2>2, FirstExists
  <2>4. QED
    BY <2>1, <2>3
<1>4. CASE health_check(r) \/ send_with_retry(r)
  <2>1. UNCHANGED won /\ rpc'[r] = "send" /\ unsent'[r] = kept(r, won[r])
    BY <1>4, <1>t DEF health_check, send_with_retry, goto
  <2>2. \A x \in won[r] : \E i \in kept(r, won[r]) : Slice(r)[i] = x
    BY <1>o, FirstExists
  <2>3. QED
    BY <2>1, <2>2
<1>5. CASE accept(r)
  <2>1. PICK i \in unsent[r] : unsent'[r] = unsent[r] \ {i} /\ <<r, i>> \in handed'[Slice(r)[i]]
    BY <1>5, <1>t, SliceFacts, TypeParts DEF accept, TypeHanded, TypeRuns
  <2>2. UNCHANGED <<won, rpc>> /\ rpc[r] = "send"
    BY <1>5 DEF accept
  <2>3. \A x \in won[r] : Slice(r)[i] = x => Accounted(x)'
    BY <2>1 DEF Accounted
  <2>4. QED
    BY <1>a, <1>o, <2>1, <2>2, <2>3 DEF SentInv
<1>6. CASE sent(r)
  <2>1. UNCHANGED won /\ rpc[r] = "send" /\ unsent[r] = {} /\ rpc'[r] = "report"
    BY <1>6, <1>t DEF sent, then_report, goto
  <2>2. QED
    BY <1>a, <1>o, <2>1 DEF SentInv
<1>7. CASE insert_record(r) \/ claim_deadlock(r) \/ fails(r) \/ release(r) \/ release_error(r)
  BY <1>7, <1>t DEF insert_record, claim_deadlock, fails, release, release_error, then_report, goto
<1>8. CASE _update_job_in_db(r) \/ update_error(r) \/ terminate(r) \/ kill(r)
  BY <1>8, <1>t DEF _update_job_in_db, update_error, terminate, kill, end, goto
<1>9. QED
  BY <1>1, <1>2, <1>3, <1>4, <1>5, <1>6, <1>7, <1>8 DEF RunStep, Step

LEMMA SentNext == TypeOK /\ ClaimInv /\ OwnInv /\ SentInv /\ [Next]_vars => SentInv'
<1> SUFFICES ASSUME TypeOK, ClaimInv, OwnInv, SentInv, [Next]_vars PROVE SentInv'
  OBVIOUS
<1>a. \A q \in Runs : \A x \in won[q] : Accounted(x) => Accounted(x)'
  BY AccountedStays, TypeParts DEF TypeRuns
<1>1. ASSUME NEW r \in Runs, RunStep(r) PROVE SentInv'
  <2>1. /\ UNCHANGED content
        /\ \A q \in Runs \ {r} : /\ rpc'[q] = rpc[q] /\ won'[q] = won[q]
                                 /\ unsent'[q] = unsent[q] /\ outcome'[q] = outcome[q]
    BY <1>1, RunFrame
  <2>2. ASSUME NEW q \in Runs
        PROVE  /\ rpc'[q] = "send" => \A x \in won'[q] : Accounted(x)' \/ \E i \in unsent'[q] : Slice(q)[i] = x
               /\ rpc'[q] = "report" /\ outcome'[q] # "failed" => \A x \in won'[q] : Accounted(x)'
    <3>1. CASE q = r
      BY <1>1, <3>1, SentRun
    <3>2. CASE q # r
      BY <1>a, <2>1, <3>2 DEF SentInv
    <3>3. QED
      BY <3>1, <3>2
  <2>3. QED
    BY <2>1, <2>2 DEF SentInv, Slice
<1>2. ASSUME UNCHANGED <<content, won, unsent, outcome>>,
             \A q \in Runs : rpc'[q] = rpc[q] \/ (rpc[q] = "message" /\ rpc'[q] \in {"fetch", "done"})
      PROVE  SentInv'
  BY <1>a, <1>2 DEF SentInv, Slice
<1>3. QED
  BY <1>1, <1>2, NextCases, QuietSteps, QuietRpc

\* A run's step does not make another job pass over a record, nor settle it.
LEMMA AnswersOther ==
  ASSUME TypeOK, ClaimInv, NEW r \in Runs, RunStep(r), NEW x \in Records, NEW k \in Jobs, k # JobOf[r], Answers(k, x)
  PROVE  Answers(k, x)'
<1>1. row'[k] = row[k] /\ UNCHANGED content
  BY RunRow, RunFrame
<1>2. ASSUME NEW q \in Runs, JobOf[q] = k, Passed(q, x)' PROVE Passed(q, x)
  <2>1. /\ rpc'[q] = rpc[q] /\ pos'[q] = pos[q] /\ won'[q] = won[q] /\ outcome'[q] = outcome[q] /\ q # r
    BY <1>2, RunFrame
  <2>2. inserting[x] = q => inserting'[x] = q
    <3>1. CASE insert_record(r)
      BY <3>1, <2>1, NoneAssumption, TypeParts DEF insert_record, waits_for, TypeTable
    <3>2. CASE ~insert_record(r)
      BY <3>2, <2>1 DEF RunStep, Step, run_job_records, held_by_other_job, commit_claims, claim_deadlock,
         health_check, accept, sent, send_with_retry, fails, release, release_error, _update_job_in_db, update_error,
         terminate, kill, table, rolled_back
    <3>3. QED
      BY <3>1, <3>2
  <2>3. claims[x] = k => claims'[x] = k
    <3>1. inserting[x] = r => claims[x] = NoJob
      BY NoneAssumption DEF ClaimInv
    <3>2. QED
      BY <3>1, NoneAssumption DEF RunStep, Step, run_job_records, held_by_other_job, insert_record, commit_claims, claim_deadlock,
         health_check, accept, sent, send_with_retry, fails, release, release_error, _update_job_in_db, update_error,
         terminate, kill, table, release_record_hashes, released_by
  <2>4. QED
    BY <1>1, <1>2, <2>1, <2>2, <2>3 DEF Passed, Slice
<1>3. QED
  BY <1>1, <1>2 DEF Answers

\* A run keeps answering for a record, until another job holds the claim on it or it is delivered.
LEMMA PassesOn ==
  ASSUME TypeOK, ClaimInv, OwnInv, SentInv, NEW r \in Runs, RunStep(r), [Next]_vars,
         NEW x \in Records, x \in RecordsOf(JobOf[r]), ~Accounted(x)', ~Passed(r, x), rpc[r] \in Busy,
         insert_record(r) => claims[x] \in {NoJob, JobOf[r]}
  PROVE  ~Passed(r, x)' /\ (row[JobOf[r]] \notin Settled => row'[JobOf[r]] \notin Settled)
<1>t. /\ rpc \in [Runs -> Busy \cup {"message", "done", "dead"}] /\ won \in [Runs -> SUBSET Records]
      /\ pos \in [Runs -> Nat] /\ outcome \in [Runs -> {"completed", "deduplicated", "failed"}]
      /\ inserting \in [Records -> Runs \cup {NoRun}]
  BY TypeParts DEF TypeRuns, TypeLocal, TypeTable
<1>a. ~Accounted(x)
  BY AccountedStays
<1>d. DOMAIN Slice(r) = 1..Len(Slice(r)) /\ Len(Slice(r)) \in Nat
  BY SliceFacts
<1>x. PICK n \in DOMAIN Slice(r) : Slice(r)[n] = x
  BY DEF RecordsOf, Slice
<1>1. CASE run_job_records(r)
  <2>1. rpc'[r] = "legacy" /\ UNCHANGED row
    BY <1>1, <1>t, <1>x DEF run_job_records, goto
  <2>2. QED
    BY <2>1 DEF Passed
<1>2. CASE held_by_other_job(r)
  <2>1. UNCHANGED <<row, content, pos>> /\ rpc[r] = "legacy"
    BY <1>2 DEF held_by_other_job
  <2>2. CASE JobOf[r] \in legacy
    <3>1. JobOf[r] \in written_before' /\ JobOf[r] \in Carriers(x)'
      BY <1>2, <2>1, <2>2, JobOfAssumption DEF held_by_other_job, Carriers, RecordsOf
    <3>2. QED
      BY <3>1 DEF Accounted
  <2>3. CASE JobOf[r] \notin legacy
    <3>1. rpc'[r] = "claim" /\ pos'[r] = 1
      BY <1>2, <1>t, <2>1, <2>3 DEF held_by_other_job, goto, OwnInv
    <3>2. \A i \in DOMAIN Slice(r)' : ~(i < 1)
      BY <1>d, <2>1 DEF Slice
    <3>3. QED
      BY <2>1, <3>1, <3>2 DEF Passed
  <2>4. QED
    BY <2>2, <2>3
<1>3. CASE insert_record(r)
  <2>1. /\ UNCHANGED <<row, content, claims, rpc>> /\ rpc[r] = "claim" /\ pos[r] \in DOMAIN Slice(r)
        /\ pos'[r] = pos[r] + 1
    BY <1>3, <1>t DEF insert_record
  <2>2. CASE x = Slice(r)[pos[r]]
    <3>1. inserting'[x] = r \/ claims'[x] = JobOf[r]
      BY <1>3, <1>t, <2>2, SliceFacts DEF insert_record
    <3>2. QED
      BY <2>1, <3>1 DEF Passed
  <2>3. CASE x # Slice(r)[pos[r]]
    <3>1. inserting'[x] = inserting[x]
      BY <1>3, <1>t, <2>3 DEF insert_record
    <3>2. \A i \in DOMAIN Slice(r) : i < pos[r] + 1 /\ Slice(r)[i] = x => i < pos[r]
      BY <1>d, <1>t, <2>1, <2>3
    <3>3. QED
      BY <2>1, <3>1, <3>2 DEF Passed, Slice
  <2>4. QED
    BY <2>2, <2>3
<1>4. CASE commit_claims(r)
  <2>1. /\ rpc[r] = "claim" /\ pos[r] \notin DOMAIN Slice(r) /\ UNCHANGED row
        /\ rpc'[r] \in {"report", "health"} /\ won'[r] = held(r)
    BY <1>4, <1>t DEF commit_claims, then_report, goto
  <2>2. n < pos[r]
    BY <1>d, <1>t, <1>x, <2>1 DEF OwnInv
  <2>3. inserting[x] = r \/ claims[x] = JobOf[r]
    BY <1>x, <2>1, <2>2 DEF Passed
  <2>4. x \in held(r)
    BY <2>3 DEF held, Inserted
  <2>5. QED
    BY <2>1, <2>4 DEF Passed
<1>5. CASE claim_deadlock(r) \/ release(r) \/ release_error(r) \/ fails(r)
  BY <1>5, <1>t DEF claim_deadlock, release, release_error, fails, then_report, goto, Passed
<1>6. CASE health_check(r) \/ accept(r) \/ sent(r) \/ send_with_retry(r)
  <2>1. UNCHANGED <<row, won>> /\ rpc[r] \in {"health", "send"} /\ rpc'[r] \in {"send", "report"}
    BY <1>6, <1>t DEF health_check, accept, sent, send_with_retry, then_report, goto
  <2>2. QED
    BY <2>1 DEF Passed
<1>7. CASE _update_job_in_db(r)
  <2>1. rpc[r] = "report" /\ rpc'[r] = "done"
    BY <1>7, <1>t DEF _update_job_in_db, end, goto
  <2>2. outcome[r] = "failed"
    BY <1>a, <2>1 DEF Passed, SentInv
  <2>3. row'[JobOf[r]] \in {"gone", "failed"}
    BY <1>7, <2>2, JobOfAssumption, TypeParts DEF _update_job_in_db, TypeJobs
  <2>4. QED
    BY <2>1, <2>3 DEF Passed, Settled
<1>8. CASE update_error(r) \/ terminate(r) \/ kill(r)
  BY <1>8, <1>t DEF update_error, terminate, kill, end, goto, Passed
<1>9. QED
  BY <1>1, <1>2, <1>3, <1>4, <1>5, <1>6, <1>7, <1>8 DEF RunStep, Step

LEMMA LossRun ==
  ASSUME TypeOK, ClaimInv, Alone, OwnInv, SentInv, LossInv, NEW r \in Runs, RunStep(r), [Next]_vars,
         happened' \cap {"overlap", "swept"} = {}, NEW x \in Records, ~Accounted(x)'
  PROVE  /\ claims'[x] # NoJob => Answers(claims[x], x)'
         /\ Carriers(x)' # {} => \E j \in Carriers(x)' : Answers(j, x)'
<1>f. rpc[r] \in Busy /\ happened \cap {"overlap", "swept"} = {} /\ UNCHANGED content
  BY RunFrame
<1>j. JobOf[r] \in Jobs /\ JobOf[r] # NoJob
  BY JobOfAssumption, NoneAssumption
<1>n. ~Accounted(x)
  BY AccountedStays
<1>l. /\ claims[x] # NoJob => Answers(claims[x], x)
      /\ Carriers(x) # {} => \E j \in Carriers(x) : Answers(j, x)
  BY <1>f, <1>n DEF LossInv
<1>c. Carriers(x)' = Carriers(x)
  BY <1>f DEF Carriers, RecordsOf
<1>s. \A q \in Runs : JobOf[q] = JobOf[r] /\ q # r => rpc'[q] \notin Busy
  BY <1>f, RunFrame DEF Alone
<1>1. ASSUME ~Passed(r, x)', row'[JobOf[r]] \notin Settled PROVE Answers(JobOf[r], x)'
  <2>1. \A q \in Runs : Passed(q, x)' => rpc'[q] \in Busy
    BY DEF Passed, Busy
  <2>2. QED
    BY <1>1, <1>s, <2>1 DEF Answers
<1>2. ASSUME Answers(JobOf[r], x), x \in RecordsOf(JobOf[r]), insert_record(r) => claims[x] \in {NoJob, JobOf[r]}
      PROVE  Answers(JobOf[r], x)'
  BY <1>1, <1>2, <1>f, PassesOn DEF Answers
<1>3. ASSUME claims'[x] # NoJob PROVE Answers(claims[x], x)'
  <2>1. claims[x] \in Jobs \cup {NoJob}
    BY TypeParts DEF TypeTable
  <2>2. CASE claims'[x] = claims[x]
    <3>1. CASE claims[x] = JobOf[r]
      BY <1>2, <1>j, <1>l, <2>2, <3>1 DEF OwnInv
    <3>2. CASE claims[x] # JobOf[r]
      <4>1. Answers(claims[x], x) /\ claims[x] \in Jobs
        BY <1>3, <1>l, <2>1, <2>2
      <4>2. \A k \in Jobs : k # JobOf[r] /\ Answers(k, x) => Answers(k, x)'
        BY AnswersOther
      <4>3. QED
        BY <2>2, <3>2, <4>1, <4>2 DEF Answers, Passed
    <3>3. QED
      BY <3>1, <3>2
  <2>3. CASE claims'[x] # claims[x]
    <3>1. commit_claims(r) /\ inserting[x] = r /\ claims'[x] = JobOf[r]
      BY <1>3, <2>3 DEF RunStep, Step, run_job_records, held_by_other_job, insert_record, commit_claims, claim_deadlock,
         health_check, accept, sent, send_with_retry, fails, release, release_error, _update_job_in_db, update_error,
         terminate, kill, table, release_record_hashes
    <3>2. rpc'[r] \in {"report", "health"} /\ won'[r] = held(r) /\ UNCHANGED row
      BY <3>1, TypeParts DEF commit_claims, then_report, goto, TypeRuns
    <3>3. x \in held(r)
      BY <3>1 DEF held, Inserted
    <3>4. row'[JobOf[r]] \notin Settled
      BY <1>f, <3>2 DEF Alone, Settled
    <3>5. ~Passed(r, x)'
      BY <3>2, <3>3 DEF Passed
    <3>6. QED
      BY <1>1, <3>1, <3>4, <3>5 DEF Answers, Passed
  <2>4. QED
    BY <2>2, <2>3
<1>4. ASSUME Carriers(x)' # {} PROVE \E j \in Carriers(x)' : Answers(j, x)'
  <2>1. PICK j \in Carriers(x) : Answers(j, x)
    BY <1>4, <1>c, <1>l
  <2>2. j \in Jobs /\ x \in RecordsOf(j)
    BY DEF Carriers
  <2>3. CASE j # JobOf[r]
    BY <1>c, <2>1, <2>2, <2>3, AnswersOther
  <2>4. CASE j = JobOf[r] /\ claims[x] \in {NoJob, JobOf[r]}
    <3>1. Answers(JobOf[r], x)'
      BY <1>2, <2>1, <2>2, <2>4
    <3>2. QED
      BY <1>c, <2>4, <3>1
  <2>5. CASE claims[x] \notin {NoJob, JobOf[r]}
    <3>1. PICK k \in Jobs : k = claims[x]
      BY <2>5, TypeParts DEF TypeTable
    <3>2. Answers(k, x) /\ k \in Carriers(x)
      BY <1>l, <2>5, <3>1 DEF OwnInv, Carriers
    <3>3. Answers(k, x)'
      BY <2>5, <3>1, <3>2, AnswersOther
    <3>4. QED
      BY <1>c, <3>2, <3>3
  <2>6. QED
    BY <2>3, <2>4, <2>5
<1>5. QED
  BY <1>3, <1>4

LEMMA LossNext ==
  TypeOK /\ ClaimInv /\ Alone /\ OwnInv /\ SentInv /\ LossInv /\ [Next]_vars => LossInv'
<1> SUFFICES ASSUME TypeOK, ClaimInv, Alone, OwnInv, SentInv, LossInv, [Next]_vars,
                    happened' \cap {"overlap", "swept"} = {}, NEW x \in Records, ~Accounted(x)'
             PROVE  /\ claims'[x] # NoJob => Answers(claims[x], x)'
                    /\ Carriers(x)' # {} => \E j \in Carriers(x)' : Answers(j, x)'
  BY DEF LossInv, Answers, Passed
<1>n. ~Accounted(x)
  BY AccountedStays
<1>q. ASSUME UNCHANGED <<content, claims, inserting, pos, won, outcome>>, happened \subseteq happened',
             \A q \in Runs : rpc'[q] = rpc[q] \/ (rpc[q] = "message" /\ rpc'[q] \in {"fetch", "done"}),
             \A j \in Jobs : row[j] \notin Settled => row'[j] \notin Settled
      PROVE  /\ claims'[x] # NoJob => Answers(claims[x], x)'
             /\ Carriers(x)' # {} => \E j \in Carriers(x)' : Answers(j, x)'
  <2>1. \A q \in Runs : Passed(q, x)' => Passed(q, x)
    BY <1>q DEF Passed, Slice
  <2>2. \A j \in Jobs : Answers(j, x) => Answers(j, x)'
    BY <1>q, <2>1 DEF Answers
  <2>3. Carriers(x)' = Carriers(x) /\ Carriers(x) \subseteq Jobs
    BY <1>q DEF Carriers, RecordsOf
  <2>4. /\ claims[x] # NoJob => Answers(claims[x], x)
        /\ Carriers(x) # {} => \E j \in Carriers(x) : Answers(j, x)
    BY <1>n, <1>q DEF LossInv
  <2>5. ASSUME claims'[x] # NoJob PROVE Answers(claims[x], x)'
    <3>1. PICK k \in Jobs : k = claims[x]
      BY <1>q, <2>5, TypeParts DEF TypeTable
    <3>2. Answers(k, x)'
      BY <1>q, <2>2, <2>4, <2>5, <3>1
    <3>3. QED
      BY <1>q, <3>1, <3>2 DEF Answers, Passed
  <2>6. QED
    BY <2>2, <2>3, <2>4, <2>5
<1>r. ASSUME \/ UNCHANGED vars
             \/ \E r \in Runs : _claim_job(r) \/ claim_fails_open(r)
             \/ \E j \in Jobs : requeue(j) \/ requeue_live(j)
             \/ purge_expired_executions
      PROVE  \A j \in Jobs : row[j] \notin Settled => row'[j] \notin Settled
  <2>1. ASSUME NEW r \in Runs, _claim_job(r)
        PROVE  \A j \in Jobs : row[j] \notin Settled => row'[j] \notin Settled
    BY <2>1, JobOfAssumption, TypeParts DEF _claim_job, TypeJobs, Settled
  <2>2. ASSUME NEW k \in Jobs, requeue(k) \/ requeue_live(k)
        PROVE  \A j \in Jobs : row[j] \notin Settled => row'[j] \notin Settled
    BY <2>2, TypeParts DEF requeue, requeue_live, TypeJobs, Settled
  <2>3. QED
    BY <1>r, <2>1, <2>2 DEF vars, claim_fails_open, purge_expired_executions, Settled
<1>1. ~purge_expired_content
  BY DEF purge_expired_content, Fault
<1>2. QED
  BY <1>1, <1>q, <1>r, LossRun, NextCases, QuietSteps, QuietRpc

\* However many runs fail, die, are stopped or lose a write, and whichever jobs share a record,
\* when all the jobs of a record have settled the record was delivered.
THEOREM NoRecordIsLost == Spec => []NothingLost
<1>1. LossInv => NothingLost
  <2> SUFFICES ASSUME LossInv, happened \cap {"overlap", "swept"} = {}, NEW x \in Records,
                      Carriers(x) # {}, \A j \in Carriers(x) : row[j] \in Settled
               PROVE  handed[x] # {} \/ Carriers(x) \cap written_before # {}
    BY DEF NothingLost, Carriers
  <2>1. Accounted(x)
    BY DEF LossInv, Answers
  <2>2. QED
    BY <2>1 DEF Accounted
<1>2. QED
  BY <1>1, TypeInit, TypeNext, ClaimInit, ClaimNext, AloneInit, AloneNext, LossInit, OwnNext, SentNext, LossNext, PTL
     DEF Spec
====
