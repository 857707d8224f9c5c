------------------------- MODULE DeadLettersProofs -------------------------
(***************************************************************************)
(* Theorems about the dead letter queue for any number of jobs, pods, API  *)
(* handlers, calls and faults.                                             *)
(***************************************************************************)
EXTENDS DeadLetters, FiniteSetTheorems, TLAPS

----------------------------------------------------------------------------
(* Type correctness. *)

LEMMA TypeInit == Init => TypeOK
<1> SUFFICES ASSUME Init PROVE TypeOK
  OBVIOUS
<1>1. due \in [Jobs -> BOOLEAN] /\ connected \in [Procs -> BOOLEAN]
  BY Zenon DEF Init
<1>2. QED
  BY <1>1 DEF Init, TypeOK, Steps, Statuses, Nothing

\* What close leaves behind has its type.
LEMMA TypeClose ==
  ASSUME NEW p \in Procs, TypeOK, close(p)
  PROVE  /\ lock' \in [Jobs -> Procs \cup {NoProc}] /\ pc' \in [Procs -> Steps]
         /\ mine' \in [Procs -> SUBSET Jobs] /\ group' \in [Procs -> SUBSET Jobs]
         /\ completed' \in [Procs -> SUBSET Jobs] /\ failed' \in [Procs -> SUBSET Jobs]
         /\ connected' \in [Procs -> BOOLEAN]
         /\ seen' \in [Procs -> [status : Statuses, retry_count : Nat]]
<1>1. connected' \in [Procs -> BOOLEAN]
  BY DEF TypeOK, close
<1>2. seen' \in [Procs -> [status : Statuses, retry_count : Nat]]
  BY DEF TypeOK, close, Nothing, Statuses
<1>3. pc' \in [Procs -> Steps]
  BY DEF TypeOK, close, goto, Steps
<1>4. QED
  BY <1>1, <1>2, <1>3 DEF TypeOK, close, unlocked

\* A run leaves every job with params of jobs.
LEMMA TypeRun ==
  ASSUME NEW p \in Procs, TypeOK, run_with(p)
  PROVE  ran' \in [Jobs -> SUBSET {ParamsOf[j] : j \in Jobs}]
<1>1. PICK first \in group[p] :
        ran' = [j \in Jobs |-> IF j \in group[p] THEN ran[j] \cup {ParamsOf[first]} ELSE ran[j]]
  BY DEF run_with
<1>2. first \in Jobs
  BY <1>1 DEF TypeOK
<1>3. QED
  BY <1>1, <1>2 DEF TypeOK

LEMMA TypeFailures ==
  ASSUME NEW S, TypeOK, count_failures(S)
  PROVE  failures' \in [Jobs -> Nat]
BY DEF TypeOK, count_failures

LEMMA TypeRowsAfter ==
  ASSUME NEW p \in Procs, TypeOK, rows_after(p)
  PROVE  /\ status' \in [Jobs -> Statuses] /\ retry_count' \in [Jobs -> Nat]
         /\ due' \in [Jobs -> BOOLEAN] /\ archive' \in SUBSET Jobs
<1> DEFINE gone == {j \in failed[p] : _archived(retry_count[j] + 1)}
<1>1. /\ status' = [j \in Jobs |-> CASE j \in completed[p] -> "completed"
                                     [] j \in gone -> "absent"
                                     [] j \in failed[p] \ gone -> "pending"
                                     [] OTHER -> status[j]]
      /\ retry_count' = [j \in Jobs |-> retry_count[j] + (IF j \in failed[p] THEN 1 ELSE 0)]
      /\ due' = [j \in Jobs |-> due[j] /\ j \notin failed[p]]
      /\ archive' = archive \cup gone
  BY DEF rows_after
<1>2. gone \subseteq Jobs
  BY DEF TypeOK
<1> HIDE DEF gone
<1>3. status' \in [Jobs -> Statuses]
  <2> SUFFICES ASSUME NEW j \in Jobs
               PROVE  (CASE j \in completed[p] -> "completed" [] j \in gone -> "absent"
                         [] j \in failed[p] \ gone -> "pending" [] OTHER -> status[j]) \in Statuses
    BY <1>1
  <2>1. status[j] \in Statuses
    BY DEF TypeOK
  <2>2. QED
    BY <2>1 DEF Statuses
<1>4. due' \in [Jobs -> BOOLEAN]
  BY <1>1, Zenon
<1>5. retry_count' \in [Jobs -> Nat]
  BY <1>1 DEF TypeOK
<1>6. archive' \in SUBSET Jobs
  BY <1>1, <1>2 DEF TypeOK
<1>7. QED
  BY <1>3, <1>4, <1>5, <1>6

LEMMA TypeRows ==
  ASSUME TypeOK, NEW j \in Jobs, schedule_dlq_job(j) \/ become_due(j)
  PROVE  TypeOK'
<1>1. CASE schedule_dlq_job(j)
  BY <1>1 DEF schedule_dlq_job, TypeOK, work, history, Statuses
<1>2. CASE become_due(j)
  <2>1. due' \in [Jobs -> BOOLEAN]
    BY <1>2 DEF become_due, TypeOK
  <2>2. QED
    BY <1>2, <2>1 DEF become_due, TypeOK, work, history
<1>3. QED
  BY <1>1, <1>2

LEMMA TypeTake ==
  ASSUME TypeOK, NEW p \in Procs, NEW S \in SUBSET Jobs, take(p, S)
  PROVE  /\ mine' \in [Procs -> SUBSET Jobs] /\ lock' \in [Jobs -> Procs \cup {NoProc}]
         /\ pc' \in [Procs -> Steps]
<1>1. pc' \in [Procs -> Steps]
  BY DEF take, goto, TypeOK, Steps
<1>2. QED
  BY <1>1 DEF take, TypeOK

LEMMA TypeBatch ==
  ASSUME TypeOK, NEW p \in Procs,
         batch_step(p) \/ crash(p) \/ connection_lost(p) \/ (p \in Pollers /\ poll_and_process(p))
  PROVE  TypeOK'
<1> USE DEF rows, history
<1>1. CASE _dispatch_jobs(p)
  <2>1. PICK g \in _group_by_params(mine[p] \ (completed[p] \cup failed[p])) :
          group' = [group EXCEPT ![p] = g]
    BY <1>1 DEF _dispatch_jobs
  <2>2. g \in SUBSET Jobs
    BY <2>1 DEF _group_by_params, TypeOK
  <2>3. pc' \in [Procs -> Steps]
    BY <1>1 DEF _dispatch_jobs, goto, TypeOK, Steps
  <2>4. QED
    BY <1>1, <2>1, <2>2, <2>3 DEF _dispatch_jobs, TypeOK
<1>2. CASE _mark_completed(p)
  <2>1. ran' \in [Jobs -> SUBSET {ParamsOf[j] : j \in Jobs}]
    BY <1>2, TypeRun DEF _mark_completed
  <2>2. pc' \in [Procs -> Steps]
    BY <1>2 DEF _mark_completed, goto, TypeOK, Steps
  <2>3. QED
    BY <1>2, <2>1, <2>2 DEF _mark_completed, TypeOK
<1>3. CASE run_raises(p)
  <2>1. ran' \in [Jobs -> SUBSET {ParamsOf[j] : j \in Jobs}]
    BY <1>3, TypeRun DEF run_raises, TypeOK
  <2>2. pc' \in [Procs -> Steps]
    BY <1>3 DEF run_raises, goto, TypeOK, Steps
  <2>3. failures' \in [Jobs -> Nat]
    BY <1>3, TypeFailures DEF run_raises
  <2>4. QED
    BY <1>3, <2>1, <2>2, <2>3 DEF run_raises, TypeOK
<1>4. CASE commit(p)
  <2>1. close(p)
    BY <1>4 DEF commit
  <2>2. /\ status' \in [Jobs -> Statuses] /\ retry_count' \in [Jobs -> Nat]
        /\ due' \in [Jobs -> BOOLEAN] /\ archive' \in SUBSET Jobs
    BY <1>4, TypeRowsAfter DEF commit, TypeOK
  <2>3. UNCHANGED <<calls, faults, ran, failures>>
    BY <1>4 DEF commit
  <2>4. QED
    BY <2>1, <2>2, <2>3, TypeClose DEF TypeOK
<1>5. CASE crash(p)
  BY <1>5, TypeClose DEF crash, TypeOK
<1>6. CASE connection_lost(p)
  <2>1. connected' \in [Procs -> BOOLEAN]
    BY <1>6 DEF connection_lost, TypeOK
  <2>2. QED
    BY <1>6, <2>1 DEF connection_lost, unlocked, TypeOK
<1>7. CASE poll_and_process(p)
  <2>1. {j \in free_pending : due[j]} \in SUBSET Jobs
    BY DEF free_pending
  <2>2. QED
    BY <1>7, <2>1, TypeTake DEF poll_and_process, TypeOK
<1>8. QED
  BY <1>1, <1>2, <1>3, <1>4, <1>5, <1>6, <1>7 DEF batch_step

LEMMA TypeHandler ==
  ASSUME TypeOK, NEW h \in Handlers, request(h) \/ cancel_commit(h) \/ job_step(h)
  PROVE  TypeOK'
<1>h. h \in Procs
  BY DEF Procs
<1> USE <1>h DEF rows, history
<1>1. ASSUME NEW j \in Jobs, cancel_dlq_job(h, j) PROVE TypeOK'
  <2>1. pc' \in [Procs -> Steps]
    BY <1>1 DEF cancel_dlq_job, goto, TypeOK, Steps
  <2>2. mine' \in [Procs -> SUBSET Jobs] /\ calls' \in Nat
    BY <1>1 DEF cancel_dlq_job, call, TypeOK
  <2>3. UNCHANGED <<status, retry_count, due, archive, lock, group, completed, failed, connected, seen,
                   faults, ran, failures>>
    BY <1>1 DEF cancel_dlq_job
  <2>4. QED
    BY <2>1, <2>2, <2>3 DEF TypeOK
<1>2. ASSUME NEW j \in Jobs, process_job_immediately(h, j) PROVE TypeOK'
  <2>1. pc' \in [Procs -> Steps]
    BY <1>2 DEF process_job_immediately, goto, TypeOK, Steps
  <2>2. mine' \in [Procs -> SUBSET Jobs] /\ calls' \in Nat
    BY <1>2 DEF process_job_immediately, call, TypeOK
  <2>3. UNCHANGED <<status, retry_count, due, archive, lock, group, completed, failed, connected, seen,
                   faults, ran, failures>>
    BY <1>2 DEF process_job_immediately
  <2>4. QED
    BY <2>1, <2>2, <2>3 DEF TypeOK
<1>3. ASSUME NEW j \in Jobs, process_pipeline_immediately(h, PipelineOf[j]) PROVE TypeOK'
  <2>1. {k \in free_pending : PipelineOf[k] = PipelineOf[j]} \in SUBSET Jobs
    BY DEF free_pending
  <2>2. QED
    BY <1>3, <2>1, TypeTake DEF process_pipeline_immediately, call, TypeOK
<1>4. CASE cancel_commit(h)
  <2>1. status' \in [Jobs -> Statuses]
    BY <1>4 DEF cancel_commit, TypeOK, Statuses
  <2>2. QED
    BY <1>4, <2>1, TypeClose DEF cancel_commit, TypeOK
<1>5. CASE lock_job(h)
  <2>1. PICK j \in mine[h] :
          IF status[j] = "pending"
          THEN /\ lock' = [lock EXCEPT ![j] = h]
               /\ group' = [group EXCEPT ![h] = {j}]
               /\ goto(h, "run_one")
               /\ UNCHANGED <<mine, completed, failed, connected, seen>>
          ELSE close(h)
    BY <1>5 DEF lock_job
  <2>2. j \in Jobs
    BY <2>1 DEF TypeOK
  <2>3. CASE status[j] = "pending"
    <3>1. pc' \in [Procs -> Steps]
      BY <2>1, <2>3 DEF goto, TypeOK, Steps
    <3>2. lock' \in [Jobs -> Procs \cup {NoProc}] /\ group' \in [Procs -> SUBSET Jobs]
      <4>1. lock' = [lock EXCEPT ![j] = h] /\ group' = [group EXCEPT ![h] = {j}]
        BY <2>1, <2>3
      <4>2. lock \in [Jobs -> Procs \cup {NoProc}] /\ group \in [Procs -> SUBSET Jobs]
        BY DEF TypeOK
      <4>3. QED
        BY ONLY <1>h, <2>2, <4>1, <4>2
    <3>3. UNCHANGED <<status, retry_count, due, archive, mine, completed, failed, connected, seen,
                      calls, faults, ran, failures>>
      BY <1>5, <2>1, <2>3 DEF lock_job
    <3>4. QED
      BY <3>1, <3>2, <3>3 DEF TypeOK
  <2>4. CASE status[j] # "pending"
    BY <1>5, <2>1, <2>4, TypeClose DEF lock_job, TypeOK
  <2>5. QED
    BY <2>3, <2>4
<1>6. CASE commit_job(h)
  <2>1. ran' \in [Jobs -> SUBSET {ParamsOf[j] : j \in Jobs}]
    BY <1>6, TypeRun DEF commit_job
  <2>2. CASE connected[h]
    <3>1. status' \in [Jobs -> Statuses]
      BY <1>6, <2>2 DEF commit_job, TypeOK, Statuses
    <3>2. QED
      BY <1>6, <2>1, <2>2, <3>1, TypeClose DEF commit_job, TypeOK
  <2>3. CASE ~connected[h]
    <3>1. pc' \in [Procs -> Steps]
      BY <1>6, <2>3 DEF commit_job, goto, TypeOK, Steps
    <3>2. failures' \in [Jobs -> Nat]
      BY <1>6, <2>3, TypeFailures DEF commit_job
    <3>3. QED
      BY <1>6, <2>1, <2>3, <3>1, <3>2 DEF commit_job, TypeOK
  <2>4. QED
    BY <2>2, <2>3
<1>7. CASE rollback_job(h)
  <2>1. ran' \in [Jobs -> SUBSET {ParamsOf[j] : j \in Jobs}]
    BY <1>7, TypeRun DEF rollback_job, TypeOK
  <2>2. pc' \in [Procs -> Steps]
    BY <1>7 DEF rollback_job, goto, TypeOK, Steps
  <2>3. failures' \in [Jobs -> Nat]
    BY <1>7, TypeFailures DEF rollback_job
  <2>4. QED
    BY <1>7, <2>1, <2>2, <2>3 DEF rollback_job, unlocked, TypeOK
<1>8. CASE reload_job(h)
  <2>1. PICK j \in mine[h] :
          IF status[j] = "absent"
          THEN close(h)
          ELSE /\ seen' = [seen EXCEPT ![h] = [status |-> status[j], retry_count |-> retry_count[j]]]
               /\ goto(h, "write")
               /\ UNCHANGED <<lock, work>>
    BY <1>8 DEF reload_job
  <2>2. j \in Jobs
    BY <2>1 DEF TypeOK
  <2>3. CASE status[j] = "absent"
    BY <1>8, <2>1, <2>3, TypeClose DEF reload_job, TypeOK
  <2>4. CASE status[j] # "absent"
    <3>1. pc' \in [Procs -> Steps]
      BY <2>1, <2>4 DEF goto, TypeOK, Steps
    <3>2. seen' \in [Procs -> [status : Statuses, retry_count : Nat]]
      <4>1. seen' = [seen EXCEPT ![h] = [status |-> status[j], retry_count |-> retry_count[j]]]
        BY <2>1, <2>4
      <4>2. status[j] \in Statuses /\ retry_count[j] \in Nat
        BY <2>2 DEF TypeOK
      <4>3. seen \in [Procs -> [status : Statuses, retry_count : Nat]]
        BY DEF TypeOK
      <4>4. QED
        BY ONLY <1>h, <4>1, <4>2, <4>3
    <3>3. UNCHANGED <<status, retry_count, due, archive, lock, mine, group, completed, failed,
                      connected, calls, faults, ran, failures>>
      BY <1>8, <2>1, <2>4 DEF reload_job, work
    <3>4. QED
      BY <3>1, <3>2, <3>3 DEF TypeOK
  <2>5. QED
    BY <2>3, <2>4
<1>9. CASE write_failure(h)
  <2>1. PICK j \in mine[h] :
          IF status[j] = "absent"
          THEN UNCHANGED rows
          ELSE IF _archived(seen[h].retry_count + 1)
               THEN /\ status' = [status EXCEPT ![j] = "absent"]
                    /\ archive' = archive \cup {j}
                    /\ UNCHANGED <<retry_count, due>>
               ELSE /\ status' = IF seen[h].status = "pending"
                                 THEN status ELSE [status EXCEPT ![j] = "pending"]
                    /\ retry_count' = [retry_count EXCEPT ![j] = seen[h].retry_count + 1]
                    /\ due' = [due EXCEPT ![j] = FALSE]
                    /\ UNCHANGED archive
    BY <1>9 DEF write_failure
  <2>2. j \in Jobs /\ seen[h].retry_count + 1 \in Nat
    BY <2>1 DEF TypeOK
  <2>3. due' \in [Jobs -> BOOLEAN]
    BY <2>1, <2>2 DEF TypeOK
  <2>4. status' \in [Jobs -> Statuses] /\ retry_count' \in [Jobs -> Nat] /\ archive' \in SUBSET Jobs
    BY <2>1, <2>2 DEF TypeOK, Statuses
  <2>5. close(h) /\ UNCHANGED <<calls, faults, ran, failures>>
    BY <1>9 DEF write_failure
  <2>6. QED
    BY <2>3, <2>4, <2>5, TypeClose DEF TypeOK
<1>10. QED
  BY <1>1, <1>2, <1>3, <1>4, <1>5, <1>6, <1>7, <1>8, <1>9 DEF request, job_step

LEMMA TypeNext == TypeOK /\ [Next]_vars => TypeOK'
<1> SUFFICES ASSUME TypeOK, [Next]_vars PROVE TypeOK'
  OBVIOUS
<1>1. CASE UNCHANGED vars
  BY <1>1 DEF TypeOK, vars
<1>2. CASE Next
  BY <1>2, TypeRows, TypeBatch, TypeHandler DEF Next, Procs
<1>3. QED
  BY <1>1, <1>2

\* No transaction ever commits "processing": a row is absent, pending, completed
\* or cancelled for every other transaction, and every field keeps its type.
THEOREM TypeCorrect == Spec => []TypeOK
BY TypeInit, TypeNext, PTL DEF Spec

----------------------------------------------------------------------------
(* A connected transaction holds the lock of every row it works on. *)

Working == {"dispatch", "run", "run_one"}

HoldInv ==
  /\ \A p \in Procs : pc[p] \notin {"run", "run_one"} => group[p] = {}
  /\ \A p \in Procs : pc[p] = "lock" => \A i, j \in mine[p] : i = j
  /\ \A p \in Procs : pc[p] = "run_one" => group[p] = mine[p]
  /\ \A p \in Procs : group[p] \subseteq mine[p]
  /\ \A p \in Procs : connected[p] /\ pc[p] \in Working => \A j \in mine[p] : lock[j] = p

LEMMA HoldInit == Init => HoldInv
BY DEF Init, HoldInv, Working

\* Closing a session frees its own rows only.
LEMMA HoldClose ==
  ASSUME TypeOK, HoldInv, NEW p \in Procs, close(p)
  PROVE  HoldInv'
<1>1. /\ pc'[p] = "idle" /\ group'[p] = {} /\ mine'[p] = {}
      /\ \A q \in Procs \ {p} : /\ pc'[q] = pc[q] /\ group'[q] = group[q]
                                /\ mine'[q] = mine[q] /\ connected'[q] = connected[q]
      /\ \A j \in Jobs : \A q \in Procs \ {p} : lock[j] = q => lock'[j] = q
  BY DEF close, goto, unlocked, TypeOK
<1>2. \A q \in Procs : mine[q] \subseteq Jobs
  BY DEF TypeOK
<1>3. QED
  BY ONLY HoldInv, <1>1, <1>2 DEF HoldInv, Working

\* Rows are taken that nobody had locked.
LEMMA HoldTake ==
  ASSUME TypeOK, HoldInv, NEW p \in Procs, NEW S \in SUBSET free_pending, take(p, S),
         pc[p] = "idle", UNCHANGED <<group, connected>>
  PROVE  HoldInv'
<1>1. /\ pc'[p] = "dispatch" /\ mine'[p] = S
      /\ \A q \in Procs \ {p} : pc'[q] = pc[q] /\ mine'[q] = mine[q]
      /\ \A q \in Procs : group'[q] = group[q] /\ connected'[q] = connected[q]
      /\ \A j \in Jobs : IF j \in S THEN lock'[j] = p /\ lock[j] = NoProc ELSE lock'[j] = lock[j]
  BY DEF take, goto, free_pending, TypeOK
<1>2. \A q \in Procs : mine[q] \subseteq Jobs /\ q # NoProc
  BY ProcsAssumption DEF TypeOK, Procs
<1>3. S \subseteq Jobs
  BY DEF free_pending
<1>4. group[p] = {}
  BY DEF HoldInv
<1>5. QED
  BY ONLY HoldInv, <1>1, <1>2, <1>3, <1>4 DEF HoldInv, Working

LEMMA HoldBatch ==
  ASSUME TypeOK, HoldInv, NEW p \in Procs,
         batch_step(p) \/ crash(p) \/ connection_lost(p) \/ (p \in Pollers /\ poll_and_process(p))
  PROVE  HoldInv'
<1>t. \A q \in Procs : mine[q] \subseteq Jobs
  BY DEF TypeOK
<1>1. CASE _dispatch_jobs(p)
  <2>1. PICK g \in _group_by_params(mine[p] \ (completed[p] \cup failed[p])) :
          group' = [group EXCEPT ![p] = g]
    BY <1>1 DEF _dispatch_jobs
  <2>2. g \subseteq mine[p]
    BY <2>1 DEF _group_by_params
  <2>3. /\ pc[p] = "dispatch" /\ pc'[p] = "run" /\ group'[p] = g
        /\ \A q \in Procs \ {p} : pc'[q] = pc[q] /\ group'[q] = group[q]
        /\ UNCHANGED <<mine, lock, connected>>
    BY <1>1, <2>1 DEF _dispatch_jobs, goto, TypeOK
  <2>4. QED
    BY ONLY HoldInv, <2>2, <2>3 DEF HoldInv, Working
<1>2. CASE _mark_completed(p) \/ run_raises(p)
  <2>1. /\ pc[p] = "run" /\ pc'[p] = "dispatch" /\ group'[p] = {}
        /\ \A q \in Procs \ {p} : pc'[q] = pc[q] /\ group'[q] = group[q]
        /\ UNCHANGED <<mine, lock, connected>>
    BY <1>2 DEF _mark_completed, run_raises, goto, TypeOK
  <2>2. QED
    BY ONLY HoldInv, <2>1 DEF HoldInv, Working
<1>3. CASE commit(p) \/ crash(p)
  BY <1>3, HoldClose DEF commit, crash
<1>4. CASE connection_lost(p)
  <2>1. /\ ~connected'[p] /\ \A q \in Procs \ {p} : connected'[q] = connected[q]
        /\ \A j \in Jobs : \A q \in Procs \ {p} : lock[j] = q => lock'[j] = q
        /\ UNCHANGED <<mine, group, pc>>
    BY <1>4 DEF connection_lost, unlocked, TypeOK
  <2>2. QED
    BY ONLY HoldInv, <1>t, <2>1 DEF HoldInv, Working
<1>5. CASE poll_and_process(p)
  BY <1>5, HoldTake DEF poll_and_process
<1>6. QED
  BY <1>1, <1>2, <1>3, <1>4, <1>5 DEF batch_step

LEMMA HoldHandler ==
  ASSUME TypeOK, HoldInv, NEW h \in Handlers, request(h) \/ cancel_commit(h) \/ job_step(h)
  PROVE  HoldInv'
<1>h. h \in Procs
  BY DEF Procs
<1>t. \A q \in Procs : mine[q] \subseteq Jobs /\ q # NoProc
  BY ProcsAssumption DEF TypeOK, Procs
<1>1. ASSUME NEW j \in Jobs, cancel_dlq_job(h, j) \/ process_job_immediately(h, j) PROVE HoldInv'
  <2>1. /\ pc[h] = "idle" /\ pc'[h] \in {"cancel", "lock"} /\ mine'[h] = {j}
        /\ \A q \in Procs \ {h} : pc'[q] = pc[q] /\ mine'[q] = mine[q]
        /\ UNCHANGED <<group, lock, connected>>
    BY <1>1, <1>h DEF cancel_dlq_job, process_job_immediately, goto, TypeOK
  <2>2. QED
    BY ONLY HoldInv, <1>h, <2>1 DEF HoldInv, Working
<1>2. ASSUME NEW j \in Jobs, process_pipeline_immediately(h, PipelineOf[j]) PROVE HoldInv'
  BY <1>2, <1>h, HoldTake DEF process_pipeline_immediately
<1>3. CASE lock_job(h)
  <2>1. PICK j \in mine[h] :
          /\ lock[j] = NoProc
          /\ IF status[j] = "pending"
             THEN /\ lock' = [lock EXCEPT ![j] = h]
                  /\ group' = [group EXCEPT ![h] = {j}]
                  /\ goto(h, "run_one")
                  /\ UNCHANGED <<mine, completed, failed, connected, seen>>
             ELSE close(h)
    BY <1>3 DEF lock_job
  <2>2. CASE status[j] # "pending"
    BY <2>1, <2>2, <1>h, HoldClose
  <2>3. CASE status[j] = "pending"
    <3>1. mine[h] = {j} /\ pc[h] = "lock"
      BY <1>3, <2>1, <1>h DEF lock_job, HoldInv
    <3>2. j \in Jobs
      BY <2>1, <1>h, <1>t
    <3>3. /\ lock' = [lock EXCEPT ![j] = h] /\ group' = [group EXCEPT ![h] = {j}]
          /\ pc' = [pc EXCEPT ![h] = "run_one"]
          /\ UNCHANGED <<mine, connected>>
      BY <2>1, <2>3 DEF goto
    <3>4. lock \in [Jobs -> Procs \cup {NoProc}] /\ group \in [Procs -> SUBSET Jobs] /\ pc \in [Procs -> Steps]
      BY DEF TypeOK
    <3>5. /\ pc'[h] = "run_one" /\ group'[h] = {j} /\ lock'[j] = h
          /\ \A q \in Procs \ {h} : pc'[q] = pc[q] /\ group'[q] = group[q]
          /\ \A k \in Jobs \ {j} : lock'[k] = lock[k]
      BY ONLY <3>2, <3>3, <3>4, <1>h
    <3>6. QED
      BY ONLY HoldInv, <1>h, <1>t, <2>1, <3>1, <3>2, <3>3, <3>5 DEF HoldInv, Working
  <2>4. QED
    BY <2>2, <2>3
<1>4. CASE commit_job(h)
  <2>1. CASE connected[h]
    BY <1>4, <2>1, <1>h, HoldClose DEF commit_job
  <2>2. CASE ~connected[h]
    <3>1. /\ pc[h] = "run_one" /\ pc'[h] = "reload" /\ group'[h] = {}
          /\ \A q \in Procs \ {h} : pc'[q] = pc[q] /\ group'[q] = group[q]
          /\ UNCHANGED <<mine, lock, connected>>
      BY <1>4, <2>2, <1>h DEF commit_job, goto, TypeOK
    <3>2. QED
      BY ONLY HoldInv, <1>h, <3>1 DEF HoldInv, Working
  <2>3. QED
    BY <2>1, <2>2
<1>5. CASE rollback_job(h)
  <2>1. /\ pc[h] = "run_one" /\ pc'[h] = "reload" /\ group'[h] = {}
        /\ \A q \in Procs \ {h} : pc'[q] = pc[q] /\ group'[q] = group[q]
        /\ \A j \in Jobs : \A q \in Procs \ {h} : lock[j] = q => lock'[j] = q
        /\ UNCHANGED <<mine, connected>>
    BY <1>5, <1>h DEF rollback_job, unlocked, goto, TypeOK
  <2>2. QED
    BY ONLY HoldInv, <1>h, <1>t, <2>1 DEF HoldInv, Working
<1>6. CASE reload_job(h)
  <2>1. CASE close(h)
    BY <2>1, <1>h, HoldClose
  <2>2. CASE goto(h, "write") /\ UNCHANGED <<lock, work>>
    <3>1. /\ pc[h] = "reload" /\ pc'[h] = "write"
          /\ \A q \in Procs \ {h} : pc'[q] = pc[q]
          /\ UNCHANGED <<mine, lock, connected, group>>
      BY <1>6, <2>2, <1>h DEF reload_job, goto, work, TypeOK
    <3>2. QED
      BY ONLY HoldInv, <1>h, <3>1 DEF HoldInv, Working
  <2>3. QED
    BY <1>6, <2>1, <2>2 DEF reload_job
<1>7. CASE write_failure(h) \/ cancel_commit(h)
  BY <1>7, <1>h, HoldClose DEF write_failure, cancel_commit
<1>8. QED
  BY <1>1, <1>2, <1>3, <1>4, <1>5, <1>6, <1>7 DEF request, job_step

LEMMA HoldNext == TypeOK /\ HoldInv /\ [Next]_vars => HoldInv'
<1> SUFFICES ASSUME TypeOK, HoldInv, [Next]_vars PROVE HoldInv'
  OBVIOUS
<1>1. CASE UNCHANGED vars
  BY <1>1 DEF HoldInv, vars
<1>2. ASSUME NEW j \in Jobs, schedule_dlq_job(j) \/ become_due(j) PROVE HoldInv'
  BY <1>2 DEF schedule_dlq_job, become_due, work, HoldInv
<1>3. QED
  BY <1>1, <1>2, HoldBatch, HoldHandler DEF Next, Procs

\* Two transactions that have their connection never run the same dead letter
\* job at the same time: SKIP LOCKED and FOR UPDATE see to it, whichever of
\* _poll_and_process, process_job_immediately and process_pipeline_immediately they are.
THEOREM JobsRunOnceAtATime == Spec => []OneRunAtATime
<1>1. TypeOK /\ HoldInv => OneRunAtATime
  <2> SUFFICES ASSUME TypeOK, HoldInv, NEW p \in Procs, NEW q \in Procs, p # q,
                      connected[p], connected[q], NEW j \in group[p] \cap group[q]
               PROVE  FALSE
    BY DEF OneRunAtATime
  <2>1. pc[p] \in Working /\ pc[q] \in Working /\ j \in mine[p] /\ j \in mine[q]
    BY DEF HoldInv, Working
  <2>2. lock[j] = p /\ lock[j] = q
    BY <2>1 DEF HoldInv
  <2>3. QED
    BY <2>2
<1>2. QED
  BY <1>1, TypeInit, TypeNext, HoldInit, HoldNext, PTL DEF Spec

----------------------------------------------------------------------------
(* The jobs of a group have the same params, and what a transaction will   *)
(* write as completed has run with its own.                                *)

ParamsInv ==
  /\ \A p \in Procs : \A i, j \in group[p] : ParamsOf[i] = ParamsOf[j]
  /\ \A p \in Procs : \A j \in completed[p] : ParamsOf[j] \in ran[j]
  /\ CompletedRanOwnParams

LEMMA ParamsInit == Init => ParamsInv
BY DEF Init, ParamsInv, CompletedRanOwnParams

\* A step that runs nothing, completes nothing and shares no new run.
LEMMA ParamsKept ==
  ASSUME TypeOK, ParamsInv, UNCHANGED ran,
         \A p \in Procs : group'[p] \subseteq group[p] /\ completed'[p] \subseteq completed[p],
         \A j \in Jobs : status'[j] = "completed" => status[j] = "completed"
  PROVE  ParamsInv'
BY DEF ParamsInv, CompletedRanOwnParams

LEMMA ClosedSets ==
  ASSUME TypeOK, NEW p \in Procs, close(p)
  PROVE  \A q \in Procs : group'[q] \subseteq group[q] /\ completed'[q] \subseteq completed[q]
BY DEF close, TypeOK

\* A run adds the params of every job of its group.
LEMMA RunAdds ==
  ASSUME TypeOK, ParamsInv, NEW p \in Procs, run_with(p)
  PROVE  /\ \A j \in Jobs : ran[j] \subseteq ran'[j]
         /\ \A j \in group[p] : ParamsOf[j] \in ran'[j]
<1>1. PICK first \in group[p] :
        ran' = [j \in Jobs |-> IF j \in group[p] THEN ran[j] \cup {ParamsOf[first]} ELSE ran[j]]
  BY DEF run_with
<1>2. \A j \in group[p] : j \in Jobs /\ ParamsOf[j] = ParamsOf[first]
  BY <1>1 DEF TypeOK, ParamsInv
<1>3. QED
  BY <1>1, <1>2

LEMMA ParamsBatch ==
  ASSUME TypeOK, HoldInv, ParamsInv, NEW p \in Procs,
         batch_step(p) \/ crash(p) \/ connection_lost(p) \/ (p \in Pollers /\ poll_and_process(p))
  PROVE  ParamsInv'
<1>t. \A q \in Procs : group[q] \subseteq Jobs /\ completed[q] \subseteq Jobs
  BY DEF TypeOK
<1>1. CASE _dispatch_jobs(p)
  <2>1. PICK g \in _group_by_params(mine[p] \ (completed[p] \cup failed[p])) :
          group' = [group EXCEPT ![p] = g]
    BY <1>1 DEF _dispatch_jobs
  <2>2. \A i, j \in g : ParamsOf[i] = ParamsOf[j]
    BY <2>1 DEF _group_by_params
  <2>3. /\ group'[p] = g /\ \A q \in Procs \ {p} : group'[q] = group[q]
        /\ UNCHANGED <<completed, ran, status>>
    BY <1>1, <2>1 DEF _dispatch_jobs, rows, history, TypeOK
  <2>4. QED
    BY ONLY ParamsInv, <2>2, <2>3 DEF ParamsInv, CompletedRanOwnParams
<1>2. CASE _mark_completed(p)
  <2>1. /\ \A j \in Jobs : ran[j] \subseteq ran'[j]
        /\ \A j \in group[p] : ParamsOf[j] \in ran'[j]
    BY <1>2, RunAdds DEF _mark_completed
  <2>2. /\ \A q \in Procs : group'[q] \subseteq group[q]
        /\ completed'[p] = completed[p] \cup group[p]
        /\ \A q \in Procs \ {p} : completed'[q] = completed[q]
        /\ UNCHANGED status
    BY <1>2 DEF _mark_completed, rows, TypeOK
  <2>3. QED
    BY ONLY ParamsInv, <1>t, <2>1, <2>2 DEF ParamsInv, CompletedRanOwnParams
<1>3. CASE run_raises(p)
  <2>1. \A j \in Jobs : ran[j] \subseteq ran'[j]
    BY <1>3, RunAdds DEF run_raises
  <2>2. /\ \A q \in Procs : group'[q] \subseteq group[q]
        /\ UNCHANGED <<status, completed>>
    BY <1>3 DEF run_raises, rows, TypeOK
  <2>3. QED
    BY ONLY ParamsInv, <1>t, <2>1, <2>2 DEF ParamsInv, CompletedRanOwnParams
<1>4. CASE commit(p)
  <2>1. \A q \in Procs : group'[q] \subseteq group[q] /\ completed'[q] \subseteq completed[q]
    BY <1>4, ClosedSets DEF commit
  <2>2. \A j \in Jobs : status'[j] = "completed" => status[j] = "completed" \/ j \in completed[p]
    <3>1. CASE connected[p]
      <4> DEFINE gone == {j \in failed[p] : _archived(retry_count[j] + 1)}
      <4>1. status' = [j \in Jobs |-> CASE j \in completed[p] -> "completed"
                                         [] j \in gone -> "absent"
                                         [] j \in failed[p] \ gone -> "pending"
                                         [] OTHER -> status[j]]
        BY <1>4, <3>1 DEF commit, rows_after
      <4> HIDE DEF gone
      <4>2. QED
        BY ONLY <4>1
    <3>2. CASE ~connected[p]
      BY <1>4, <3>2 DEF commit, rows
    <3>3. QED
      BY <3>1, <3>2
  <2>3. UNCHANGED ran
    BY <1>4 DEF commit, history
  <2>4. QED
    BY ONLY ParamsInv, <1>t, <2>1, <2>2, <2>3 DEF ParamsInv, CompletedRanOwnParams
<1>5. CASE crash(p)
  BY <1>5, ClosedSets, ParamsKept DEF crash, rows, history
<1>6. CASE connection_lost(p) \/ poll_and_process(p)
  BY <1>6, ParamsKept DEF connection_lost, poll_and_process, rows, history
<1>7. QED
  BY <1>1, <1>2, <1>3, <1>4, <1>5, <1>6 DEF batch_step

LEMMA ParamsHandler ==
  ASSUME TypeOK, HoldInv, ParamsInv, NEW h \in Handlers, request(h) \/ cancel_commit(h) \/ job_step(h)
  PROVE  ParamsInv'
<1>h. h \in Procs
  BY DEF Procs
<1>t. \A q \in Procs : group[q] \subseteq Jobs /\ completed[q] \subseteq Jobs
  BY DEF TypeOK
<1>1. CASE request(h)
  BY <1>1, ParamsKept DEF request, cancel_dlq_job, process_job_immediately,
                          process_pipeline_immediately, rows, history
<1>2. CASE cancel_commit(h)
  <2>1. \A j \in Jobs : status'[j] = "completed" => status[j] = "completed"
    BY <1>2 DEF cancel_commit
  <2>2. QED
    BY <1>2, <2>1, <1>h, ClosedSets, ParamsKept DEF cancel_commit, history
<1>3. CASE lock_job(h)
  <2>1. UNCHANGED <<status, ran>>
    BY <1>3 DEF lock_job, rows, history
  <2>2. CASE close(h)
    BY <2>1, <2>2, <1>h, ClosedSets, ParamsKept
  <2>3. ASSUME NEW j \in mine[h], group' = [group EXCEPT ![h] = {j}], UNCHANGED completed
        PROVE  ParamsInv'
    <3>1. group'[h] = {j} /\ \A q \in Procs \ {h} : group'[q] = group[q]
      BY <2>3, <1>h DEF TypeOK
    <3>2. QED
      BY ONLY ParamsInv, <1>h, <2>1, <2>3, <3>1 DEF ParamsInv, CompletedRanOwnParams
  <2>4. QED
    BY <1>3, <2>2, <2>3 DEF lock_job
<1>4. CASE commit_job(h)
  <2>1. /\ \A j \in Jobs : ran[j] \subseteq ran'[j]
        /\ \A j \in group[h] : ParamsOf[j] \in ran'[j]
    BY <1>4, <1>h, RunAdds DEF commit_job
  <2>2. group[h] = mine[h]
    BY <1>4, <1>h DEF commit_job, HoldInv
  <2>3. \A q \in Procs : group'[q] \subseteq group[q] /\ completed'[q] \subseteq completed[q]
    <3>1. CASE connected[h]
      BY <1>4, <3>1, <1>h, ClosedSets DEF commit_job
    <3>2. CASE ~connected[h]
      BY <1>4, <3>2, <1>h DEF commit_job, TypeOK
    <3>3. QED
      BY <3>1, <3>2
  <2>4. \A j \in Jobs : status'[j] = "completed" => status[j] = "completed" \/ j \in mine[h]
    BY <1>4 DEF commit_job
  <2>5. QED
    BY ONLY ParamsInv, <1>t, <2>1, <2>2, <2>3, <2>4 DEF ParamsInv, CompletedRanOwnParams
<1>5. CASE rollback_job(h)
  <2>1. \A j \in Jobs : ran[j] \subseteq ran'[j]
    BY <1>5, <1>h, RunAdds DEF rollback_job
  <2>2. /\ \A q \in Procs : group'[q] \subseteq group[q]
        /\ UNCHANGED <<status, completed>>
    BY <1>5, <1>h DEF rollback_job, rows, TypeOK
  <2>3. QED
    BY ONLY ParamsInv, <1>t, <2>1, <2>2 DEF ParamsInv, CompletedRanOwnParams
<1>6. CASE reload_job(h)
  <2>1. UNCHANGED <<status, ran>>
    BY <1>6 DEF reload_job, rows, history
  <2>2. CASE close(h)
    BY <2>1, <2>2, <1>h, ClosedSets, ParamsKept
  <2>3. CASE UNCHANGED work
    BY <2>1, <2>3, ParamsKept DEF work
  <2>4. QED
    BY <1>6, <2>2, <2>3 DEF reload_job
<1>7. CASE write_failure(h)
  <2>1. PICK j \in mine[h] :
          \/ UNCHANGED status
          \/ status' = [status EXCEPT ![j] = "absent"]
          \/ status' = [status EXCEPT ![j] = "pending"]
    BY <1>7 DEF write_failure, rows
  <2>2. status \in [Jobs -> Statuses]
    BY DEF TypeOK
  <2>3. \A k \in Jobs : status'[k] = "completed" => status[k] = "completed"
    BY ONLY <2>1, <2>2
  <2>4. QED
    BY <1>7, <2>3, <1>h, ClosedSets, ParamsKept DEF write_failure, history
<1>8. QED
  BY <1>1, <1>2, <1>3, <1>4, <1>5, <1>6, <1>7 DEF job_step

LEMMA ParamsNext == TypeOK /\ HoldInv /\ ParamsInv /\ [Next]_vars => ParamsInv'
<1> SUFFICES ASSUME TypeOK, HoldInv, ParamsInv, [Next]_vars PROVE ParamsInv'
  OBVIOUS
<1>1. CASE UNCHANGED vars
  BY <1>1 DEF ParamsInv, CompletedRanOwnParams, vars
<1>2. ASSUME NEW j \in Jobs, schedule_dlq_job(j) PROVE ParamsInv'
  <2>1. \A k \in Jobs : status'[k] = "completed" => status[k] = "completed"
    BY <1>2 DEF schedule_dlq_job, TypeOK
  <2>2. QED
    BY <1>2, <2>1, ParamsKept DEF schedule_dlq_job, work, history
<1>3. ASSUME NEW j \in Jobs, become_due(j) PROVE ParamsInv'
  BY <1>3, ParamsKept DEF become_due, work, history
<1>4. QED
  BY <1>1, <1>2, <1>3, ParamsBatch, ParamsHandler DEF Next, Procs

\* A job that counts as completed ran with its own params, although one run
\* stands for a group of jobs and its outcome is written when all groups have run.
THEOREM CompletedJobsRan == Spec => []CompletedRanOwnParams
<1>1. ParamsInv => CompletedRanOwnParams
  BY DEF ParamsInv
<1>2. QED
  BY <1>1, TypeInit, TypeNext, HoldInit, HoldNext, ParamsInit, ParamsNext, PTL DEF Spec

----------------------------------------------------------------------------
(* What is committed of the rows a transaction works on. *)

RowInv ==
  /\ \A p \in Procs : connected[p] /\ pc[p] \in Working => \A j \in mine[p] : status[j] = "pending"
  /\ \A p \in Procs : pc[p] \notin {"idle", "lock"} =>
        \A j \in mine[p] : status[j] # "absent" \/ j \in archive
  /\ \A p \in Procs : pc[p] = "idle" => mine[p] = {}
  /\ \A p \in Procs : pc[p] \in {"run_one", "reload", "write"} => \A i, j \in mine[p] : i = j
  /\ \A p \in Procs : pc[p] \notin {"dispatch", "run"} => completed[p] = {} /\ failed[p] = {}
  /\ \A p \in Procs : completed[p] \subseteq mine[p] /\ failed[p] \subseteq mine[p]
  /\ \A p \in Procs : completed[p] \cap failed[p] = {} /\ group[p] \cap (completed[p] \cup failed[p]) = {}
  /\ \A j \in archive : status[j] = "absent"
  /\ \A j \in Jobs : status[j] = "absent" /\ failures[j] > 0 => j \in archive

LEMMA RowInit == Init => RowInv
BY DEF Init, RowInv, Working

\* What close does to the variables of the processes.
LEMMA ClosedWork ==
  ASSUME TypeOK, NEW p \in Procs, close(p)
  PROVE  /\ pc'[p] = "idle" /\ mine'[p] = {} /\ group'[p] = {} /\ completed'[p] = {} /\ failed'[p] = {}
         /\ \A q \in Procs \ {p} : /\ pc'[q] = pc[q] /\ mine'[q] = mine[q] /\ group'[q] = group[q]
                                   /\ completed'[q] = completed[q] /\ failed'[q] = failed[q]
                                   /\ connected'[q] = connected[q] /\ seen'[q] = seen[q]
BY DEF close, goto, TypeOK

\* A transaction that ends writes rows nobody else has locked, and an absent row
\* it leaves is archived.
LEMMA RowClose ==
  ASSUME TypeOK, HoldInv, RowInv, NEW p \in Procs, close(p), UNCHANGED failures,
         \A j \in Jobs : lock[j] \in {p, NoProc} \/ status'[j] = status[j],
         \A j \in Jobs : status'[j] = "absent" => status[j] = "absent" \/ j \in archive',
         archive \subseteq archive', \A j \in archive' : status'[j] = "absent"
  PROVE  RowInv'
<1>1. \A q \in Procs : mine[q] \subseteq Jobs /\ q # NoProc
  BY ProcsAssumption DEF TypeOK, Procs
<1>2. \A q \in Procs \ {p} : connected[q] /\ pc[q] \in Working =>
         \A j \in mine[q] : status'[j] = status[j]
  BY <1>1 DEF HoldInv
<1>3. QED
  BY ONLY RowInv, ClosedWork, <1>1, <1>2, TypeOK, close(p), p \in Procs, UNCHANGED failures,
          \A j \in Jobs : status'[j] = "absent" => status[j] = "absent" \/ j \in archive',
          archive \subseteq archive', \A j \in archive' : status'[j] = "absent" DEF RowInv

\* Rows that are pending are taken.
LEMMA RowTake ==
  ASSUME TypeOK, RowInv, NEW p \in Procs, NEW S \in SUBSET free_pending, take(p, S),
         pc[p] = "idle", UNCHANGED <<group, completed, failed, connected, status, archive, failures>>
  PROVE  RowInv'
<1>1. /\ pc'[p] = "dispatch" /\ mine'[p] = S
      /\ \A q \in Procs \ {p} : pc'[q] = pc[q] /\ mine'[q] = mine[q]
  BY DEF take, goto, TypeOK
<1>2. \A j \in S : status[j] = "pending"
  BY DEF free_pending
<1>3. mine[p] = {}
  BY DEF RowInv
<1>4. QED
  BY ONLY RowInv, <1>1, <1>2, <1>3, p \in Procs,
          UNCHANGED <<group, completed, failed, connected, status, archive, failures>> DEF RowInv, Working

\* A run that failed, whose job is there or archived.
LEMMA RowFails ==
  ASSUME TypeOK, RowInv, NEW p \in Procs, NEW S \in SUBSET mine[p], pc[p] \in {"run", "run_one"},
         count_failures(S), UNCHANGED <<status, archive>>
  PROVE  \A j \in Jobs : status'[j] = "absent" /\ failures'[j] > 0 => j \in archive'
<1>1. \A j \in S : status[j] # "absent" \/ j \in archive
  BY DEF RowInv
<1>2. \A j \in Jobs \ S : failures'[j] = failures[j]
  BY DEF count_failures, TypeOK
<1>3. QED
  BY <1>1, <1>2 DEF RowInv

\* What the commit of a transaction leaves in the rows.
LEMMA CommittedRows ==
  ASSUME TypeOK, RowInv, NEW p \in Procs, rows_after(p)
  PROVE  /\ \A j \in completed[p] : status'[j] = "completed"
         /\ \A j \in failed[p] : /\ retry_count'[j] = retry_count[j] + 1
                                 /\ IF retry_count[j] + 1 >= MaxRetries
                                    THEN status'[j] = "absent" /\ j \in archive'
                                    ELSE status'[j] = "pending" /\ (j \in archive' => j \in archive)
         /\ \A j \in Jobs \ (completed[p] \cup failed[p]) : status'[j] = status[j]
         /\ \A j \in Jobs \ failed[p] : retry_count'[j] = retry_count[j] /\ (j \in archive' <=> j \in archive)
         /\ archive \subseteq archive' /\ archive' \subseteq archive \cup failed[p]
<1> DEFINE gone == {j \in failed[p] : _archived(retry_count[j] + 1)}
<1>1. /\ status' = [j \in Jobs |-> CASE j \in completed[p] -> "completed"
                                     [] j \in gone -> "absent"
                                     [] j \in failed[p] \ gone -> "pending"
                                     [] OTHER -> status[j]]
      /\ retry_count' = [j \in Jobs |-> retry_count[j] + (IF j \in failed[p] THEN 1 ELSE 0)]
      /\ archive' = archive \cup gone
  BY DEF rows_after
<1>2. /\ gone \subseteq failed[p]
      /\ \A j \in failed[p] : j \in gone <=> retry_count[j] + 1 >= MaxRetries
  BY DEF _archived
<1>3. /\ completed[p] \cap failed[p] = {} /\ completed[p] \subseteq Jobs /\ failed[p] \subseteq Jobs
      /\ retry_count \in [Jobs -> Nat]
  BY DEF RowInv, TypeOK
<1> HIDE DEF gone
<1>4. /\ \A j \in completed[p] : status'[j] = "completed"
      /\ \A j \in gone : status'[j] = "absent"
      /\ \A j \in failed[p] \ gone : status'[j] = "pending"
      /\ \A j \in Jobs \ (completed[p] \cup failed[p]) : status'[j] = status[j]
  BY ONLY <1>1, <1>2, <1>3
<1>5. QED
  BY ONLY <1>1, <1>2, <1>3, <1>4

LEMMA RowBatch ==
  ASSUME TypeOK, HoldInv, RowInv, NEW p \in Procs,
         batch_step(p) \/ crash(p) \/ connection_lost(p) \/ (p \in Pollers /\ poll_and_process(p))
  PROVE  RowInv'
<1>t. \A q \in Procs : mine[q] \subseteq Jobs /\ group[q] \subseteq mine[q]
  BY DEF TypeOK, HoldInv
<1>1. CASE _dispatch_jobs(p)
  <2>1. PICK g \in _group_by_params(mine[p] \ (completed[p] \cup failed[p])) :
          group' = [group EXCEPT ![p] = g]
    BY <1>1 DEF _dispatch_jobs
  <2>2. g \cap (completed[p] \cup failed[p]) = {}
    BY <2>1 DEF _group_by_params
  <2>3. /\ pc[p] = "dispatch" /\ pc'[p] = "run" /\ group'[p] = g
        /\ \A q \in Procs \ {p} : pc'[q] = pc[q] /\ group'[q] = group[q]
        /\ UNCHANGED <<mine, connected, completed, failed, status, archive, failures>>
    BY <1>1, <2>1 DEF _dispatch_jobs, goto, rows, history, TypeOK
  <2>4. QED
    BY ONLY RowInv, <2>2, <2>3 DEF RowInv, Working
<1>2. CASE _mark_completed(p)
  <2>1. /\ pc[p] = "run" /\ pc'[p] = "dispatch" /\ group'[p] = {}
        /\ completed'[p] = completed[p] \cup group[p]
        /\ \A q \in Procs \ {p} : pc'[q] = pc[q] /\ group'[q] = group[q] /\ completed'[q] = completed[q]
        /\ UNCHANGED <<mine, connected, failed, status, archive, failures>>
    BY <1>2 DEF _mark_completed, goto, rows, TypeOK
  <2>2. QED
    BY ONLY RowInv, <1>t, <2>1, p \in Procs DEF RowInv, Working
<1>3. CASE run_raises(p)
  <2>1. /\ pc[p] = "run" /\ pc'[p] = "dispatch" /\ group'[p] = {}
        /\ failed'[p] = failed[p] \cup group[p]
        /\ \A q \in Procs \ {p} : pc'[q] = pc[q] /\ group'[q] = group[q] /\ failed'[q] = failed[q]
        /\ UNCHANGED <<mine, connected, completed, status, archive>>
    BY <1>3 DEF run_raises, goto, rows, TypeOK
  <2>2. \A j \in Jobs : status'[j] = "absent" /\ failures'[j] > 0 => j \in archive'
    BY <1>3, <1>t, <2>1, RowFails DEF run_raises, rows
  <2>3. QED
    BY ONLY RowInv, <1>t, <2>1, <2>2, p \in Procs DEF RowInv, Working
<1>4. CASE commit(p) /\ connected[p]
  <2>1. close(p) /\ rows_after(p) /\ pc[p] = "dispatch" /\ UNCHANGED failures
    BY <1>4 DEF commit, history
  <2>2. /\ completed[p] \subseteq mine[p] /\ failed[p] \subseteq mine[p]
        /\ \A j \in mine[p] : lock[j] = p /\ status[j] = "pending"
    BY <1>4, <2>1 DEF RowInv, HoldInv, Working
  <2>3. \A j \in Jobs : lock[j] \in {p, NoProc} \/ status'[j] = status[j]
    BY ONLY <2>1, <2>2, CommittedRows, TypeOK, RowInv, p \in Procs
  <2>4. \A j \in Jobs : status'[j] = "absent" => status[j] = "absent" \/ j \in archive'
    BY ONLY <2>1, <2>2, CommittedRows, TypeOK, RowInv, p \in Procs
  <2>5. archive \subseteq archive' /\ \A j \in archive' : status'[j] = "absent"
    <3>1. \A j \in archive : status[j] = "absent" /\ j \in Jobs
      BY DEF RowInv, TypeOK
    <3>2. QED
      BY ONLY <2>1, <2>2, <3>1, CommittedRows, TypeOK, RowInv, p \in Procs
  <2>6. QED
    BY <2>1, <2>3, <2>4, <2>5, RowClose
<1>5. CASE (commit(p) /\ ~connected[p]) \/ crash(p)
  <2>1. close(p) /\ UNCHANGED <<failures, status, archive>>
    BY <1>5 DEF commit, crash, rows, history
  <2>2. \A j \in archive : status[j] = "absent"
    BY DEF RowInv
  <2>3. QED
    BY <2>1, <2>2, RowClose
<1>6. CASE connection_lost(p)
  <2>1. /\ ~connected'[p] /\ \A q \in Procs \ {p} : connected'[q] = connected[q]
        /\ UNCHANGED <<mine, group, pc, completed, failed, status, archive, failures>>
    BY <1>6 DEF connection_lost, rows, history, TypeOK
  <2>2. QED
    BY ONLY RowInv, <2>1 DEF RowInv, Working
<1>7. CASE poll_and_process(p)
  BY <1>7, RowTake DEF poll_and_process, rows, history
<1>8. QED
  BY <1>1, <1>2, <1>3, <1>4, <1>5, <1>6, <1>7 DEF batch_step

LEMMA RowHandler ==
  ASSUME TypeOK, HoldInv, RowInv, NEW h \in Handlers, request(h) \/ cancel_commit(h) \/ job_step(h)
  PROVE  RowInv'
<1>h. h \in Procs
  BY DEF Procs
<1>t. /\ \A q \in Procs : mine[q] \subseteq Jobs /\ q # NoProc
      /\ \A j \in archive : status[j] = "absent" /\ j \in Jobs
      /\ status \in [Jobs -> Statuses]
  BY ProcsAssumption DEF TypeOK, Procs, RowInv
<1>1. ASSUME NEW j \in Jobs, cancel_dlq_job(h, j) \/ process_job_immediately(h, j) PROVE RowInv'
  <2>1. /\ pc[h] = "idle" /\ mine'[h] = {j}
        /\ pc'[h] = "lock" \/ (pc'[h] = "cancel" /\ status[j] = "pending")
        /\ \A q \in Procs \ {h} : pc'[q] = pc[q] /\ mine'[q] = mine[q]
        /\ UNCHANGED <<group, connected, completed, failed, status, archive, failures>>
    BY <1>1, <1>h DEF cancel_dlq_job, process_job_immediately, goto, rows, history, TypeOK
  <2>2. QED
    BY ONLY RowInv, <1>h, <2>1 DEF RowInv, Working
<1>2. ASSUME NEW j \in Jobs, process_pipeline_immediately(h, PipelineOf[j]) PROVE RowInv'
  BY <1>2, <1>h, RowTake DEF process_pipeline_immediately, rows, history
<1>3. CASE cancel_commit(h)
  <2>1. close(h) /\ UNCHANGED <<failures, archive>>
    BY <1>3 DEF cancel_commit, history
  <2>2. \A j \in Jobs : /\ lock[j] = NoProc \/ status'[j] = status[j]
                        /\ status'[j] = "absent" <=> status[j] = "absent"
    BY <1>3 DEF cancel_commit
  <2>3. QED
    BY <2>1, <2>2, <1>h, <1>t, RowClose
<1>4. CASE lock_job(h)
  <2>1. UNCHANGED <<failures, status, archive>>
    BY <1>4 DEF lock_job, rows, history
  <2>2. CASE close(h)
    BY <2>1, <2>2, <1>h, <1>t, RowClose
  <2>3. ASSUME NEW j \in mine[h], status[j] = "pending", group' = [group EXCEPT ![h] = {j}],
               goto(h, "run_one"), UNCHANGED <<mine, completed, failed, connected>>
        PROVE  RowInv'
    <3>1. pc[h] = "lock" /\ mine[h] = {j}
      BY <1>4, <1>h, <2>3 DEF lock_job, HoldInv
    <3>2. /\ pc'[h] = "run_one" /\ group'[h] = {j}
          /\ \A q \in Procs \ {h} : pc'[q] = pc[q] /\ group'[q] = group[q]
      BY <1>h, <2>3 DEF goto, TypeOK
    <3>3. failed[h] = {}
      BY <3>1, <1>h DEF RowInv
    <3>4. completed[h] = {}
      BY <3>1, <1>h DEF RowInv
    <3>5. QED
      BY ONLY RowInv, <1>h, <2>1, <2>3, <3>1, <3>2, <3>3, <3>4 DEF RowInv, Working
  <2>4. QED
    BY <1>4, <2>2, <2>3 DEF lock_job
<1>5. CASE commit_job(h) /\ connected[h]
  <2>1. close(h) /\ UNCHANGED <<failures, archive>> /\ pc[h] = "run_one"
    BY <1>5 DEF commit_job
  <2>2. \A j \in mine[h] : lock[j] = h /\ status[j] = "pending"
    BY <1>5, <2>1, <1>h DEF HoldInv, RowInv, Working
  <2>3. \A j \in Jobs : status'[j] = IF j \in mine[h] THEN "completed" ELSE status[j]
    BY <1>5 DEF commit_job
  <2>4. QED
    BY <2>1, <2>2, <2>3, <1>h, <1>t, RowClose
<1>6. CASE (commit_job(h) /\ ~connected[h]) \/ rollback_job(h)
  <2>1. /\ pc[h] = "run_one" /\ pc'[h] = "reload" /\ group'[h] = {}
        /\ \A q \in Procs \ {h} : pc'[q] = pc[q] /\ group'[q] = group[q]
        /\ UNCHANGED <<mine, connected, completed, failed, status, archive>>
    BY <1>6, <1>h DEF commit_job, rollback_job, goto, rows, TypeOK
  <2>2. \A j \in Jobs : status'[j] = "absent" /\ failures'[j] > 0 => j \in archive'
    BY <1>6, <1>h, <2>1, RowFails DEF commit_job, rollback_job
  <2>3. QED
    BY ONLY RowInv, <1>h, <2>1, <2>2 DEF RowInv, Working
<1>7. CASE reload_job(h)
  <2>1. UNCHANGED <<failures, status, archive>>
    BY <1>7 DEF reload_job, rows, history
  <2>2. CASE close(h)
    BY <2>1, <2>2, <1>h, <1>t, RowClose
  <2>3. CASE goto(h, "write") /\ UNCHANGED <<lock, work>>
    <3>1. /\ pc[h] = "reload" /\ pc'[h] = "write"
          /\ \A q \in Procs \ {h} : pc'[q] = pc[q]
          /\ UNCHANGED <<mine, connected, group, completed, failed>>
      BY <1>7, <2>3, <1>h DEF reload_job, goto, work, TypeOK
    <3>2. QED
      BY ONLY RowInv, <1>h, <2>1, <3>1 DEF RowInv, Working
  <2>4. QED
    BY <1>7, <2>2, <2>3 DEF reload_job
<1>8. CASE write_failure(h)
  <2>1. close(h) /\ UNCHANGED failures
    BY <1>8 DEF write_failure, history
  <2>2. PICK j \in mine[h] :
          /\ lock[j] = NoProc
          /\ \/ UNCHANGED <<status, archive>>
             \/ status' = [status EXCEPT ![j] = "absent"] /\ archive' = archive \cup {j}
             \/ status[j] # "absent" /\ status' = [status EXCEPT ![j] = "pending"] /\ archive' = archive
    BY <1>8 DEF write_failure, rows
  <2>3. j \in Jobs
    BY <2>2, <1>h, <1>t
  <2>4. \A k \in Jobs : lock[k] \in {h, NoProc} \/ status'[k] = status[k]
    BY ONLY <2>2, <2>3, <1>t
  <2>5. /\ \A k \in Jobs : status'[k] = "absent" => status[k] = "absent" \/ k \in archive'
        /\ archive \subseteq archive' /\ \A k \in archive' : status'[k] = "absent"
    BY ONLY <2>2, <2>3, <1>t
  <2>6. QED
    BY <2>1, <2>4, <2>5, <1>h, RowClose
<1>9. QED
  BY <1>1, <1>2, <1>3, <1>4, <1>5, <1>6, <1>7, <1>8 DEF request, job_step

LEMMA RowNext == TypeOK /\ HoldInv /\ RowInv /\ [Next]_vars => RowInv'
<1> SUFFICES ASSUME TypeOK, HoldInv, RowInv, [Next]_vars PROVE RowInv'
  OBVIOUS
<1>1. CASE UNCHANGED vars
  BY <1>1 DEF RowInv, vars
<1>2. ASSUME NEW j \in Jobs, become_due(j) PROVE RowInv'
  BY <1>2 DEF become_due, work, history, RowInv
<1>3. ASSUME NEW j \in Jobs, schedule_dlq_job(j) PROVE RowInv'
  <2>1. /\ status[j] = "absent" /\ j \notin archive /\ status'[j] = "pending"
        /\ \A k \in Jobs \ {j} : status'[k] = status[k]
        /\ UNCHANGED <<archive, pc, mine, group, completed, failed, connected, failures>>
    BY <1>3 DEF schedule_dlq_job, work, history, TypeOK
  <2>2. /\ \A q \in Procs : mine[q] \subseteq Jobs
        /\ archive \subseteq Jobs
    BY DEF TypeOK
  <2>3. QED
    BY ONLY RowInv, <2>1, <2>2 DEF RowInv
<1>4. QED
  BY <1>1, <1>2, <1>3, RowBatch, RowHandler DEF Next, Procs


----------------------------------------------------------------------------
(* Failures that happened and are not yet in retry_count. *)

Uncounted(j) ==
  {p \in Procs : \/ connected[p] /\ j \in failed[p]
                 \/ pc[p] \in {"reload", "write"} /\ j \in mine[p]}

CountInv ==
  \A j \in Jobs :
    /\ IsFiniteSet(Uncounted(j))
    /\ retry_count[j] + Cardinality(Uncounted(j)) <= failures[j]
    /\ \A p \in Procs : pc[p] = "write" /\ j \in mine[p] =>
          seen[p].retry_count + Cardinality(Uncounted(j)) <= failures[j]
    /\ j \in archive => failures[j] >= MaxRetries

LEMMA CountInit == Init => CountInv
<1> SUFFICES ASSUME Init, NEW j \in Jobs
             PROVE  /\ Uncounted(j) = {} /\ retry_count[j] = 0 /\ failures[j] = 0 /\ archive = {}
                    /\ \A p \in Procs : pc[p] # "write"
  BY FS_EmptySet DEF CountInv
<1>1. QED
  BY DEF Init, Uncounted

\* Sets that lose members, and lose or gain one.
LEMMA FewerMembers ==
  ASSUME NEW S, IsFiniteSet(S), NEW T \in SUBSET S
  PROVE  IsFiniteSet(T) /\ Cardinality(T) \in Nat /\ Cardinality(S) \in Nat /\ Cardinality(T) <= Cardinality(S)
BY FS_Subset, FS_CardinalityType

LEMMA OneMemberLess ==
  ASSUME NEW S, IsFiniteSet(S), NEW x \in S, NEW T \in SUBSET (S \ {x})
  PROVE  IsFiniteSet(T) /\ Cardinality(T) \in Nat /\ Cardinality(S) \in Nat /\ Cardinality(T) + 1 <= Cardinality(S)
<1>1. IsFiniteSet(S \ {x}) /\ Cardinality(S \ {x}) = Cardinality(S) - 1
  BY FS_RemoveElement
<1>2. Cardinality(S) \in Nat
  BY FS_CardinalityType
<1>3. QED
  BY <1>1, <1>2, FewerMembers

LEMMA OneMemberMore ==
  ASSUME NEW S, IsFiniteSet(S), NEW x, NEW T \in SUBSET (S \cup {x})
  PROVE  IsFiniteSet(T) /\ Cardinality(T) \in Nat /\ Cardinality(S) \in Nat /\ Cardinality(T) <= Cardinality(S) + 1
<1>1. IsFiniteSet(S \cup {x}) /\ (Cardinality(S \cup {x}) = Cardinality(S) \/ Cardinality(S \cup {x}) = Cardinality(S) + 1)
  BY FS_AddElement
<1>2. Cardinality(S) \in Nat
  BY FS_CardinalityType
<1>3. QED
  BY <1>1, <1>2, FewerMembers

\* A step that counts nothing, fails nothing and forgets failures at most.
LEMMA CountKept ==
  ASSUME TypeOK, CountInv, UNCHANGED <<retry_count, archive, failures>>,
         \A j \in Jobs : Uncounted(j)' \subseteq Uncounted(j),
         \A p \in Procs : pc'[p] = "write" =>
            pc[p] = "write" /\ mine'[p] = mine[p] /\ seen'[p] = seen[p]
  PROVE  CountInv'
<1> SUFFICES ASSUME NEW j \in Jobs
             PROVE  /\ IsFiniteSet(Uncounted(j)')
                    /\ retry_count[j] + Cardinality(Uncounted(j)') <= failures[j]
                    /\ \A p \in Procs : pc'[p] = "write" /\ j \in mine'[p] =>
                          seen'[p].retry_count + Cardinality(Uncounted(j)') <= failures[j]
                    /\ j \in archive => failures[j] >= MaxRetries
  BY DEF CountInv
<1>1. /\ IsFiniteSet(Uncounted(j)') /\ Cardinality(Uncounted(j)') \in Nat /\ Cardinality(Uncounted(j)) \in Nat
      /\ Cardinality(Uncounted(j)') <= Cardinality(Uncounted(j))
  BY FewerMembers DEF CountInv
<1>2. retry_count[j] \in Nat /\ failures[j] \in Nat /\ \A p \in Procs : seen[p].retry_count \in Nat
  BY DEF TypeOK
<1>3. QED
  BY ONLY CountInv, <1>1, <1>2, j \in Jobs,
          \A p \in Procs : pc'[p] = "write" => pc[p] = "write" /\ mine'[p] = mine[p] /\ seen'[p] = seen[p] DEF CountInv

\* A transaction that closes has nothing left to count.
LEMMA UncountedClose ==
  ASSUME TypeOK, NEW p \in Procs, close(p)
  PROVE  /\ \A j \in Jobs : Uncounted(j)' \subseteq Uncounted(j) \ {p}
         /\ \A q \in Procs : pc'[q] = "write" =>
               q # p /\ pc[q] = "write" /\ mine'[q] = mine[q] /\ seen'[q] = seen[q]
BY ClosedWork DEF Uncounted

\* A run that fails adds one failure, and at most one process that has yet to count it.
LEMMA CountFails ==
  ASSUME TypeOK, CountInv, NEW p \in Procs, NEW S \in SUBSET Jobs, count_failures(S),
         UNCHANGED <<retry_count, archive, seen, mine>>,
         \A j \in S : Uncounted(j)' \subseteq Uncounted(j) \cup {p},
         \A j \in Jobs \ S : Uncounted(j)' \subseteq Uncounted(j),
         \A q \in Procs : pc'[q] = "write" => pc[q] = "write"
  PROVE  CountInv'
<1> SUFFICES ASSUME NEW j \in Jobs
             PROVE  /\ IsFiniteSet(Uncounted(j)')
                    /\ retry_count[j] + Cardinality(Uncounted(j)') <= failures'[j]
                    /\ \A q \in Procs : pc'[q] = "write" /\ j \in mine[q] =>
                          seen[q].retry_count + Cardinality(Uncounted(j)') <= failures'[j]
                    /\ j \in archive => failures'[j] >= MaxRetries
  BY DEF CountInv
<1>t. /\ retry_count[j] \in Nat /\ failures[j] \in Nat /\ MaxRetries \in Nat
      /\ \A q \in Procs : seen[q].retry_count \in Nat
  BY RetriesAssumption DEF TypeOK
<1>c. /\ IsFiniteSet(Uncounted(j))
      /\ retry_count[j] + Cardinality(Uncounted(j)) <= failures[j]
      /\ \A q \in Procs : pc[q] = "write" /\ j \in mine[q] =>
            seen[q].retry_count + Cardinality(Uncounted(j)) <= failures[j]
      /\ j \in archive => failures[j] >= MaxRetries
  BY DEF CountInv
<1>1. CASE j \in S
  <2>1. failures'[j] = failures[j] + 1
    BY <1>1 DEF count_failures
  <2>2. /\ IsFiniteSet(Uncounted(j)') /\ Cardinality(Uncounted(j)') \in Nat /\ Cardinality(Uncounted(j)) \in Nat
        /\ Cardinality(Uncounted(j)') <= Cardinality(Uncounted(j)) + 1
    BY <1>1, <1>c, OneMemberMore
  <2>3. QED
    BY ONLY <1>t, <1>c, <2>1, <2>2, \A q \in Procs : pc'[q] = "write" => pc[q] = "write"
<1>2. CASE j \notin S
  <2>1. failures'[j] = failures[j]
    BY <1>2, <1>t DEF count_failures
  <2>2. /\ IsFiniteSet(Uncounted(j)') /\ Cardinality(Uncounted(j)') \in Nat /\ Cardinality(Uncounted(j)) \in Nat
        /\ Cardinality(Uncounted(j)') <= Cardinality(Uncounted(j))
    BY <1>2, <1>c, FewerMembers
  <2>3. QED
    BY ONLY <1>t, <1>c, <2>1, <2>2, \A q \in Procs : pc'[q] = "write" => pc[q] = "write"
<1>3. QED
  BY <1>1, <1>2

\* A transaction that closes counts one failure it had not counted, from the count it
\* saw, or archives the job on it.
LEMMA CountWrites ==
  ASSUME TypeOK, CountInv, NEW p \in Procs, close(p), UNCHANGED failures,
         NEW n \in [Jobs -> Nat],
         \A j \in Jobs : p \in Uncounted(j) => n[j] + Cardinality(Uncounted(j)) <= failures[j],
         \A j \in Jobs : \/ retry_count'[j] = retry_count[j]
                         \/ p \in Uncounted(j) /\ retry_count'[j] = n[j] + 1,
         \A j \in Jobs : j \in archive' => j \in archive \/ (p \in Uncounted(j) /\ n[j] + 1 >= MaxRetries)
  PROVE  CountInv'
<1> SUFFICES ASSUME NEW j \in Jobs
             PROVE  /\ IsFiniteSet(Uncounted(j)')
                    /\ retry_count'[j] + Cardinality(Uncounted(j)') <= failures[j]
                    /\ \A q \in Procs : pc'[q] = "write" /\ j \in mine'[q] =>
                          seen'[q].retry_count + Cardinality(Uncounted(j)') <= failures[j]
                    /\ j \in archive' => failures[j] >= MaxRetries
  BY DEF CountInv
<1>t. /\ retry_count[j] \in Nat /\ failures[j] \in Nat /\ MaxRetries \in Nat /\ n[j] \in Nat
      /\ \A q \in Procs : seen[q].retry_count \in Nat
  BY RetriesAssumption DEF TypeOK
<1>c. /\ IsFiniteSet(Uncounted(j))
      /\ retry_count[j] + Cardinality(Uncounted(j)) <= failures[j]
      /\ \A q \in Procs : pc[q] = "write" /\ j \in mine[q] =>
            seen[q].retry_count + Cardinality(Uncounted(j)) <= failures[j]
      /\ j \in archive => failures[j] >= MaxRetries
  BY DEF CountInv
<1>1. /\ IsFiniteSet(Uncounted(j)') /\ Cardinality(Uncounted(j)') \in Nat /\ Cardinality(Uncounted(j)) \in Nat
      /\ Cardinality(Uncounted(j)') <= Cardinality(Uncounted(j))
      /\ p \in Uncounted(j) => Cardinality(Uncounted(j)') + 1 <= Cardinality(Uncounted(j))
  BY <1>c, UncountedClose, FewerMembers, OneMemberLess
<1>2. \A q \in Procs : pc'[q] = "write" => pc[q] = "write" /\ mine'[q] = mine[q] /\ seen'[q] = seen[q]
  BY UncountedClose
<1>3. /\ p \in Uncounted(j) => n[j] + Cardinality(Uncounted(j)) <= failures[j]
      /\ retry_count'[j] = retry_count[j] \/ (p \in Uncounted(j) /\ retry_count'[j] = n[j] + 1)
      /\ j \in archive' => j \in archive \/ (p \in Uncounted(j) /\ n[j] + 1 >= MaxRetries)
  OBVIOUS
<1>4. QED
  BY ONLY <1>t, <1>c, <1>1, <1>2, <1>3

LEMMA CountBatch ==
  ASSUME TypeOK, HoldInv, RowInv, CountInv, NEW p \in Procs,
         batch_step(p) \/ crash(p) \/ connection_lost(p) \/ (p \in Pollers /\ poll_and_process(p))
  PROVE  CountInv'
<1>1. CASE _dispatch_jobs(p) \/ _mark_completed(p) \/ poll_and_process(p) \/ connection_lost(p)
  <2>1. UNCHANGED <<retry_count, archive, failures, failed, seen>>
    BY <1>1 DEF _dispatch_jobs, _mark_completed, poll_and_process, connection_lost, rows, history
  <2>2. /\ pc'[p] \notin {"reload", "write"}
        /\ \A q \in Procs \ {p} : pc'[q] = pc[q] /\ mine'[q] = mine[q]
        /\ \A q \in Procs : connected'[q] => connected[q]
    BY <1>1 DEF _dispatch_jobs, _mark_completed, poll_and_process, connection_lost, take, goto, TypeOK
  <2>3. \A j \in Jobs : Uncounted(j)' \subseteq Uncounted(j)
    BY <2>1, <2>2 DEF Uncounted
  <2>4. QED
    BY <2>1, <2>2, <2>3, CountKept
<1>2. CASE run_raises(p)
  <2>1. /\ pc[p] = "run" /\ pc'[p] = "dispatch" /\ failed'[p] = failed[p] \cup group[p]
        /\ \A q \in Procs \ {p} : pc'[q] = pc[q] /\ failed'[q] = failed[q]
        /\ UNCHANGED <<mine, connected, retry_count, archive, seen>>
    BY <1>2 DEF run_raises, goto, rows, TypeOK
  <2>2. /\ \A j \in group[p] : Uncounted(j)' \subseteq Uncounted(j) \cup {p}
        /\ \A j \in Jobs \ group[p] : Uncounted(j)' \subseteq Uncounted(j)
    BY ONLY <2>1, p \in Procs DEF Uncounted
  <2>3. group[p] \subseteq Jobs /\ count_failures(group[p])
    BY <1>2 DEF run_raises, TypeOK
  <2>4. QED
    BY <2>1, <2>2, <2>3, CountFails
<1>3. CASE commit(p) /\ connected[p]
  <2>1. close(p) /\ rows_after(p) /\ UNCHANGED failures
    BY <1>3 DEF commit, history
  <2>2. \A j \in failed[p] : p \in Uncounted(j) /\ j \in Jobs
    BY <1>3 DEF Uncounted, TypeOK
  <2>3. \A j \in Jobs : \/ retry_count'[j] = retry_count[j]
                        \/ p \in Uncounted(j) /\ retry_count'[j] = retry_count[j] + 1
    BY ONLY <2>1, <2>2, CommittedRows, TypeOK, RowInv, p \in Procs
  <2>4. \A j \in Jobs : j \in archive' =>
           j \in archive \/ (p \in Uncounted(j) /\ retry_count[j] + 1 >= MaxRetries)
    BY ONLY <2>1, <2>2, CommittedRows, TypeOK, RowInv, p \in Procs
  <2>5. \A j \in Jobs : retry_count[j] + Cardinality(Uncounted(j)) <= failures[j]
    BY DEF CountInv
  <2>6. retry_count \in [Jobs -> Nat]
    BY DEF TypeOK
  <2>7. QED
    BY <2>1, <2>3, <2>4, <2>5, <2>6, CountWrites
<1>4. CASE (commit(p) /\ ~connected[p]) \/ crash(p)
  <2>1. close(p) /\ UNCHANGED <<failures, retry_count, archive>>
    BY <1>4 DEF commit, crash, rows, history
  <2>2. QED
    BY <2>1, UncountedClose, CountKept
<1>5. QED
  BY <1>1, <1>2, <1>3, <1>4 DEF batch_step

LEMMA CountHandler ==
  ASSUME TypeOK, HoldInv, RowInv, CountInv, NEW h \in Handlers, request(h) \/ cancel_commit(h) \/ job_step(h)
  PROVE  CountInv'
<1>h. h \in Procs
  BY DEF Procs
<1>t. mine[h] \subseteq Jobs /\ seen[h].retry_count \in Nat
  BY <1>h DEF TypeOK
<1>1. CASE request(h)
  <2>1. UNCHANGED <<retry_count, archive, failures, failed, connected, seen>>
    BY <1>1 DEF request, cancel_dlq_job, process_job_immediately, process_pipeline_immediately, rows, history
  <2>2. /\ pc'[h] \notin {"reload", "write"}
        /\ \A q \in Procs \ {h} : pc'[q] = pc[q] /\ mine'[q] = mine[q]
    BY <1>1, <1>h DEF request, cancel_dlq_job, process_job_immediately, process_pipeline_immediately,
                      take, goto, TypeOK
  <2>3. \A j \in Jobs : Uncounted(j)' \subseteq Uncounted(j)
    BY <2>1, <2>2 DEF Uncounted
  <2>4. QED
    BY <2>1, <2>2, <2>3, CountKept
<1>2. CASE cancel_commit(h) \/ (commit_job(h) /\ connected[h])
  <2>1. close(h) /\ UNCHANGED <<failures, retry_count, archive>>
    BY <1>2 DEF cancel_commit, commit_job, history
  <2>2. QED
    BY <2>1, <1>h, UncountedClose, CountKept
<1>3. CASE lock_job(h)
  <2>1. UNCHANGED <<failures, retry_count, archive>>
    BY <1>3 DEF lock_job, rows, history
  <2>2. CASE close(h)
    BY <2>1, <2>2, <1>h, UncountedClose, CountKept
  <2>3. CASE goto(h, "run_one") /\ UNCHANGED <<mine, failed, connected, seen>>
    <3>1. pc'[h] = "run_one" /\ \A q \in Procs \ {h} : pc'[q] = pc[q]
      BY <2>3, <1>h DEF goto, TypeOK
    <3>2. \A j \in Jobs : Uncounted(j)' \subseteq Uncounted(j)
      BY <2>3, <3>1 DEF Uncounted
    <3>3. QED
      BY <2>1, <2>3, <3>1, <3>2, CountKept
  <2>4. QED
    BY <1>3, <2>2, <2>3 DEF lock_job
<1>4. CASE (commit_job(h) /\ ~connected[h]) \/ rollback_job(h)
  <2>1. /\ pc'[h] = "reload" /\ \A q \in Procs \ {h} : pc'[q] = pc[q]
        /\ UNCHANGED <<mine, connected, failed, retry_count, archive, seen>>
        /\ count_failures(mine[h])
    BY <1>4, <1>h DEF commit_job, rollback_job, goto, rows, TypeOK
  <2>2. /\ \A j \in mine[h] : Uncounted(j)' \subseteq Uncounted(j) \cup {h}
        /\ \A j \in Jobs \ mine[h] : Uncounted(j)' \subseteq Uncounted(j)
    BY ONLY <2>1, <1>h DEF Uncounted
  <2>3. QED
    BY <2>1, <2>2, <1>h, <1>t, CountFails
<1>5. CASE reload_job(h)
  <2>1. UNCHANGED <<failures, retry_count, archive>> /\ pc[h] = "reload"
    BY <1>5 DEF reload_job, rows, history
  <2>2. CASE close(h)
    BY <2>1, <2>2, <1>h, UncountedClose, CountKept
  <2>3. ASSUME NEW j \in mine[h], UNCHANGED <<lock, work>>, goto(h, "write"),
               seen' = [seen EXCEPT ![h] = [status |-> status[j], retry_count |-> retry_count[j]]]
        PROVE  CountInv'
    <3>1. /\ pc'[h] = "write" /\ \A q \in Procs \ {h} : pc'[q] = pc[q] /\ seen'[q] = seen[q]
          /\ seen'[h].retry_count = retry_count[j]
          /\ UNCHANGED <<mine, connected, failed>>
      BY <2>3, <1>h DEF goto, work, TypeOK
    <3>2. \A k \in Jobs : Uncounted(k)' = Uncounted(k)
      BY <2>1, <3>1, <1>h DEF Uncounted
    <3>3. \A k \in mine[h] : k = j
      BY <2>1, <2>3, <1>h DEF RowInv
    <3>4. QED
      BY ONLY CountInv, <2>1, <3>1, <3>2, <3>3, <1>h DEF CountInv
  <2>4. QED
    BY <1>5, <2>2, <2>3 DEF reload_job
<1>6. CASE write_failure(h)
  <2>1. pc[h] = "write" /\ close(h) /\ UNCHANGED failures
    BY <1>6 DEF write_failure, history
  <2>2. PICK j \in mine[h] :
          \/ UNCHANGED <<retry_count, archive>>
          \/ /\ _archived(seen[h].retry_count + 1)
             /\ archive' = archive \cup {j} /\ UNCHANGED retry_count
          \/ retry_count' = [retry_count EXCEPT ![j] = seen[h].retry_count + 1] /\ UNCHANGED archive
    BY <1>6 DEF write_failure, rows
  <2>3. j \in Jobs /\ h \in Uncounted(j)
    BY <2>1, <2>2, <1>h, <1>t DEF Uncounted
  <2> DEFINE n == [k \in Jobs |-> IF k = j THEN seen[h].retry_count ELSE retry_count[k]]
  <2>4. n \in [Jobs -> Nat]
    BY <1>t DEF TypeOK
  <2>5. \A k \in Jobs : h \in Uncounted(k) => n[k] + Cardinality(Uncounted(k)) <= failures[k]
    BY <2>1, <2>2, <2>3, <1>h DEF CountInv
  <2>6. \A k \in Jobs : \/ retry_count'[k] = retry_count[k]
                        \/ h \in Uncounted(k) /\ retry_count'[k] = n[k] + 1
    BY <2>2, <2>3 DEF TypeOK
  <2>7. \A k \in Jobs : k \in archive' => k \in archive \/ (h \in Uncounted(k) /\ n[k] + 1 >= MaxRetries)
    BY <2>2, <2>3 DEF _archived
  <2> HIDE DEF n
  <2>8. QED
    BY <2>1, <2>4, <2>5, <2>6, <2>7, <1>h, CountWrites
<1>7. QED
  BY <1>1, <1>2, <1>3, <1>4, <1>5, <1>6 DEF job_step

LEMMA CountNext == TypeOK /\ HoldInv /\ RowInv /\ CountInv /\ [Next]_vars => CountInv'
<1> SUFFICES ASSUME TypeOK, HoldInv, RowInv, CountInv, [Next]_vars PROVE CountInv'
  OBVIOUS
<1>1. CASE UNCHANGED vars
  BY <1>1 DEF CountInv, Uncounted, vars
<1>2. ASSUME NEW j \in Jobs, schedule_dlq_job(j) \/ become_due(j) PROVE CountInv'
  <2>1. UNCHANGED <<retry_count, archive, failures, failed, connected, seen, pc, mine>>
    BY <1>2 DEF schedule_dlq_job, become_due, work, history
  <2>2. \A k \in Jobs : Uncounted(k)' = Uncounted(k)
    BY <2>1 DEF Uncounted
  <2>3. QED
    BY <2>1, <2>2, CountKept
<1>3. QED
  BY <1>1, <1>2, CountBatch, CountHandler DEF Next, Procs

\* A dead letter is in one of the two tables, and reaches the archive only after as many
\* runs that really failed: _handle_job_failure may count from a value that is out of date
\* (the rollback of process_job_immediately gives its lock up first), so a count may
\* get lost, and is never invented.
THEOREM JobsAreArchivedAfterRetries == Spec => []ArchivedAfterRetries
<1>1. TypeOK /\ RowInv /\ CountInv => ArchivedAfterRetries
  <2> SUFFICES ASSUME TypeOK, RowInv, CountInv, NEW j \in Jobs
               PROVE  /\ j \in archive => status[j] = "absent" /\ failures[j] >= MaxRetries
                      /\ status[j] = "absent" /\ failures[j] > 0 => j \in archive
                      /\ status[j] # "absent" => retry_count[j] <= failures[j]
    BY DEF ArchivedAfterRetries
  <2>1. Cardinality(Uncounted(j)) \in Nat /\ retry_count[j] \in Nat /\ failures[j] \in Nat
    BY FS_CardinalityType DEF CountInv, TypeOK
  <2>2. QED
    BY <2>1 DEF RowInv, CountInv
<1>2. QED
  BY <1>1, TypeInit, TypeNext, HoldInit, HoldNext, RowInit, RowNext, CountInit, CountNext, PTL DEF Spec

=============================================================================
