------------------------- MODULE RunRequestsProofs -------------------------
(***************************************************************************)
(* Theorems about run requests for any number of managers, calls, ids,     *)
(* pipelines and faults.                                                   *)
(***************************************************************************)
EXTENDS RunRequests, TLAPS

----------------------------------------------------------------------------
(* Type correctness. *)

LEMMA ResolvedType ==
  ASSUME NEW n \in Names, NEW v \in Params
  PROVE  apply_defaults(n, v) \in Params /\ filled(n, v) \in Params
<1>1. Declared[n].default \in Values \cup {Null}
  BY DeclaredAssumption
<1>2. QED
  BY <1>1 DEF apply_defaults, filled, Params

LEMMA BlankType == Blank \in Plan
BY DEF Blank, Plan

LEMMA TypeInit == Init => TypeOK
<1> SUFFICES ASSUME Init PROVE TypeOK
  OBVIOUS
<1>1. up \in [Managers -> BOOLEAN]
  BY Zenon DEF Init
<1>2. registry \in [Managers -> SUBSET Names]
  BY DEF Init, Registries
<1>3. inst \in [Objects -> Plan]
  BY BlankType DEF Init
<1>4. QED
  BY <1>1, <1>2, <1>3 DEF Init, TypeOK, TaskSteps, HandlerSteps

\* The parts of TypeOK, for steps that leave most variables alone.
TypeProcess == up \in [Managers -> BOOLEAN] /\ registry \in [Managers -> SUBSET Names]
               /\ recovering \in [Managers -> SUBSET Ids]
TypeCall == call \in [Requests -> Call \cup {NoCall}]
TypeGateway == /\ gpc \in [GatewayCalls -> {"idle", "waiting", "done"}]
               /\ tracker \in [GatewayCalls -> {"none", "running", "upstream", "rejected"}]
TypeHandlers == /\ hpc \in [Requests -> {"none", "sent", "create", "reset", "answered", "dead"}]
                /\ at \in [Requests -> Managers \cup {NoManager}]
                /\ answer \in [Requests -> {0, 202, 404, 409, 422, 500}]
TypeTables == row \in [Ids -> Row \cup {NoRow}] /\ plan \in [Ids -> Plan \cup {NoPlan}]
TypeTasks == /\ tpc \in [Requests -> TaskSteps \cup {"none", "done", "dead"}]
             /\ ref \in [Requests -> Objects \cup {NoObject}]
             /\ context \in [Requests -> Params \cup {Unset}]
             /\ inst \in [Objects -> Plan]
             /\ cause \in [Requests -> {"none", "missing", "params", "other"}]
TypeRest == faults \in Nat /\ left \in SUBSET Ids
TypeSteps ==
    /\ \A r \in Requests : hpc[r] # "none" \/ tpc[r] # "none" => call[r] # NoCall
    /\ \A r \in Requests : hpc[r] \in HandlerSteps \/ tpc[r] # "none" => at[r] \in Managers
    /\ \A r \in Requests : tpc[r] \in {"resolve", "define_jobs", "start", "plan"} => ref[r] # NoObject

LEMMA TypeParts ==
  TypeOK => /\ TypeProcess /\ TypeCall /\ TypeGateway /\ TypeHandlers
            /\ TypeTables /\ TypeTasks /\ TypeRest /\ TypeSteps
BY DEF TypeOK, TypeProcess, TypeCall, TypeGateway, TypeHandlers, TypeTables, TypeTasks, TypeRest, TypeSteps

LEMMA TypeJoin ==
  ASSUME TypeProcess', TypeCall', TypeGateway', TypeHandlers', TypeTables', TypeTasks', TypeRest', TypeSteps'
  PROVE  TypeOK'
BY DEF TypeOK, TypeProcess, TypeCall, TypeGateway, TypeHandlers, TypeTables, TypeTasks, TypeRest, TypeSteps

\* What a call, a row and a record updated in one field are.
LEMMA RecordTypes ==
  /\ \A n \in Names, v \in Params, i \in Ids : [name |-> n, value |-> v, id |-> i] \in Call
  /\ \A c \in Call : /\ pending_row(c) \in Row /\ pending_row(c).name = c.name
                     /\ pending_row(c).value = c.value
                     /\ c.name \in Names /\ c.value \in Params /\ c.id \in Ids
  /\ \A w \in Row, s \in {"pending", "running", "planned", "failed"} :
        /\ [w EXCEPT !.state = s] \in Row
        /\ [w EXCEPT !.state = s].name = w.name /\ [w EXCEPT !.state = s].value = w.value
  /\ NoCall \notin Call /\ NoRow \notin Row /\ NoPlan \notin Plan
BY SpecialValuesAssumption DEF Call, Row, Plan, pending_row

\* A request that was made carries a call.
LEMMA CallMade ==
  ASSUME TypeOK, NEW r \in Requests, call[r] # NoCall
  PROVE  call[r] \in Call /\ call[r].name \in Names /\ call[r].value \in Params /\ call[r].id \in Ids
<1>1. call[r] \in Call \cup {NoCall}
  BY TypeParts DEF TypeCall
<1>2. call[r] \in Call
  BY <1>1
<1>3. QED
  BY <1>2, RecordTypes

LEMMA TypeGatewayStep ==
  ASSUME TypeOK, NEW r \in GatewayCalls,
         gateway_step(r) \/ \E n \in Names, v \in Params : run_route(r, n, v)
  PROVE  TypeOK'
<1>r. r \in Requests
  BY DEF Requests
<1>1. ASSUME NEW n \in Names, NEW v \in Params, run_route(r, n, v) PROVE TypeOK'
  <2>1. [name |-> n, value |-> filled(n, v), id |-> r] \in Call
    BY <1>r, RecordTypes, ResolvedType DEF Ids
  <2>2. TypeGateway' /\ TypeHandlers'
    BY <1>1, <1>r, TypeParts DEF run_route, TypeGateway, TypeHandlers
  <2>c. /\ call[r] = NoCall
        /\ \/ /\ call' = [call EXCEPT ![r] = [name |-> n, value |-> filled(n, v), id |-> r]]
              /\ hpc' = [hpc EXCEPT ![r] = "sent"]
           \/ UNCHANGED <<call, hpc>>
        /\ UNCHANGED <<at, tpc, ref>>
    BY <1>1 DEF run_route, may_ask, task
  <2>d. TypeCall'
    BY <1>r, <2>1, <2>c, TypeParts DEF TypeCall
  <2>e. TypeSteps'
    <3>1. \A q \in Requests : call[q] # NoCall => call'[q] # NoCall
      BY <1>r, <2>1, <2>c, RecordTypes, TypeParts DEF TypeCall
    <3>2. \A q \in Requests : hpc'[q] = hpc[q] \/ (q = r /\ hpc'[q] = "sent" /\ call'[q] # NoCall)
      BY <1>r, <2>1, <2>c, RecordTypes, TypeParts DEF TypeCall, TypeHandlers
    <3>3. QED
      BY <2>c, <3>1, <3>2, TypeParts DEF TypeSteps, HandlerSteps
  <2>3. TypeProcess' /\ TypeTables' /\ TypeTasks' /\ TypeRest'
    BY <1>1, TypeParts DEF run_route, process, task, TypeProcess, TypeTables, TypeTasks, TypeRest
  <2>4. QED
    BY <2>2, <2>3, <2>d, <2>e, TypeJoin
<1>2. CASE execute(r) \/ post_refused(r) \/ post_timeout(r) \/ execute_raises(r)
  <2>1. \A code : verdict(code) \in {"running", "upstream", "rejected"}
    BY DEF verdict
  <2>2. TypeGateway'
    BY <1>2, <1>r, <2>1, TypeParts DEF execute, post_refused, post_timeout, execute_raises, track, TypeGateway
  <2>3. TypeHandlers' /\ TypeSteps'
    BY <1>2, <1>r, TypeParts DEF execute, post_refused, post_timeout, execute_raises, handler, task, TypeHandlers, TypeSteps, HandlerSteps
  <2>4. TypeCall' /\ TypeProcess' /\ TypeTables' /\ TypeTasks' /\ TypeRest'
    BY <1>2, TypeParts DEF execute, post_refused, post_timeout, execute_raises, process, task, fault, TypeCall, TypeProcess, TypeTables, TypeTasks, TypeRest
  <2>5. QED
    BY <2>2, <2>3, <2>4, TypeJoin
<1>3. QED
  BY <1>1, <1>2 DEF gateway_step

LEMMA TypeHandlerStep ==
  ASSUME TypeOK, NEW r \in Requests,
         \/ r \in DirectCalls /\ \E n \in Names, v \in Params, i \in Ids : post_run(r, n, v, i)
         \/ r \in DeadLetterRuns /\ \E m \in Managers, n \in Names, v \in Params : run_pipeline_now(r, m, n, v)
         \/ handler_step(r)
         \/ \E committed \in BOOLEAN : run_raises(r, committed)
  PROVE  TypeOK'
<1>1. ASSUME NEW n \in Names, NEW v \in Params, NEW i \in Ids, post_run(r, n, v, i) PROVE TypeOK'
  <2>1. [name |-> n, value |-> v, id |-> i] \in Call
    BY RecordTypes
  <2>2. TypeCall' /\ TypeHandlers'
    BY <1>1, <2>1, TypeParts DEF post_run, TypeCall, TypeHandlers
  <2>5. TypeSteps'
    <3>1. /\ call' = [call EXCEPT ![r] = [name |-> n, value |-> v, id |-> i]]
          /\ hpc' = [hpc EXCEPT ![r] = "sent"] /\ UNCHANGED <<at, tpc, ref>>
      BY <1>1 DEF post_run, task
    <3>2. /\ \A q \in Requests : call[q] # NoCall => call'[q] # NoCall
          /\ call'[r] # NoCall
      BY <2>1, <3>1, RecordTypes, TypeParts DEF TypeCall
    <3>3. hpc'[r] = "sent" /\ \A q \in Requests \ {r} : hpc'[q] = hpc[q]
      BY <3>1, TypeParts DEF TypeHandlers
    <3>4. QED
      BY <3>1, <3>2, <3>3, TypeParts DEF TypeSteps, HandlerSteps
  <2>3. TypeProcess' /\ TypeGateway' /\ TypeTables' /\ TypeTasks' /\ TypeRest'
    BY <1>1, TypeParts DEF post_run, process, gateway, task, TypeProcess, TypeGateway, TypeTables, TypeTasks, TypeRest
  <2>4. QED
    BY <2>2, <2>3, <2>5, TypeJoin
<1>2. ASSUME NEW m \in Managers, NEW n \in Names, NEW v \in Params, run_pipeline_now(r, m, n, v) PROVE TypeOK'
  <2> DEFINE c == [name |-> n, value |-> v, id |-> r]
  <2>1. c \in Call /\ pending_row(c) \in Row /\ r \in Ids
    BY RecordTypes DEF Ids
  <2>2. call' = [call EXCEPT ![r] = c] /\ at' = [at EXCEPT ![r] = m] /\ UNCHANGED <<hpc, answer, plan, ref, context, inst, cause>>
        /\ call[r] = NoCall
    BY <1>2 DEF run_pipeline_now, may_ask
  <2>3. \/ row' = [row EXCEPT ![r] = pending_row(c)] /\ tpc' = [tpc EXCEPT ![r] = "queued"]
        \/ UNCHANGED <<row, tpc>>
    BY <1>2 DEF run_pipeline_now
  <2> HIDE DEF c
  <2>4. TypeCall' /\ TypeHandlers'
    BY <2>1, <2>2, TypeParts DEF TypeCall, TypeHandlers
  <2>8. TypeSteps'
    <3>1. \A q \in Requests : call[q] # NoCall => call'[q] # NoCall
      BY <2>1, <2>2, RecordTypes, TypeParts DEF TypeCall
    <3>2. call'[r] # NoCall
      BY <2>1, <2>2, RecordTypes, TypeParts DEF TypeCall
    <3>3. at'[r] \in Managers /\ \A q \in Requests : at[q] \in Managers => at'[q] \in Managers
      BY <2>2, TypeParts DEF TypeHandlers
    <3>4. \A q \in Requests : tpc'[q] = tpc[q] \/ (q = r /\ tpc'[q] = "queued")
      BY <2>3, TypeParts DEF TypeTasks
    <3>5. QED
      BY <2>2, <3>1, <3>2, <3>3, <3>4, TypeParts DEF TypeSteps, HandlerSteps
  <2>5. TypeTables' /\ TypeTasks'
    BY <2>1, <2>2, <2>3, TypeParts DEF TypeTables, TypeTasks, TaskSteps
  <2>6. TypeProcess' /\ TypeGateway' /\ TypeRest'
    BY <1>2, TypeParts DEF run_pipeline_now, process, gateway, TypeProcess, TypeGateway, TypeRest
  <2>7. QED
    BY <2>4, <2>5, <2>6, <2>8, TypeJoin
<1>3. ASSUME NEW m \in Managers, run_pipeline(r, m) PROVE TypeOK'
  <2>1. checked(m, call[r]) \in {202, 404, 409, 422}
    BY DEF checked
  <2>2. TypeHandlers' /\ TypeSteps'
    BY <1>3, <2>1, TypeParts DEF run_pipeline, finish, task, TypeHandlers, TypeSteps, HandlerSteps
  <2>3. TypeProcess' /\ TypeCall' /\ TypeGateway' /\ TypeTables' /\ TypeTasks' /\ TypeRest'
    BY <1>3, TypeParts DEF run_pipeline, process, gateway, task, TypeProcess, TypeCall, TypeGateway, TypeTables,
                TypeTasks, TypeRest
  <2>4. QED
    BY <2>2, <2>3, TypeJoin
<1>4. CASE create_execution(r)
  <2>1. call[r] \in Call /\ call[r].id \in Ids /\ pending_row(call[r]) \in Row
    BY <1>4, CallMade, RecordTypes, TypeParts DEF create_execution, TypeSteps
  <2>2. TypeTables'
    BY <1>4, <2>1, TypeParts DEF create_execution, TypeTables
  <2>3. TypeHandlers' /\ TypeSteps'
    BY <1>4, TypeParts DEF create_execution, finish, task, TypeHandlers, TypeSteps, HandlerSteps
  <2>4. TypeProcess' /\ TypeCall' /\ TypeGateway' /\ TypeTasks' /\ TypeRest'
    BY <1>4, TypeParts DEF create_execution, process, gateway, task, TypeProcess, TypeCall, TypeGateway,
                TypeTasks, TypeRest
  <2>5. QED
    BY <2>2, <2>3, <2>4, TypeJoin
<1>5. CASE accept(r)
  <2>1. TypeHandlers' /\ TypeSteps'
    BY <1>5, TypeParts DEF accept, finish, TypeHandlers, TypeSteps, HandlerSteps
  <2>2. TypeProcess' /\ TypeCall' /\ TypeGateway' /\ TypeTables' /\ TypeTasks' /\ TypeRest'
    BY <1>5, TypeParts DEF accept, process, gateway, TypeProcess, TypeCall, TypeGateway, TypeTables,
                TypeTasks, TypeRest, TaskSteps
  <2>3. QED
    BY <2>1, <2>2, TypeJoin
<1>6. ASSUME NEW committed \in BOOLEAN, run_raises(r, committed) PROVE TypeOK'
  <2>1. call[r] \in Call /\ call[r].id \in Ids /\ pending_row(call[r]) \in Row
    BY <1>6, CallMade, RecordTypes, TypeParts DEF run_raises, HandlerSteps, TypeSteps
  <2>2. TypeTables' /\ TypeRest'
    BY <1>6, <2>1, TypeParts DEF run_raises, fault, TypeTables, TypeRest
  <2>3. TypeHandlers' /\ TypeSteps'
    BY <1>6, TypeParts DEF run_raises, finish, task, TypeHandlers, TypeSteps, HandlerSteps
  <2>4. TypeProcess' /\ TypeCall' /\ TypeGateway' /\ TypeTasks'
    BY <1>6, TypeParts DEF run_raises, process, gateway, task, TypeProcess, TypeCall, TypeGateway, TypeTasks
  <2>5. QED
    BY <2>2, <2>3, <2>4, TypeJoin
<1>7. QED
  BY <1>1, <1>2, <1>3, <1>4, <1>5, <1>6 DEF handler_step

\* Executions that were created have a row, theirs alone: what OneTask says of
\* tasks holds from the commit of the row on.
Created(r) == hpc[r] = "reset" \/ tpc[r] # "none"

CreatedInv ==
  /\ \A r \in Requests : hpc[r] \in {"sent", "create", "reset"} => tpc[r] = "none"
  /\ \A r \in Requests : Created(r) =>
        /\ row[call[r].id] # NoRow
        /\ row[call[r].id].name = call[r].name /\ row[call[r].id].value = call[r].value
  /\ \A r, q \in Requests : r # q /\ Created(r) /\ Created(q) => call[r].id # call[q].id

\* A row that changes its state stays a row.
LEMMA StateUpdate ==
  ASSUME TypeOK, NEW i \in Ids, row[i] # NoRow, NEW s \in {"pending", "running", "planned", "failed"},
         row' = [row EXCEPT ![i].state = s]
  PROVE  /\ row' \in [Ids -> Row \cup {NoRow}]
         /\ \A k \in Ids : /\ row'[k] = NoRow <=> row[k] = NoRow
                           /\ row[k] # NoRow => row'[k].name = row[k].name /\ row'[k].value = row[k].value
<1>1. row \in [Ids -> Row \cup {NoRow}] /\ row[i] \in Row
  BY TypeParts DEF TypeTables
<1>2. row' = [row EXCEPT ![i] = [row[i] EXCEPT !.state = s]]
  OBVIOUS
<1>3. row'[i] = [row[i] EXCEPT !.state = s] /\ \A k \in Ids \ {i} : row'[k] = row[k]
  BY <1>1, <1>2
<1>4. /\ row'[i] \in Row /\ row'[i].name = row[i].name /\ row'[i].value = row[i].value
  BY <1>1, <1>3, RecordTypes
<1>5. QED
  BY <1>1, <1>2, <1>3, <1>4, RecordTypes

LEMMA TypeTaskStep ==
  ASSUME TypeOK, CreatedInv, NEW r \in Requests, task_step(r) \/ task_raises(r) \/ dispatch_failed_error(r)
  PROVE  TypeOK'
<1>0. tpc[r] # "none" /\ tpc[r] \in TaskSteps
  BY DEF task_step, fork, resolve, resolve_source, plan_start, save_plan, dispatch_failed, task_raises,
         dispatch_failed_error, Task, TaskSteps
<1>1. call[r] \in Call /\ call[r].name \in Names /\ call[r].value \in Params /\ call[r].id \in Ids
  BY <1>0, CallMade, TypeParts DEF TypeSteps
<1>2. resolved(r) \in Params
  BY <1>1, ResolvedType DEF resolved
<1>3. tpc[r] \in {"resolve", "define_jobs", "start", "plan"} => ref[r] \in Objects
  BY TypeParts DEF TypeSteps, TypeTasks
<1>4. r \in Objects /\ r # NoObject
  BY SpecialValuesAssumption DEF Objects
<1>5. registered(r) \in Objects
  BY <1>0, <1>1, TypeParts DEF TypeSteps, registered, Objects
<1>6. row[call[r].id] # NoRow
  BY <1>0 DEF CreatedInv, Created
<1>7. ASSUME NEW o \in Objects, NEW v \in Params
      PROVE  /\ [inst EXCEPT ![o].params = v] \in [Objects -> Plan]
             /\ \A n \in Names : [inst EXCEPT ![o].source = <<n, v>>] \in [Objects -> Plan]
  <2>1. inst[o] \in Plan /\ inst \in [Objects -> Plan]
    BY TypeParts DEF TypeTasks
  <2>2. [inst[o] EXCEPT !.params = v] \in Plan /\ \A n \in Names : [inst[o] EXCEPT !.source = <<n, v>>] \in Plan
    BY <2>1 DEF Plan
  <2>3. QED
    BY <2>1, <2>2
<1> DEFINE Rest == TypeProcess' /\ TypeCall' /\ TypeGateway' /\ TypeHandlers'
<1>8. Rest
  BY TypeParts DEF task_step, fork, resolve, resolve_source, plan_start, save_plan, dispatch_failed, task_raises,
         dispatch_failed_error, process, gateway, handler, TypeProcess, TypeCall, TypeGateway, TypeHandlers
<1>9. ASSUME \E step \in TaskSteps \cup {"done"} : tpc' = [tpc EXCEPT ![r] = step], UNCHANGED <<call, hpc, at>>,
             \A q \in Requests \ {r} : ref'[q] = ref[q],
             tpc'[r] \in {"resolve", "define_jobs", "start", "plan"} => ref'[r] # NoObject
      PROVE  TypeSteps'
  BY <1>0, <1>9, TypeParts DEF TypeSteps, TypeTasks
<1>10. CASE fork(r)
  <2>1. TypeTasks'
    BY <1>10, <1>4, <1>5, TypeParts DEF fork, raise, TypeTasks, TaskSteps
  <2>2. TypeSteps'
    BY <1>10, <1>4, <1>9, TypeParts DEF fork, raise, handler, TypeTasks, TaskSteps
  <2>3. TypeTables' /\ TypeRest'
    BY <1>10, TypeParts DEF fork, TypeTables, TypeRest
  <2>4. QED
    BY <1>8, <2>1, <2>2, <2>3, TypeJoin
<1>11. CASE resolve(r)
  <2>1. TypeTasks'
    BY <1>11, <1>2, <1>3, <1>7, TypeParts DEF resolve, raise, Task, TypeTasks, TaskSteps
  <2>2. TypeSteps'
    BY <1>11, <1>3, <1>9, SpecialValuesAssumption, TypeParts DEF resolve, Task, raise, handler, TypeTasks, TaskSteps, TypeSteps
  <2>3. TypeTables' /\ TypeRest'
    BY <1>11, TypeParts DEF resolve, TypeTables, TypeRest
  <2>4. QED
    BY <1>8, <2>1, <2>2, <2>3, TypeJoin
<1>12. CASE resolve_source(r)
  <2>1. TypeTasks'
    BY <1>12, <1>1, <1>2, <1>3, <1>7, TypeParts DEF resolve_source, define_jobs, Task, TypeTasks, TaskSteps
  <2>2. TypeSteps'
    BY <1>12, <1>9, TypeParts DEF resolve_source, Task, handler, TypeTasks, TaskSteps, TypeSteps
  <2>3. TypeTables' /\ TypeRest'
    BY <1>12, TypeParts DEF resolve_source, TypeTables, TypeRest
  <2>4. QED
    BY <1>8, <2>1, <2>2, <2>3, TypeJoin
<1>13. CASE plan_start(r)
  <2>0. inst[ref[r]].params \in Params \cup {Unset}
    BY <1>13, <1>3, TypeParts DEF plan_start, Task, TypeTasks, Plan
  <2>1. TypeTasks'
    BY <1>13, <2>0, TypeParts DEF plan_start, TypeTasks, TaskSteps
  <2>2. TypeSteps'
    BY <1>13, <1>9, TypeParts DEF plan_start, Task, handler, TypeTasks, TaskSteps, TypeSteps
  <2>3. TypeTables' /\ TypeRest'
    BY <1>13, <1>1, <1>6, StateUpdate, TypeParts DEF plan_start, TypeTables, TypeRest
  <2>4. QED
    BY <1>8, <2>1, <2>2, <2>3, TypeJoin
<1>14. CASE save_plan(r)
  <2>0. [params |-> context[r], source |-> inst[ref[r]].source] \in Plan
    BY <1>14, <1>3, TypeParts DEF save_plan, Task, TypeTasks, Plan
  <2>1. TypeTasks'
    BY <1>14, TypeParts DEF save_plan, TypeTasks, TaskSteps
  <2>2. TypeSteps'
    BY <1>14, <1>9, TypeParts DEF save_plan, Task, handler, TypeTasks, TaskSteps, TypeSteps
  <2>3. TypeTables' /\ TypeRest'
    BY <1>14, <1>1, <1>6, <2>0, StateUpdate, TypeParts DEF save_plan, TypeTables, TypeRest
  <2>4. QED
    BY <1>8, <2>1, <2>2, <2>3, TypeJoin
<1>15. CASE dispatch_failed(r)
  <2>1. TypeTasks'
    BY <1>15, TypeParts DEF dispatch_failed, TypeTasks, TaskSteps
  <2>2. TypeSteps'
    BY <1>15, <1>9, TypeParts DEF dispatch_failed, Task, handler, TypeTasks, TaskSteps, TypeSteps
  <2>3. TypeTables' /\ TypeRest'
    BY <1>15, <1>1, <1>6, StateUpdate, TypeParts DEF dispatch_failed, TypeTables, TypeRest
  <2>4. QED
    BY <1>8, <2>1, <2>2, <2>3, TypeJoin
<1>16. CASE task_raises(r) \/ dispatch_failed_error(r)
  <2>1. TypeTasks'
    BY <1>16, TypeParts DEF task_raises, dispatch_failed_error, raise, TypeTasks, TaskSteps
  <2>2. TypeSteps'
    BY <1>16, <1>9, TypeParts DEF task_raises, dispatch_failed_error, raise, handler, TypeTasks, TaskSteps, TypeSteps
  <2>3. TypeTables' /\ TypeRest'
    BY <1>16, <1>1, TypeParts DEF task_raises, dispatch_failed_error, fault, TypeTables, TypeRest
  <2>4. QED
    BY <1>8, <2>1, <2>2, <2>3, TypeJoin
<1>17. QED
  BY <1>10, <1>11, <1>12, <1>13, <1>14, <1>15, <1>16 DEF task_step

LEMMA TypeManagerStep ==
  ASSUME TypeOK, NEW m \in Managers,
         crash(m) \/ (\E found \in Registries : restart(m, found)) \/ \E i \in Ids : recover_plan(m, i)
  PROVE  TypeOK'
<1>1. CASE crash(m)
  <2>1. up' \in [Managers -> BOOLEAN]
    BY <1>1, TypeParts DEF crash, TypeProcess
  <2>2. TypeProcess' /\ TypeRest'
    BY <1>1, <2>1, TypeParts DEF crash, fault, TypeProcess, TypeRest
  <2>3. TypeHandlers'
    BY <1>1, TypeParts DEF crash, TypeHandlers
  <2>4. TypeTasks'
    BY <1>1, BlankType, TypeParts DEF crash, TypeTasks
  <2>5. TypeSteps'
    BY <1>1, TypeParts DEF crash, TypeSteps, HandlerSteps, TaskSteps
  <2>6. TypeCall' /\ TypeGateway' /\ TypeTables'
    BY <1>1, TypeParts DEF crash, gateway, TypeCall, TypeGateway, TypeTables
  <2>7. QED
    BY <2>2, <2>3, <2>4, <2>5, <2>6, TypeJoin
<1>2. ASSUME NEW found \in Registries, restart(m, found) PROVE TypeOK'
  <2>1. up' \in [Managers -> BOOLEAN]
    BY <1>2, TypeParts DEF restart, TypeProcess
  <2>2. TypeProcess'
    BY <1>2, <2>1, TypeParts DEF restart, interrupted, Registries, TypeProcess
  <2>3. TypeHandlers' /\ TypeTasks' /\ TypeSteps' /\ TypeRest'
    BY <1>2, TypeParts DEF restart, handler, task, TypeHandlers, TypeTasks, TypeSteps, TypeRest
  <2>4. TypeCall' /\ TypeGateway' /\ TypeTables'
    BY <1>2, TypeParts DEF restart, gateway, TypeCall, TypeGateway, TypeTables
  <2>5. QED
    BY <2>2, <2>3, <2>4, TypeJoin
<1>3. ASSUME NEW i \in Ids, recover_plan(m, i) PROVE TypeOK'
  <2>1. UNCHANGED up
    BY <1>3 DEF recover_plan
  <2>2. TypeProcess'
    BY <1>3, <2>1, TypeParts DEF recover_plan, TypeProcess
  <2>3. TypeTables'
    BY <1>3, StateUpdate, TypeParts DEF recover_plan, interrupted, TypeTables
  <2>4. TypeHandlers' /\ TypeTasks' /\ TypeSteps' /\ TypeRest'
    BY <1>3, TypeParts DEF recover_plan, handler, task, TypeHandlers, TypeTasks, TypeSteps, TypeRest
  <2>5. TypeCall' /\ TypeGateway'
    BY <1>3, TypeParts DEF recover_plan, gateway, TypeCall, TypeGateway
  <2>6. QED
    BY <2>2, <2>3, <2>4, <2>5, TypeJoin
<1>4. QED
  BY <1>1, <1>2, <1>3

LEMMA TypeNext == TypeOK /\ CreatedInv /\ [Next]_vars => TypeOK'
<1> SUFFICES ASSUME TypeOK, CreatedInv, [Next]_vars PROVE TypeOK'
  OBVIOUS
<1>1. CASE UNCHANGED vars
  BY <1>1 DEF TypeOK, vars
<1>2. CASE Next
  BY <1>2, TypeGatewayStep, TypeHandlerStep, TypeTaskStep, TypeManagerStep DEF Next, Requests
<1>3. QED
  BY <1>1, <1>2

----------------------------------------------------------------------------
(* Ids: a request's own id is nobody else's. *)

CallInv ==
  /\ \A r \in Requests : call[r] # NoCall => call[r].id \in ClientIds \cup {r}
  /\ \A r \in GatewayCalls \cup DeadLetterRuns : call[r] # NoCall => call[r].id = r
  /\ \A r \in Requests : call[r] = NoCall => row[r] = NoRow /\ plan[r] = NoPlan

LEMMA CallInit == Init => CallInv
BY DEF Init, CallInv, Requests, Ids

\* Requests whose call is not yet made have no rows, and others do not write them.
LEMMA CallFrame ==
  ASSUME TypeOK, CallInv, UNCHANGED call,
         \A r \in Requests : call[r] = NoCall => row'[r] = row[r] /\ plan'[r] = plan[r]
  PROVE  CallInv'
BY DEF CallInv

LEMMA OwnId ==
  ASSUME CallInv, NEW r \in Requests, call[r] # NoCall, NEW q \in Requests, q # r
  PROVE  call[r].id # q
BY RequestsAssumption DEF CallInv

LEMMA CallTask ==
  ASSUME TypeOK, CreatedInv, CallInv, NEW r \in Requests,
         task_step(r) \/ task_raises(r) \/ dispatch_failed_error(r)
  PROVE  CallInv'
<1>0. tpc[r] # "none" /\ tpc[r] \in TaskSteps
  BY DEF task_step, fork, resolve, resolve_source, plan_start, save_plan, dispatch_failed, task_raises,
         dispatch_failed_error, Task, TaskSteps
<1>1. call[r] # NoCall
  BY <1>0, TypeParts DEF TypeSteps
<1>2. /\ row \in [Ids -> Row \cup {NoRow}] /\ plan \in [Ids -> Plan \cup {NoPlan}]
      /\ Requests \subseteq Ids
  BY TypeParts DEF TypeTables, Ids
<1>3. \A q \in Requests : call[q] = NoCall => call[r].id # q
  BY <1>1, OwnId
<1>4. /\ UNCHANGED call
      /\ UNCHANGED row \/ \E s \in {"running", "planned", "failed"} : row' = [row EXCEPT ![call[r].id].state = s]
      /\ UNCHANGED plan \/ \E pl : plan' = [plan EXCEPT ![call[r].id] = pl]
  BY DEF task_step, fork, resolve, resolve_source, plan_start, save_plan, dispatch_failed, task_raises,
         dispatch_failed_error
<1>5. \A q \in Requests : call[q] = NoCall => row'[q] = row[q] /\ plan'[q] = plan[q]
  BY <1>2, <1>3, <1>4
<1>6. QED
  BY <1>4, <1>5, CallFrame

LEMMA CallHandler ==
  ASSUME TypeOK, CallInv, NEW r \in Requests,
         handler_step(r) \/ \E committed \in BOOLEAN : run_raises(r, committed)
  PROVE  CallInv'
<1>0. hpc[r] # "none"
  BY DEF handler_step, run_pipeline, create_execution, accept, run_raises, HandlerSteps
<1>1. call[r] # NoCall
  BY <1>0, TypeParts DEF TypeSteps
<1>2. /\ row \in [Ids -> Row \cup {NoRow}]
      /\ Requests \subseteq Ids
  BY TypeParts DEF TypeTables, Ids
<1>3. \A q \in Requests : call[q] = NoCall => call[r].id # q
  BY <1>1, OwnId
<1>4. /\ UNCHANGED <<call, plan>>
      /\ UNCHANGED row \/ row' = [row EXCEPT ![call[r].id] = pending_row(call[r])]
  BY DEF handler_step, run_pipeline, create_execution, accept, run_raises
<1>5. \A q \in Requests : call[q] = NoCall => row'[q] = row[q]
  BY <1>2, <1>3, <1>4
<1>6. QED
  BY <1>4, <1>5, CallFrame

\* The steps that make a call.
LEMMA CallMaking ==
  ASSUME TypeOK, CallInv, NEW r \in Requests, NEW n, NEW v, NEW i,
         call' = [call EXCEPT ![r] = [name |-> n, value |-> v, id |-> i]],
         i \in ClientIds \cup {r}, r \in GatewayCalls \cup DeadLetterRuns => i = r,
         UNCHANGED plan, \A q \in Requests \ {r} : row'[q] = row[q],
         NoCall # [name |-> n, value |-> v, id |-> i]
  PROVE  CallInv'
<1>1. /\ call'[r] = [name |-> n, value |-> v, id |-> i] /\ \A q \in Requests \ {r} : call'[q] = call[q]
  BY TypeParts DEF TypeCall
<1>2. QED
  BY <1>1 DEF CallInv, Requests

LEMMA CallNext == TypeOK /\ CreatedInv /\ CallInv /\ [Next]_vars => CallInv'
<1> SUFFICES ASSUME TypeOK, CreatedInv, CallInv, [Next]_vars PROVE CallInv'
  OBVIOUS
<1>1. CASE UNCHANGED vars
  BY <1>1, CallFrame DEF vars
<1>2. ASSUME NEW r \in GatewayCalls, gateway_step(r) PROVE CallInv'
  BY <1>2, CallFrame DEF gateway_step, execute, post_refused, post_timeout, execute_raises
<1>3. ASSUME NEW r \in GatewayCalls, NEW n \in Names, NEW v \in Params, run_route(r, n, v) PROVE CallInv'
  <2>0. r \in Requests /\ r \in Ids
    BY DEF Requests, Ids
  <2>1. [name |-> n, value |-> filled(n, v), id |-> r] \in Call
    BY <2>0, RecordTypes, ResolvedType
  <2>2. [name |-> n, value |-> filled(n, v), id |-> r] # NoCall
    BY <2>1, RecordTypes
  <2>3. UNCHANGED <<row, plan>>
    BY <1>3 DEF run_route
  <2>4. \/ UNCHANGED call
        \/ call' = [call EXCEPT ![r] = [name |-> n, value |-> filled(n, v), id |-> r]]
    BY <1>3 DEF run_route
  <2>5. QED
    BY <2>0, <2>2, <2>3, <2>4, CallFrame, CallMaking
<1>4. ASSUME NEW r \in DirectCalls, NEW n \in Names, NEW v \in Params, NEW i \in Ids, post_run(r, n, v, i)
      PROVE  CallInv'
  <2>0. r \in Requests /\ r \notin GatewayCalls \cup DeadLetterRuns
    BY RequestsAssumption DEF Requests
  <2>1. [name |-> n, value |-> v, id |-> i] # NoCall
    BY RecordTypes
  <2>2. /\ UNCHANGED <<row, plan>> /\ i \in ClientIds \cup {r}
        /\ call' = [call EXCEPT ![r] = [name |-> n, value |-> v, id |-> i]]
    BY <1>4 DEF post_run
  <2>3. QED
    BY <2>0, <2>1, <2>2, CallMaking
<1>5. ASSUME NEW r \in DeadLetterRuns, NEW m \in Managers, NEW n \in Names, NEW v \in Params,
             run_pipeline_now(r, m, n, v)
      PROVE  CallInv'
  <2>0. r \in Requests /\ r \in Ids /\ Requests \subseteq Ids
    BY DEF Requests, Ids
  <2>1. [name |-> n, value |-> v, id |-> r] # NoCall
    BY <2>0, RecordTypes
  <2>2. /\ UNCHANGED plan
        /\ call' = [call EXCEPT ![r] = [name |-> n, value |-> v, id |-> r]]
        /\ UNCHANGED row \/ \E w : row' = [row EXCEPT ![r] = w]
    BY <1>5 DEF run_pipeline_now
  <2>3. \A q \in Requests \ {r} : row'[q] = row[q]
    BY <2>0, <2>2, TypeParts DEF TypeTables
  <2>4. QED
    BY <2>0, <2>1, <2>2, <2>3, CallMaking
<1>6. ASSUME NEW m \in Managers, crash(m) PROVE CallInv'
  BY <1>6, CallFrame DEF crash
<1>7. ASSUME NEW m \in Managers, NEW found \in Registries, restart(m, found) PROVE CallInv'
  BY <1>7, CallFrame DEF restart
<1>8. ASSUME NEW m \in Managers, NEW i \in Ids, recover_plan(m, i) PROVE CallInv'
  <2>1. /\ UNCHANGED <<call, plan>>
        /\ UNCHANGED row \/ (row[i] # NoRow /\ row' = [row EXCEPT ![i].state = "failed"])
    BY <1>8 DEF recover_plan, interrupted
  <2>2. \A q \in Requests : call[q] = NoCall => q \in Ids /\ row[q] = NoRow
    BY DEF CallInv, Ids
  <2>3. \A q \in Requests : call[q] = NoCall => row'[q] = row[q]
    BY <2>1, <2>2, TypeParts DEF TypeTables
  <2>4. QED
    BY <2>1, <2>3, CallFrame
<1>9. QED
  BY <1>1, <1>2, <1>3, <1>4, <1>5, <1>6, <1>7, <1>8, CallTask, CallHandler DEF Next

----------------------------------------------------------------------------
(* A row keeps the pipeline and the parameters it was created with. *)

RowsKept ==
  \A i \in Ids : row[i] # NoRow =>
     row'[i] # NoRow /\ row'[i].name = row[i].name /\ row'[i].value = row[i].value

LEMMA RowsTask ==
  ASSUME TypeOK, CreatedInv, NEW r \in Requests, task_step(r) \/ task_raises(r) \/ dispatch_failed_error(r)
  PROVE  RowsKept
<1>0. tpc[r] # "none" /\ tpc[r] \in TaskSteps
  BY DEF task_step, fork, resolve, resolve_source, plan_start, save_plan, dispatch_failed, task_raises,
         dispatch_failed_error, Task, TaskSteps
<1>1. call[r].id \in Ids /\ row[call[r].id] # NoRow
  BY <1>0, CallMade, TypeParts DEF TypeSteps, CreatedInv, Created
<1>2. UNCHANGED row \/ \E s \in {"running", "planned", "failed"} : row' = [row EXCEPT ![call[r].id].state = s]
  BY DEF task_step, fork, resolve, resolve_source, plan_start, save_plan, dispatch_failed, task_raises,
         dispatch_failed_error
<1>3. QED
  BY <1>1, <1>2, StateUpdate DEF RowsKept

LEMMA RowsHandler ==
  ASSUME TypeOK, NEW r \in Requests, handler_step(r) \/ \E committed \in BOOLEAN : run_raises(r, committed)
  PROVE  RowsKept
<1>1. UNCHANGED row \/ (row[call[r].id] = NoRow /\ row' = [row EXCEPT ![call[r].id] = pending_row(call[r])])
  BY DEF handler_step, run_pipeline, create_execution, accept, run_raises
<1>2. QED
  BY <1>1, TypeParts DEF RowsKept, TypeTables

LEMMA RowsNext == TypeOK /\ CreatedInv /\ CallInv /\ [Next]_vars => RowsKept
<1> SUFFICES ASSUME TypeOK, CreatedInv, CallInv, [Next]_vars PROVE RowsKept
  OBVIOUS
<1>1. CASE UNCHANGED vars
  BY <1>1 DEF vars, RowsKept
<1>2. ASSUME NEW r \in GatewayCalls, gateway_step(r) \/ \E n \in Names, v \in Params : run_route(r, n, v)
      PROVE  RowsKept
  BY <1>2 DEF gateway_step, execute, post_refused, post_timeout, execute_raises, run_route, RowsKept
<1>3. ASSUME NEW r \in DirectCalls, NEW n \in Names, NEW v \in Params, NEW i \in Ids, post_run(r, n, v, i)
      PROVE  RowsKept
  BY <1>3 DEF post_run, RowsKept
<1>4. ASSUME NEW r \in DeadLetterRuns, NEW m \in Managers, NEW n \in Names, NEW v \in Params,
             run_pipeline_now(r, m, n, v)
      PROVE  RowsKept
  <2>1. row[r] = NoRow
    BY <1>4 DEF run_pipeline_now, may_ask, CallInv, Requests
  <2>2. UNCHANGED row \/ \E w : row' = [row EXCEPT ![r] = w]
    BY <1>4 DEF run_pipeline_now
  <2>3. QED
    BY <2>1, <2>2, TypeParts DEF RowsKept, TypeTables
<1>5. ASSUME NEW m \in Managers, crash(m) \/ \E found \in Registries : restart(m, found) PROVE RowsKept
  BY <1>5 DEF crash, restart, RowsKept
<1>6. ASSUME NEW m \in Managers, NEW i \in Ids, recover_plan(m, i) PROVE RowsKept
  <2>1. UNCHANGED row \/ (row[i] # NoRow /\ row' = [row EXCEPT ![i].state = "failed"])
    BY <1>6 DEF recover_plan, interrupted
  <2>2. QED
    BY <2>1, StateUpdate DEF RowsKept
<1>7. QED
  BY <1>1, <1>2, <1>3, <1>4, <1>5, <1>6, RowsTask, RowsHandler DEF Next

----------------------------------------------------------------------------
(* OneTask. *)

LEMMA CreatedInit == Init => CreatedInv
BY DEF Init, CreatedInv, Created

\* A step that creates nothing.
LEMMA CreatedFrame ==
  ASSUME TypeOK, CreatedInv, RowsKept,
         \A r \in Requests : hpc'[r] \in {"sent", "create", "reset"} => tpc'[r] = "none",
         \A r \in Requests : Created(r)' => Created(r) /\ call'[r] = call[r]
  PROVE  CreatedInv'
<1>1. \A r \in Requests : Created(r) => call[r].id \in Ids
  BY CallMade, TypeParts DEF TypeSteps, Created
<1>2. \A r \in Requests : Created(r) => /\ row[call[r].id] # NoRow
                                         /\ row[call[r].id].name = call[r].name
                                         /\ row[call[r].id].value = call[r].value
  BY DEF CreatedInv
<1>3. \A r \in Requests : Created(r)' => /\ row'[call'[r].id] # NoRow
                                          /\ row'[call'[r].id].name = call'[r].name
                                          /\ row'[call'[r].id].value = call'[r].value
  BY <1>1, <1>2 DEF RowsKept
<1>4. \A r, q \in Requests : r # q /\ Created(r)' /\ Created(q)' => call'[r].id # call'[q].id
  BY DEF CreatedInv
<1>5. QED
  BY <1>3, <1>4 DEF CreatedInv

\* A step that creates an execution under an id that had no row.
LEMMA CreatedOne ==
  ASSUME TypeOK, CreatedInv, RowsKept, NEW r \in Requests, NEW c \in Call,
         row[c.id] = NoRow, row' = [row EXCEPT ![c.id] = pending_row(c)], call'[r] = c,
         \A q \in Requests \ {r} : hpc'[q] = hpc[q] /\ tpc'[q] = tpc[q] /\ call'[q] = call[q],
         hpc'[r] \in {"sent", "create", "reset"} => tpc'[r] = "none"
  PROVE  CreatedInv'
<1>1. c.id \in Ids /\ row' [c.id] = pending_row(c) /\ pending_row(c).name = c.name /\ pending_row(c).value = c.value
      /\ pending_row(c) # NoRow
  BY RecordTypes, TypeParts DEF TypeTables
<1>2. \A q \in Requests : Created(q) => call[q].id \in Ids /\ call[q].id # c.id
  BY CallMade, TypeParts DEF TypeSteps, Created, CreatedInv
<1>3. \A q \in Requests \ {r} : (Created(q)' <=> Created(q)) /\ call'[q] = call[q]
  BY DEF Created
<1>4. \A q \in Requests : Created(q)' => /\ row'[call'[q].id] # NoRow
                                          /\ row'[call'[q].id].name = call'[q].name
                                          /\ row'[call'[q].id].value = call'[q].value
  <2> SUFFICES ASSUME NEW q \in Requests, Created(q)'
               PROVE  /\ row'[call'[q].id] # NoRow
                      /\ row'[call'[q].id].name = call'[q].name
                      /\ row'[call'[q].id].value = call'[q].value
    OBVIOUS
  <2>1. CASE q = r
    BY <2>1, <1>1
  <2>2. CASE q # r
    BY <2>2, <1>2, <1>3 DEF CreatedInv, RowsKept
  <2>3. QED
    BY <2>1, <2>2
<1>5. \A p, q \in Requests : p # q /\ Created(p)' /\ Created(q)' => call'[p].id # call'[q].id
  BY <1>2, <1>3 DEF CreatedInv
<1>6. \A q \in Requests : hpc'[q] \in {"sent", "create", "reset"} => tpc'[q] = "none"
  BY DEF CreatedInv
<1>7. QED
  BY <1>4, <1>5, <1>6 DEF CreatedInv

LEMMA CreatedHandler ==
  ASSUME TypeOK, CreatedInv, RowsKept, NEW r \in Requests,
         handler_step(r) \/ \E committed \in BOOLEAN : run_raises(r, committed)
  PROVE  CreatedInv'
<1>t. hpc \in [Requests -> {"none", "sent", "create", "reset", "answered", "dead"}]
  BY TypeParts DEF TypeHandlers
<1>1. ASSUME NEW m \in Managers, run_pipeline(r, m) PROVE CreatedInv'
  <2>1. /\ hpc[r] = "sent" /\ UNCHANGED <<call, tpc>>
        /\ \E step \in {"create", "answered"} : hpc' = [hpc EXCEPT ![r] = step]
    BY <1>1 DEF run_pipeline, finish, task
  <2>2. QED
    BY <1>t, <2>1, CreatedFrame DEF CreatedInv, Created
<1>2. CASE create_execution(r)
  <2>0. hpc[r] = "create" /\ tpc[r] = "none" /\ call[r] \in Call /\ UNCHANGED <<call, tpc>>
    BY <1>2, CallMade, TypeParts DEF create_execution, task, CreatedInv, TypeSteps
  <2>1. CASE row[call[r].id] = NoRow
    <3>1. /\ row' = [row EXCEPT ![call[r].id] = pending_row(call[r])]
          /\ hpc' = [hpc EXCEPT ![r] = "reset"]
      BY <1>2, <2>1 DEF create_execution
    <3>2. /\ \A q \in Requests \ {r} : hpc'[q] = hpc[q] /\ tpc'[q] = tpc[q] /\ call'[q] = call[q]
          /\ tpc'[r] = "none" /\ call'[r] = call[r]
      BY <1>t, <2>0, <3>1
    <3>3. QED
      BY <2>0, <2>1, <3>1, <3>2, CreatedOne
  <2>2. CASE row[call[r].id] # NoRow
    <3>1. hpc' = [hpc EXCEPT ![r] = "answered"]
      BY <1>2, <2>2 DEF create_execution, finish
    <3>2. QED
      BY <1>t, <2>0, <3>1, CreatedFrame DEF CreatedInv, Created
  <2>3. QED
    BY <2>1, <2>2
<1>3. CASE accept(r)
  <2>1. /\ hpc[r] = "reset" /\ hpc' = [hpc EXCEPT ![r] = "answered"] /\ UNCHANGED call
        /\ tpc' = [tpc EXCEPT ![r] = "queued"]
    BY <1>3 DEF accept, finish
  <2>2. QED
    BY <1>t, <2>1, CreatedFrame, TypeParts DEF CreatedInv, Created, TypeTasks
<1>4. ASSUME NEW committed \in BOOLEAN, run_raises(r, committed) PROVE CreatedInv'
  <2>1. hpc' = [hpc EXCEPT ![r] = "answered"] /\ UNCHANGED <<call, tpc>>
    BY <1>4 DEF run_raises, finish, task
  <2>2. QED
    BY <1>t, <2>1, CreatedFrame DEF CreatedInv, Created
<1>5. QED
  BY <1>1, <1>2, <1>3, <1>4 DEF handler_step

LEMMA CreatedNext == TypeOK /\ CreatedInv /\ CallInv /\ [Next]_vars => CreatedInv'
<1> SUFFICES ASSUME TypeOK, CreatedInv, CallInv, [Next]_vars PROVE CreatedInv'
  OBVIOUS
<1>k. RowsKept
  BY RowsNext
<1>t. /\ hpc \in [Requests -> {"none", "sent", "create", "reset", "answered", "dead"}]
      /\ tpc \in [Requests -> TaskSteps \cup {"none", "done", "dead"}]
      /\ call \in [Requests -> Call \cup {NoCall}]
  BY TypeParts DEF TypeHandlers, TypeTasks, TypeCall
<1>n. \A r \in Requests : call[r] = NoCall => hpc[r] = "none" /\ tpc[r] = "none"
  BY TypeParts DEF TypeSteps
<1>1. CASE UNCHANGED vars
  BY <1>1, <1>k, CreatedFrame DEF vars, CreatedInv, Created
<1>2. ASSUME NEW r \in GatewayCalls, gateway_step(r) PROVE CreatedInv'
  <2>1. /\ UNCHANGED <<call, tpc>>
        /\ UNCHANGED hpc \/ hpc' = [hpc EXCEPT ![r] = "none"]
    BY <1>2 DEF gateway_step, execute, post_refused, post_timeout, execute_raises, handler, task
  <2>2. QED
    BY <1>t, <1>k, <2>1, CreatedFrame DEF CreatedInv, Created
<1>3. ASSUME NEW r \in Requests,
             \/ \E n \in Names, v \in Params : run_route(r, n, v)
             \/ \E n \in Names, v \in Params, i \in Ids : post_run(r, n, v, i)
      PROVE  CreatedInv'
  <2>1. /\ call[r] = NoCall /\ UNCHANGED tpc
        /\ UNCHANGED hpc \/ hpc' = [hpc EXCEPT ![r] = "sent"]
        /\ UNCHANGED call \/ \E c : call' = [call EXCEPT ![r] = c]
    BY <1>3 DEF run_route, post_run, may_ask, task
  <2>2. QED
    BY <1>t, <1>k, <1>n, <2>1, CreatedFrame DEF CreatedInv, Created
<1>4. ASSUME NEW r \in DeadLetterRuns, NEW m \in Managers, NEW n \in Names, NEW v \in Params,
             run_pipeline_now(r, m, n, v)
      PROVE  CreatedInv'
  <2> DEFINE c == [name |-> n, value |-> v, id |-> r]
  <2>0. r \in Requests /\ c \in Call /\ c.id = r
    BY RecordTypes DEF Requests, Ids
  <2>1. call[r] = NoCall /\ row[r] = NoRow /\ hpc[r] = "none" /\ tpc[r] = "none"
    BY <1>4, <1>n, <2>0 DEF run_pipeline_now, may_ask, CallInv
  <2>2. call' = [call EXCEPT ![r] = c] /\ UNCHANGED hpc
    BY <1>4 DEF run_pipeline_now
  <2>3. \/ row' = [row EXCEPT ![r] = pending_row(c)] /\ tpc' = [tpc EXCEPT ![r] = "queued"]
        \/ UNCHANGED tpc
    BY <1>4 DEF run_pipeline_now
  <2> HIDE DEF c
  <2>4. CASE row' = [row EXCEPT ![r] = pending_row(c)] /\ tpc' = [tpc EXCEPT ![r] = "queued"]
    <3>1. /\ \A q \in Requests \ {r} : hpc'[q] = hpc[q] /\ tpc'[q] = tpc[q] /\ call'[q] = call[q]
          /\ call'[r] = c /\ hpc'[r] = "none" /\ row[c.id] = NoRow /\ row' = [row EXCEPT ![c.id] = pending_row(c)]
      BY <1>t, <2>0, <2>1, <2>2, <2>4
    <3>2. QED
      BY <1>k, <2>0, <3>1, CreatedOne
  <2>5. CASE UNCHANGED tpc
    BY <1>t, <1>k, <2>0, <2>1, <2>2, <2>5, CreatedFrame DEF CreatedInv, Created
  <2>6. QED
    BY <2>3, <2>4, <2>5
<1>5. ASSUME NEW r \in Requests, task_step(r) \/ task_raises(r) \/ dispatch_failed_error(r) PROVE CreatedInv'
  <2>1. /\ tpc[r] # "none" /\ UNCHANGED <<call, hpc>>
        /\ \E step \in TaskSteps \cup {"done"} : tpc' = [tpc EXCEPT ![r] = step]
    BY <1>5 DEF task_step, fork, resolve, resolve_source, plan_start, save_plan, dispatch_failed, task_raises,
                dispatch_failed_error, raise, Task, handler, TaskSteps
  <2>2. QED
    BY <1>t, <1>k, <2>1, CreatedFrame DEF CreatedInv, Created
<1>6. ASSUME NEW m \in Managers, crash(m) PROVE CreatedInv'
  <2>1. /\ UNCHANGED call
        /\ \A q \in Requests : hpc'[q] \in {hpc[q], "dead"}
        /\ \A q \in Requests : tpc'[q] = tpc[q] \/ (tpc[q] \in TaskSteps /\ tpc'[q] = "dead")
    BY <1>6 DEF crash
  <2>2. QED
    BY <1>k, <2>1, CreatedFrame DEF CreatedInv, Created, TaskSteps
<1>7. ASSUME NEW m \in Managers,
             (\E found \in Registries : restart(m, found)) \/ \E i \in Ids : recover_plan(m, i)
      PROVE  CreatedInv'
  BY <1>7, <1>k, CreatedFrame DEF restart, recover_plan, handler, task, CreatedInv, Created
<1>8. QED
  BY <1>1, <1>2, <1>3, <1>4, <1>5, <1>6, <1>7, <1>k, CreatedHandler DEF Next, Requests

LEMMA Core == Spec => [](TypeOK /\ CreatedInv /\ CallInv)
BY TypeInit, CreatedInit, CallInit, TypeNext, CreatedNext, CallNext, PTL DEF Spec

\* Every field keeps its type, and tasks, handlers and objects exist where a
\* step of theirs is taken.
THEOREM TypeCorrect == Spec => []TypeOK
BY Core, PTL

\* Of the requests under one id, whichever managers they race through, at most
\* one is accepted and gets a task; the row is the one it was accepted with.
THEOREM ExecutionsHaveOneTask == Spec => []OneTask
<1>1. CreatedInv => OneTask
  BY DEF CreatedInv, Created, OneTask
<1>2. QED
  BY Core, <1>1, PTL

----------------------------------------------------------------------------
(* OwnPlan: a task works on an object of its own, which holds what its     *)
(* request resolved to.                                                    *)

TaskInv ==
  \A r \in Requests :
    /\ tpc[r] \in {"resolve", "define_jobs", "start", "plan"} => ref[r] = r
    /\ tpc[r] \in {"define_jobs", "start", "plan"} => inst[r].params = resolved(r)
    /\ tpc[r] \in {"start", "plan"} => inst[r].source = define_jobs(call[r].name, resolved(r))
    /\ tpc[r] = "plan" => context[r] = resolved(r)

LEMMA TaskInit == Init => TaskInv /\ OwnPlan
BY DEF Init, TaskInv, OwnPlan

\* Where a request stays at its step, or leaves the steps that use its object.
LEMMA TaskFrame ==
  ASSUME TaskInv,
         \A r \in Requests : tpc'[r] \in {"resolve", "define_jobs", "start", "plan"} =>
            /\ tpc'[r] = tpc[r] /\ ref'[r] = ref[r] /\ inst'[r] = inst[r]
            /\ context'[r] = context[r] /\ call'[r] = call[r]
  PROVE  TaskInv'
BY DEF TaskInv, resolved

\* A task moves on its own object only.
LEMMA TaskOwnStep ==
  ASSUME TypeOK, CreatedInv, TaskInv, NEW r \in Requests, task_step(r) \/ task_raises(r) \/ dispatch_failed_error(r)
  PROVE  TaskInv'
<1>t. /\ tpc \in [Requests -> TaskSteps \cup {"none", "done", "dead"}] /\ ref \in [Requests -> Objects \cup {NoObject}]
      /\ context \in [Requests -> Params \cup {Unset}] /\ inst \in [Objects -> Plan]
      /\ Requests \subseteq Objects
  BY TypeParts DEF TypeTasks, Objects
<1>p. inst[r] \in Plan
  BY <1>t
<1>c. UNCHANGED call
  BY DEF task_step, fork, resolve, resolve_source, plan_start, save_plan, dispatch_failed, task_raises,
         dispatch_failed_error
<1> DEFINE Others == \A q \in Requests \ {r} : /\ tpc'[q] = tpc[q] /\ ref'[q] = ref[q]
                                               /\ inst'[q] = inst[q] /\ context'[q] = context[q]
<1>o. ASSUME Others,
             /\ tpc'[r] \in {"resolve", "define_jobs", "start", "plan"} => ref'[r] = r
             /\ tpc'[r] \in {"define_jobs", "start", "plan"} => inst'[r].params = resolved(r)
             /\ tpc'[r] \in {"start", "plan"} => inst'[r].source = define_jobs(call[r].name, resolved(r))
             /\ tpc'[r] = "plan" => context'[r] = resolved(r)
      PROVE  TaskInv'
  BY <1>o, <1>c DEF TaskInv, resolved
<1>1. CASE fork(r)
  <2>1. Others /\ tpc'[r] \in {"resolve", "raised"} /\ (tpc'[r] = "resolve" => ref'[r] = r)
    BY <1>1, <1>t DEF fork, raise
  <2>2. QED
    BY <2>1, <1>o
<1>2. CASE resolve(r)
  <2>0. tpc[r] = "resolve" /\ ref[r] = r
    BY <1>2 DEF resolve, Task, TaskInv
  <2>1. CASE validate(call[r].name, resolved(r))
    <3>1. /\ inst' = [inst EXCEPT ![r].params = resolved(r)] /\ tpc' = [tpc EXCEPT ![r] = "define_jobs"]
          /\ UNCHANGED <<ref, context>>
      BY <1>2, <2>0, <2>1 DEF resolve
    <3>2. Others /\ tpc'[r] = "define_jobs" /\ ref'[r] = r /\ inst'[r] = [inst[r] EXCEPT !.params = resolved(r)]
      BY <1>t, <2>0, <3>1
    <3>3. inst'[r].params = resolved(r)
      BY <1>p, <3>2 DEF Plan
    <3>4. QED
      BY <3>2, <3>3, <1>o
  <2>2. CASE ~validate(call[r].name, resolved(r))
    <3>1. Others /\ tpc'[r] = "raised"
      BY <1>2, <2>2, <1>t DEF resolve, raise
    <3>2. QED
      BY <3>1, <1>o
  <2>3. QED
    BY <2>1, <2>2
<1>3. CASE resolve_source(r)
  <2>0. tpc[r] = "define_jobs" /\ ref[r] = r /\ inst[r].params = resolved(r)
    BY <1>3 DEF resolve_source, Task, TaskInv
  <2>1. /\ inst' = [inst EXCEPT ![r].source = define_jobs(call[r].name, resolved(r))]
        /\ tpc' = [tpc EXCEPT ![r] = "start"] /\ UNCHANGED <<ref, context>>
    BY <1>3, <2>0 DEF resolve_source
  <2>2. Others /\ tpc'[r] = "start" /\ ref'[r] = r
        /\ inst'[r] = [inst[r] EXCEPT !.source = define_jobs(call[r].name, resolved(r))]
    BY <1>t, <2>0, <2>1
  <2>3. inst'[r].params = resolved(r) /\ inst'[r].source = define_jobs(call[r].name, resolved(r))
    BY <1>p, <2>0, <2>2 DEF Plan
  <2>4. QED
    BY <2>2, <2>3, <1>o
<1>4. CASE plan_start(r)
  <2>0. /\ tpc[r] = "start" /\ ref[r] = r /\ inst[r].params = resolved(r)
        /\ inst[r].source = define_jobs(call[r].name, resolved(r))
    BY <1>4 DEF plan_start, Task, TaskInv
  <2>1. Others /\ tpc'[r] = "plan" /\ ref'[r] = r /\ inst'[r] = inst[r] /\ context'[r] = inst[r].params
    BY <1>4, <1>t, <2>0 DEF plan_start
  <2>2. QED
    BY <2>0, <2>1, <1>o
<1>5. CASE save_plan(r) \/ dispatch_failed(r) \/ dispatch_failed_error(r)
  <2>1. Others /\ tpc'[r] = "done"
    BY <1>5, <1>t DEF save_plan, dispatch_failed, dispatch_failed_error
  <2>2. QED
    BY <2>1, <1>o
<1>6. CASE task_raises(r)
  <2>1. Others /\ tpc'[r] = "raised"
    BY <1>6, <1>t DEF task_raises, raise
  <2>2. QED
    BY <2>1, <1>o
<1>7. QED
  BY <1>1, <1>2, <1>3, <1>4, <1>5, <1>6 DEF task_step

LEMMA TaskNext == TypeOK /\ CreatedInv /\ TaskInv /\ [Next]_vars => TaskInv'
<1> SUFFICES ASSUME TypeOK, CreatedInv, TaskInv, [Next]_vars PROVE TaskInv'
  OBVIOUS
<1>t. /\ tpc \in [Requests -> TaskSteps \cup {"none", "done", "dead"}]
      /\ call \in [Requests -> Call \cup {NoCall}]
      /\ inst \in [Objects -> Plan] /\ Requests \subseteq Objects
  BY TypeParts DEF TypeTasks, TypeCall, Objects
<1>n. \A r \in Requests : call[r] = NoCall => tpc[r] = "none"
  BY TypeParts DEF TypeSteps
<1>1. CASE UNCHANGED vars
  BY <1>1, TaskFrame DEF vars
<1>2. ASSUME NEW r \in GatewayCalls, gateway_step(r) PROVE TaskInv'
  BY <1>2, TaskFrame DEF gateway_step, execute, post_refused, post_timeout, execute_raises, task
<1>3. ASSUME NEW r \in Requests,
             \/ \E n \in Names, v \in Params : run_route(r, n, v)
             \/ \E n \in Names, v \in Params, i \in Ids : post_run(r, n, v, i)
             \/ \E m \in Managers, n \in Names, v \in Params : run_pipeline_now(r, m, n, v)
      PROVE  TaskInv'
  <2>1. /\ call[r] = NoCall /\ UNCHANGED <<ref, inst, context>>
        /\ UNCHANGED tpc \/ tpc' = [tpc EXCEPT ![r] = "queued"]
        /\ UNCHANGED call \/ \E c : call' = [call EXCEPT ![r] = c]
    BY <1>3 DEF run_route, post_run, run_pipeline_now, may_ask, task
  <2>2. QED
    BY <1>t, <1>n, <2>1, TaskFrame
<1>4. ASSUME NEW r \in Requests, handler_step(r) \/ \E committed \in BOOLEAN : run_raises(r, committed)
      PROVE  TaskInv'
  <2>1. /\ UNCHANGED <<ref, inst, context, call>>
        /\ UNCHANGED tpc \/ tpc' = [tpc EXCEPT ![r] = "queued"]
    BY <1>4 DEF handler_step, run_pipeline, create_execution, accept, run_raises, task
  <2>2. QED
    BY <1>t, <2>1, TaskFrame
<1>5. ASSUME NEW m \in Managers, crash(m) PROVE TaskInv'
  <2>1. \A q \in Requests : tpc'[q] \in {tpc[q], "dead"}
    BY <1>5 DEF crash
  <2>2. \A q \in Requests : q \notin {m} \X Names
    BY SpecialValuesAssumption
  <2>3. \A q \in Requests : inst'[q] = inst[q]
    BY <1>5, <1>t, <2>2 DEF crash
  <2>4. QED
    BY <1>5, <2>1, <2>3, TaskFrame DEF crash
<1>6. ASSUME NEW m \in Managers,
             (\E found \in Registries : restart(m, found)) \/ \E i \in Ids : recover_plan(m, i)
      PROVE  TaskInv'
  BY <1>6, TaskFrame DEF restart, recover_plan, task
<1>7. QED
  BY <1>1, <1>2, <1>3, <1>4, <1>5, <1>6, TaskOwnStep DEF Next, Requests

LEMMA PlanNext == TypeOK /\ CreatedInv /\ CallInv /\ TaskInv /\ OwnPlan /\ [Next]_vars => OwnPlan'
<1> SUFFICES ASSUME TypeOK, CreatedInv, CallInv, TaskInv, OwnPlan, [Next]_vars PROVE OwnPlan'
  OBVIOUS
<1>k. RowsKept
  BY RowsNext
<1>1. CASE UNCHANGED plan
  BY <1>1, <1>k DEF OwnPlan, RowsKept
<1>2. ASSUME NEW r \in Requests, save_plan(r) PROVE OwnPlan'
  <2>1. tpc[r] = "plan"
    BY <1>2 DEF save_plan, Task
  <2>2. /\ call[r].id \in Ids /\ row[call[r].id] # NoRow
        /\ row[call[r].id].name = call[r].name /\ row[call[r].id].value = call[r].value
    BY <2>1, CallMade, TypeParts DEF CreatedInv, Created, TypeSteps
  <2>3. /\ row'[call[r].id] # NoRow
        /\ row'[call[r].id].name = call[r].name /\ row'[call[r].id].value = call[r].value
    BY <2>2, <1>k DEF RowsKept
  <2>4. plan' = [plan EXCEPT ![call[r].id] =
                    [params |-> resolved(r), source |-> define_jobs(call[r].name, resolved(r))]]
    BY <1>2, <2>1 DEF save_plan, TaskInv
  <2>5. /\ plan'[call[r].id] = [params |-> resolved(r), source |-> define_jobs(call[r].name, resolved(r))]
        /\ \A i \in Ids \ {call[r].id} : plan'[i] = plan[i]
    BY <2>2, <2>4, TypeParts DEF TypeTables
  <2> SUFFICES ASSUME NEW i \in Ids, plan'[i] # NoPlan
               PROVE  /\ row'[i] # NoRow
                      /\ plan'[i] = [params |-> apply_defaults(row'[i].name, row'[i].value),
                                     source |-> define_jobs(row'[i].name, apply_defaults(row'[i].name, row'[i].value))]
    BY DEF OwnPlan
  <2>6. CASE i = call[r].id
    BY <2>3, <2>5, <2>6 DEF resolved
  <2>7. CASE i # call[r].id
    BY <2>5, <2>7, <1>k DEF OwnPlan, RowsKept
  <2>8. QED
    BY <2>6, <2>7
<1>3. CASE Next
  <2>1. ASSUME NEW r \in Requests, task_step(r) \/ task_raises(r) \/ dispatch_failed_error(r) PROVE OwnPlan'
    BY <2>1, <1>1, <1>2 DEF task_step, fork, resolve, resolve_source, plan_start, dispatch_failed, task_raises,
                            dispatch_failed_error
  <2>2. ASSUME NEW r \in Requests, handler_step(r) \/ \E committed \in BOOLEAN : run_raises(r, committed)
        PROVE  OwnPlan'
    BY <2>2, <1>1 DEF handler_step, run_pipeline, create_execution, accept, run_raises
  <2>3. ASSUME NEW r \in GatewayCalls, gateway_step(r) \/ \E n \in Names, v \in Params : run_route(r, n, v)
        PROVE  OwnPlan'
    BY <2>3, <1>1 DEF gateway_step, execute, post_refused, post_timeout, execute_raises, run_route
  <2>4. ASSUME NEW r \in Requests,
             \/ \E n \in Names, v \in Params, i \in Ids : post_run(r, n, v, i)
             \/ \E m \in Managers, n \in Names, v \in Params : run_pipeline_now(r, m, n, v)
        PROVE  OwnPlan'
    BY <2>4, <1>1 DEF post_run, run_pipeline_now
  <2>5. ASSUME NEW m \in Managers,
             crash(m) \/ (\E found \in Registries : restart(m, found)) \/ \E i \in Ids : recover_plan(m, i)
        PROVE  OwnPlan'
    BY <2>5, <1>1 DEF crash, restart, recover_plan
  <2>6. QED
    BY <1>3, <2>1, <2>2, <2>3, <2>4, <2>5 DEF Next, Requests
<1>4. QED
  BY <1>1, <1>3 DEF vars

\* The jobs an execution is planned with carry its own request's parameters, and
\* the source they read was defined from them: tasks of one pipeline share the
\* registered instance but resolve a fork of it.
THEOREM PlansAreOwn == Spec => []OwnPlan
BY Core, TaskInit, TaskNext, PlanNext, PTL DEF Spec

----------------------------------------------------------------------------
(* AcceptedCanRun: what /run checked still holds when the task looks, in   *)
(* the same process.                                                       *)

Active(r) == hpc[r] \in HandlerSteps \/ tpc[r] \in TaskSteps

RunInv ==
  /\ \A r \in Requests : Active(r) => up[at[r]]
  /\ \A r \in Requests : hpc[r] \in HandlerSteps \/ tpc[r] = "queued" => call[r].name \in registry[at[r]]
  /\ \A r \in GatewayCalls \cup DirectCalls :
        hpc[r] \in HandlerSteps \/ tpc[r] \in {"queued", "resolve"} => validate(call[r].name, resolved(r))
  /\ AcceptedCanRun

LEMMA RunInit == Init => RunInv
BY DEF Init, RunInv, Active, AcceptedCanRun, HandlerSteps, TaskSteps, Requests

\* No request becomes active or goes on in another process; no cause is added.
LEMMA RunFrame ==
  ASSUME RunInv,
         \A r \in Requests : Active(r)' =>
            /\ hpc'[r] \in HandlerSteps => hpc[r] \in HandlerSteps
            /\ tpc'[r] \in TaskSteps => tpc'[r] = tpc[r]
            /\ call'[r] = call[r] /\ at'[r] = at[r]
            /\ up'[at[r]] = up[at[r]] /\ registry'[at[r]] = registry[at[r]],
         \A r \in Requests : cause'[r] \in {cause[r], "other"}
  PROVE  RunInv'
BY DEF RunInv, Active, AcceptedCanRun, resolved, Requests, TaskSteps, HandlerSteps

LEMMA RunHandler ==
  ASSUME TypeOK, CreatedInv, RunInv, NEW r \in Requests,
         handler_step(r) \/ \E committed \in BOOLEAN : run_raises(r, committed)
  PROVE  RunInv'
<1>t. /\ hpc \in [Requests -> {"none", "sent", "create", "reset", "answered", "dead"}]
      /\ tpc \in [Requests -> TaskSteps \cup {"none", "done", "dead"}]
      /\ at \in [Requests -> Managers \cup {NoManager}]
  BY TypeParts DEF TypeHandlers, TypeTasks
<1>u. UNCHANGED <<up, registry, call, cause>>
  BY DEF handler_step, run_pipeline, create_execution, accept, run_raises, process, task
<1>1. ASSUME NEW m \in Managers, run_pipeline(r, m) PROVE RunInv'
  <2>0. /\ hpc[r] = "sent" /\ tpc[r] = "none" /\ up[m] /\ UNCHANGED tpc
        /\ at' = [at EXCEPT ![r] = m]
    BY <1>1 DEF run_pipeline, CreatedInv, task
  <2>1. CASE checked(m, call[r]) = 202
    <3>1. call[r].name \in registry[m] /\ validate(call[r].name, resolved(r))
      BY <2>1 DEF checked, resolved
    <3>2. hpc' = [hpc EXCEPT ![r] = "create"]
      BY <1>1, <2>1 DEF run_pipeline
    <3>3. /\ at'[r] = m /\ hpc'[r] = "create" /\ tpc'[r] = "none"
          /\ \A q \in Requests \ {r} : at'[q] = at[q] /\ hpc'[q] = hpc[q] /\ tpc'[q] = tpc[q]
      BY <1>t, <2>0, <3>2
    <3>4. QED
      BY <1>u, <2>0, <3>1, <3>3 DEF RunInv, Active, AcceptedCanRun, resolved, HandlerSteps, TaskSteps, Requests
  <2>2. CASE checked(m, call[r]) # 202
    <3>1. hpc' = [hpc EXCEPT ![r] = "answered"]
      BY <1>1, <2>2 DEF run_pipeline, finish
    <3>2. /\ hpc'[r] = "answered" /\ tpc'[r] = "none"
          /\ \A q \in Requests \ {r} : at'[q] = at[q] /\ hpc'[q] = hpc[q] /\ tpc'[q] = tpc[q]
      BY <1>t, <2>0, <3>1
    <3>3. QED
      BY <1>u, <3>2, RunFrame DEF Active, HandlerSteps, TaskSteps
  <2>3. QED
    BY <2>1, <2>2
<1>2. CASE create_execution(r)
  <2>1. /\ hpc[r] = "create" /\ UNCHANGED <<tpc, at>>
        /\ \E step \in {"reset", "answered"} : hpc' = [hpc EXCEPT ![r] = step]
    BY <1>2 DEF create_execution, finish, task
  <2>2. QED
    BY <1>t, <1>u, <2>1, RunFrame DEF Active, HandlerSteps
<1>3. CASE accept(r)
  <2>1. /\ hpc[r] = "reset" /\ hpc' = [hpc EXCEPT ![r] = "answered"] /\ UNCHANGED at
        /\ tpc' = [tpc EXCEPT ![r] = "queued"]
    BY <1>3 DEF accept, finish
  <2>2. /\ hpc'[r] = "answered" /\ tpc'[r] = "queued"
        /\ \A q \in Requests \ {r} : hpc'[q] = hpc[q] /\ tpc'[q] = tpc[q]
    BY <1>t, <2>1
  <2>3. QED
    BY <1>u, <2>1, <2>2 DEF RunInv, Active, AcceptedCanRun, resolved, HandlerSteps, TaskSteps, Requests
<1>4. ASSUME NEW committed \in BOOLEAN, run_raises(r, committed) PROVE RunInv'
  <2>1. hpc' = [hpc EXCEPT ![r] = "answered"] /\ UNCHANGED <<tpc, at>>
    BY <1>4 DEF run_raises, finish, task
  <2>2. QED
    BY <1>t, <1>u, <2>1, RunFrame DEF Active, HandlerSteps
<1>5. QED
  BY <1>1, <1>2, <1>3, <1>4 DEF handler_step

LEMMA RunTask ==
  ASSUME TypeOK, RunInv, NEW r \in Requests, task_step(r) \/ task_raises(r) \/ dispatch_failed_error(r)
  PROVE  RunInv'
<1>t. /\ tpc \in [Requests -> TaskSteps \cup {"none", "done", "dead"}]
      /\ cause \in [Requests -> {"none", "missing", "params", "other"}]
  BY TypeParts DEF TypeTasks
<1>u. UNCHANGED <<up, registry, call, hpc, at>>
  BY DEF task_step, fork, resolve, resolve_source, plan_start, save_plan, dispatch_failed, task_raises,
         dispatch_failed_error, process, handler
<1>0. tpc[r] \in TaskSteps /\ up[at[r]]
  BY DEF task_step, fork, resolve, resolve_source, plan_start, save_plan, dispatch_failed, task_raises,
         dispatch_failed_error, Task, TaskSteps
<1>1. ASSUME NEW step \in TaskSteps \cup {"done"}, tpc' = [tpc EXCEPT ![r] = step], step # "queued",
             \A q \in Requests : cause'[q] \in {cause[q], "other"} \/ (q = r /\ q \notin GatewayCalls \cup DirectCalls),
             step = "resolve" => tpc[r] = "queued"
      PROVE  RunInv'
  <2>1. tpc'[r] = step /\ \A q \in Requests \ {r} : tpc'[q] = tpc[q]
    BY <1>t, <1>1
  <2>2. \A q \in GatewayCalls \cup DirectCalls : q \in Requests
    BY DEF Requests
  <2>3. \A q \in GatewayCalls \cup DirectCalls : cause'[q] \in {"none", "other"}
    BY <1>1, <2>2 DEF RunInv, AcceptedCanRun
  <2>4. \A q \in Requests : (hpc'[q] \in HandlerSteps \/ tpc'[q] \in TaskSteps) => up'[at'[q]]
    BY <1>0, <1>u, <2>1 DEF RunInv, Active
  <2>5. \A q \in Requests : hpc'[q] \in HandlerSteps \/ tpc'[q] = "queued" => call'[q].name \in registry'[at'[q]]
    BY <1>1, <1>u, <2>1 DEF RunInv
  <2>6. \A q \in GatewayCalls \cup DirectCalls :
           hpc'[q] \in HandlerSteps \/ tpc'[q] \in {"queued", "resolve"} =>
             validate(call'[q].name, apply_defaults(call'[q].name, call'[q].value))
    BY <1>1, <1>u, <2>1, <2>2 DEF RunInv, resolved
  <2>7. QED
    BY <2>3, <2>4, <2>5, <2>6 DEF RunInv, Active, AcceptedCanRun, resolved
<1>2. CASE fork(r)
  <2>1. call[r].name \in registry[at[r]] /\ tpc[r] = "queued"
    BY <1>2 DEF fork, Task, RunInv
  <2>2. tpc' = [tpc EXCEPT ![r] = "resolve"] /\ UNCHANGED cause
    BY <1>2, <2>1 DEF fork
  <2>3. QED
    BY <1>1, <2>1, <2>2 DEF TaskSteps
<1>3. CASE resolve(r)
  <2>0. tpc[r] = "resolve"
    BY <1>3 DEF resolve, Task
  <2>1. CASE r \in GatewayCalls \cup DirectCalls
    <3>1. validate(call[r].name, resolved(r))
      BY <2>0, <2>1 DEF RunInv
    <3>2. tpc' = [tpc EXCEPT ![r] = "define_jobs"] /\ UNCHANGED cause
      BY <1>3, <3>1 DEF resolve
    <3>3. QED
      BY <1>1, <3>2 DEF TaskSteps
  <2>2. CASE r \notin GatewayCalls \cup DirectCalls
    <3>1. /\ \E step \in {"define_jobs", "raised"} : tpc' = [tpc EXCEPT ![r] = step]
          /\ UNCHANGED cause \/ cause' = [cause EXCEPT ![r] = "params"]
      BY <1>3 DEF resolve, raise
    <3>2. \A q \in Requests : cause'[q] = cause[q] \/ q = r
      BY <1>t, <3>1
    <3>3. QED
      BY <1>1, <2>2, <3>1, <3>2 DEF TaskSteps
  <2>3. QED
    BY <2>1, <2>2
<1>4. CASE resolve_source(r) \/ plan_start(r) \/ save_plan(r) \/ dispatch_failed(r) \/ dispatch_failed_error(r)
  <2>1. /\ \E step \in {"start", "plan", "done"} : tpc' = [tpc EXCEPT ![r] = step]
        /\ UNCHANGED cause
    BY <1>4 DEF resolve_source, plan_start, save_plan, dispatch_failed, dispatch_failed_error
  <2>2. QED
    BY <1>1, <2>1 DEF TaskSteps
<1>5. CASE task_raises(r)
  <2>1. tpc' = [tpc EXCEPT ![r] = "raised"] /\ cause' = [cause EXCEPT ![r] = "other"]
    BY <1>5 DEF task_raises, raise
  <2>2. \A q \in Requests : cause'[q] \in {cause[q], "other"}
    BY <1>t, <2>1
  <2>3. QED
    BY <1>1, <2>1, <2>2 DEF TaskSteps
<1>6. QED
  BY <1>2, <1>3, <1>4, <1>5 DEF task_step

LEMMA RunNext == TypeOK /\ CreatedInv /\ RunInv /\ [Next]_vars => RunInv'
<1> SUFFICES ASSUME TypeOK, CreatedInv, RunInv, [Next]_vars PROVE RunInv'
  OBVIOUS
<1>t. /\ tpc \in [Requests -> TaskSteps \cup {"none", "done", "dead"}]
      /\ hpc \in [Requests -> {"none", "sent", "create", "reset", "answered", "dead"}]
      /\ call \in [Requests -> Call \cup {NoCall}]
      /\ at \in [Requests -> Managers \cup {NoManager}]
      /\ up \in [Managers -> BOOLEAN] /\ registry \in [Managers -> SUBSET Names]
  BY TypeParts DEF TypeTasks, TypeHandlers, TypeCall, TypeProcess
<1>n. \A r \in Requests : call[r] = NoCall => hpc[r] = "none" /\ tpc[r] = "none"
  BY TypeParts DEF TypeSteps
<1>1. CASE UNCHANGED vars
  BY <1>1, RunFrame DEF vars, Active
<1>2. ASSUME NEW r \in GatewayCalls, gateway_step(r) PROVE RunInv'
  <2>1. /\ UNCHANGED <<up, registry, call, at, tpc, cause>>
        /\ UNCHANGED hpc \/ hpc' = [hpc EXCEPT ![r] = "none"]
    BY <1>2 DEF gateway_step, execute, post_refused, post_timeout, execute_raises, process, handler, task
  <2>2. QED
    BY <1>t, <2>1, RunFrame DEF HandlerSteps
<1>3. ASSUME NEW r \in Requests,
             \/ \E n \in Names, v \in Params : run_route(r, n, v)
             \/ \E n \in Names, v \in Params, i \in Ids : post_run(r, n, v, i)
      PROVE  RunInv'
  <2>1. /\ call[r] = NoCall /\ UNCHANGED <<up, registry, at, tpc, cause>>
        /\ UNCHANGED hpc \/ hpc' = [hpc EXCEPT ![r] = "sent"]
        /\ UNCHANGED call \/ \E c : call' = [call EXCEPT ![r] = c]
    BY <1>3 DEF run_route, post_run, may_ask, process, task
  <2>2. \A q \in Requests : call'[q] = call[q] \/ (q = r /\ tpc[r] = "none" /\ hpc'[r] \in {"none", "sent"})
    BY <1>t, <1>n, <2>1
  <2>3. QED
    BY <1>t, <2>1, <2>2, RunFrame DEF Active, HandlerSteps, TaskSteps
<1>4. ASSUME NEW r \in DeadLetterRuns, NEW m \in Managers, NEW n \in Names, NEW v \in Params,
             run_pipeline_now(r, m, n, v)
      PROVE  RunInv'
  <2>0. r \in Requests /\ r \notin GatewayCalls \cup DirectCalls
    BY RequestsAssumption DEF Requests
  <2>1. /\ call[r] = NoCall /\ up[m] /\ UNCHANGED <<up, registry, hpc, cause>>
        /\ at' = [at EXCEPT ![r] = m]
        /\ call' = [call EXCEPT ![r] = [name |-> n, value |-> v, id |-> r]]
        /\ \/ n \in registry[m] /\ tpc' = [tpc EXCEPT ![r] = "queued"]
           \/ UNCHANGED tpc
    BY <1>4 DEF run_pipeline_now, may_ask, process
  <2>2. /\ hpc'[r] = "none" /\ at'[r] = m /\ call'[r].name = n
        /\ tpc'[r] = "none" \/ (tpc'[r] = "queued" /\ n \in registry[m])
        /\ \A q \in Requests \ {r} : call'[q] = call[q] /\ at'[q] = at[q] /\ tpc'[q] = tpc[q] /\ hpc'[q] = hpc[q]
    BY <1>t, <1>n, <2>0, <2>1
  <2>3. QED
    BY <2>0, <2>1, <2>2 DEF RunInv, Active, AcceptedCanRun, resolved, HandlerSteps, TaskSteps, Requests
<1>5. ASSUME NEW m \in Managers, crash(m) PROVE RunInv'
  <2>1. /\ UNCHANGED <<registry, call, at, cause>>
        /\ \A q \in Requests : at[q] = m => hpc'[q] \notin HandlerSteps /\ tpc'[q] \notin TaskSteps
        /\ \A q \in Requests : at[q] # m => hpc'[q] = hpc[q] /\ tpc'[q] = tpc[q]
    BY <1>5 DEF crash, HandlerSteps, TaskSteps
  <2>2. \A k \in Managers \ {m} : up'[k] = up[k]
    BY <1>5, <1>t DEF crash
  <2>3. \A q \in Requests : Active(q) => at[q] \in Managers
    BY TypeParts DEF TypeSteps, Active, TaskSteps
  <2>4. QED
    BY <2>1, <2>2, <2>3, RunFrame DEF Active
<1>6. ASSUME NEW m \in Managers, NEW found \in Registries, restart(m, found) PROVE RunInv'
  <2>1. /\ UNCHANGED <<call, at, hpc, tpc, cause>> /\ ~up[m]
        /\ \A k \in Managers \ {m} : up'[k] = up[k] /\ registry'[k] = registry[k]
    BY <1>6, <1>t DEF restart, handler, task
  <2>2. \A q \in Requests : Active(q) => at[q] \in Managers \ {m}
    BY <2>1, TypeParts DEF TypeSteps, Active, TaskSteps, RunInv
  <2>3. QED
    BY <2>1, <2>2, RunFrame DEF Active
<1>7. ASSUME NEW m \in Managers, NEW i \in Ids, recover_plan(m, i) PROVE RunInv'
  BY <1>7, RunFrame DEF recover_plan, handler, task, Active
<1>8. QED
  BY <1>1, <1>2, <1>3, <1>4, <1>5, <1>6, <1>7, RunHandler, RunTask DEF Next, Requests

\* An accepted request does not fail in the background for its parameters or for
\* an unknown pipeline: the registry changes only with the process, and then the task is gone.
THEOREM AcceptedRequestsCanRun == Spec => []AcceptedCanRun
<1>1. RunInv => AcceptedCanRun
  BY DEF RunInv
<1>2. QED
  BY <1>1, Core, RunInit, RunNext, PTL DEF Spec

----------------------------------------------------------------------------
(* VerdictHolds: before its commit and after a rejection a gateway call    *)
(* has no row, and nobody else writes under its id.  A call the gateway    *)
(* has finished is not sent again.                                         *)

Rejected(r) == hpc[r] = "answered" /\ answer[r] \in {404, 409, 422}
Accepted(r) == hpc[r] = "answered" /\ answer[r] = 202
NotSent(r) == hpc[r] = "none" /\ answer[r] = 0

VerdictInv ==
  \A r \in GatewayCalls :
    /\ hpc[r] \in {"none", "sent", "create"} \/ Rejected(r) => row[r] = NoRow /\ tpc[r] = "none"
    /\ Accepted(r) => tpc[r] # "none"
    /\ hpc[r] \in {"none", "sent"} => answer[r] = 0
    /\ hpc[r] = "answered" => answer[r] # 0
    /\ tracker[r] # "none" => gpc[r] = "done"
    /\ tracker[r] = "running" => Accepted(r)
    /\ tracker[r] = "rejected" => NotSent(r) \/ Rejected(r) \/ Accepted(r)

LEMMA VerdictInit == Init => VerdictInv
BY DEF Init, VerdictInv, Rejected, Accepted, NotSent, Requests, Ids

\* A call that a step leaves alone.
Untouched(r) ==
  /\ hpc'[r] = hpc[r] /\ answer'[r] = answer[r] /\ tracker'[r] = tracker[r] /\ gpc'[r] = gpc[r]
  /\ tpc'[r] = "none" <=> tpc[r] = "none"
  /\ row[r] = NoRow => row'[r] = NoRow

LEMMA VerdictFrame ==
  ASSUME VerdictInv, \A r \in GatewayCalls : Untouched(r)
  PROVE  VerdictInv'
BY DEF VerdictInv, Rejected, Accepted, NotSent, Untouched

\* A step of r only.
LEMMA VerdictOne ==
  ASSUME VerdictInv, NEW r, \A q \in GatewayCalls \ {r} : Untouched(q),
         r \in GatewayCalls =>
           /\ hpc'[r] \in {"none", "sent", "create"} \/ Rejected(r)' => row'[r] = NoRow /\ tpc'[r] = "none"
           /\ Accepted(r)' => tpc'[r] # "none"
           /\ hpc'[r] \in {"none", "sent"} => answer'[r] = 0
           /\ hpc'[r] = "answered" => answer'[r] # 0
           /\ tracker'[r] # "none" => gpc'[r] = "done"
           /\ tracker'[r] = "running" => Accepted(r)'
           /\ tracker'[r] = "rejected" => NotSent(r)' \/ Rejected(r)' \/ Accepted(r)'
  PROVE  VerdictInv'
BY DEF VerdictInv, Rejected, Accepted, NotSent, Untouched

LEMMA VerdictGateway ==
  ASSUME TypeOK, VerdictInv, NEW r \in GatewayCalls,
         gateway_step(r) \/ \E n \in Names, v \in Params : run_route(r, n, v)
  PROVE  VerdictInv'
<1>t. /\ hpc \in [Requests -> {"none", "sent", "create", "reset", "answered", "dead"}]
      /\ answer \in [Requests -> {0, 202, 404, 409, 422, 500}]
      /\ tracker \in [GatewayCalls -> {"none", "running", "upstream", "rejected"}]
      /\ gpc \in [GatewayCalls -> {"idle", "waiting", "done"}]
      /\ GatewayCalls \subseteq Requests
  BY TypeParts DEF TypeGateway, TypeHandlers, Requests
<1>1. CASE execute(r)
  <2>1. /\ hpc[r] = "answered" /\ tracker' = [tracker EXCEPT ![r] = verdict(answer[r])]
        /\ gpc' = [gpc EXCEPT ![r] = "done"]
        /\ UNCHANGED <<hpc, answer, tpc, row>>
    BY <1>1 DEF execute, track, handler, task
  <2>2. answer[r] \in {0, 202, 404, 409, 422, 500}
    BY <1>t
  <2>3. /\ verdict(answer[r]) = "running" => answer[r] = 202
        /\ verdict(answer[r]) = "rejected" => answer[r] \in {404, 409, 422}
    BY <2>2 DEF verdict
  <2>4. /\ tracker'[r] = verdict(answer[r]) /\ gpc'[r] = "done"
        /\ \A q \in GatewayCalls \ {r} : tracker'[q] = tracker[q] /\ gpc'[q] = gpc[q]
    BY <1>t, <2>1
  <2>5. QED
    BY <2>1, <2>3, <2>4, VerdictOne DEF VerdictInv, Rejected, Accepted, NotSent, Untouched
<1>2. CASE post_refused(r) \/ post_timeout(r)
  <2>1. verdict(0) = "upstream"
    BY DEF verdict
  <2>2. /\ tracker' = [tracker EXCEPT ![r] = "upstream"] /\ gpc' = [gpc EXCEPT ![r] = "done"]
        /\ UNCHANGED hpc \/ (hpc[r] = "sent" /\ hpc' = [hpc EXCEPT ![r] = "none"])
        /\ UNCHANGED <<answer, tpc, row>>
    BY <1>2, <2>1 DEF post_refused, post_timeout, track, handler, task
  <2>3. /\ tracker'[r] = "upstream" /\ gpc'[r] = "done"
        /\ hpc'[r] = hpc[r] \/ (hpc[r] = "sent" /\ hpc'[r] = "none")
        /\ \A q \in GatewayCalls \ {r} : tracker'[q] = tracker[q] /\ hpc'[q] = hpc[q] /\ gpc'[q] = gpc[q]
    BY <1>t, <2>2
  <2>4. QED
    BY <2>2, <2>3, VerdictOne DEF VerdictInv, Rejected, Accepted, NotSent, Untouched
<1>4. CASE execute_raises(r)
  <2>1. /\ tracker' = [tracker EXCEPT ![r] = "rejected"] /\ gpc' = [gpc EXCEPT ![r] = "done"]
        /\ \/ hpc[r] = "sent" /\ hpc' = [hpc EXCEPT ![r] = "none"]
           \/ hpc[r] = "answered" /\ answer[r] < 400 /\ UNCHANGED hpc
        /\ UNCHANGED <<answer, tpc, row>>
    BY <1>4 DEF execute_raises, track, task
  <2>2. hpc[r] = "answered" => answer[r] # 0
    BY DEF VerdictInv
  <2>3. answer[r] \in {0, 202, 404, 409, 422, 500}
    BY <1>t
  <2>4. hpc[r] = "answered" /\ answer[r] < 400 => answer[r] = 202
    BY <2>2, <2>3
  <2>5. /\ tracker'[r] = "rejected" /\ gpc'[r] = "done"
        /\ (hpc[r] = "sent" /\ hpc'[r] = "none") \/ (hpc'[r] = hpc[r] /\ Accepted(r))
        /\ \A q \in GatewayCalls \ {r} : tracker'[q] = tracker[q] /\ hpc'[q] = hpc[q] /\ gpc'[q] = gpc[q]
    BY <1>t, <2>1, <2>4 DEF Accepted
  <2>6. QED
    BY <2>1, <2>5, VerdictOne DEF VerdictInv, Rejected, Accepted, NotSent, Untouched
<1>3. ASSUME NEW n \in Names, NEW v \in Params, run_route(r, n, v) PROVE VerdictInv'
  <2>1. /\ call[r] = NoCall /\ gpc[r] = "idle" /\ UNCHANGED <<tracker, answer, tpc, row>>
        /\ UNCHANGED hpc \/ hpc' = [hpc EXCEPT ![r] = "sent"]
        /\ \E step \in {"waiting", "done"} : gpc' = [gpc EXCEPT ![r] = step]
    BY <1>3 DEF run_route, may_ask, task
  <2>2. hpc[r] = "none" /\ tracker[r] = "none"
    BY <1>t, <2>1, TypeParts DEF TypeSteps, VerdictInv
  <2>3. hpc'[r] \in {"none", "sent"} /\ \A q \in GatewayCalls \ {r} : hpc'[q] = hpc[q] /\ gpc'[q] = gpc[q]
    BY <1>t, <2>1, <2>2
  <2>4. QED
    BY <2>1, <2>2, <2>3, VerdictOne DEF VerdictInv, Rejected, Accepted, NotSent, Untouched
<1>5. QED
  BY <1>1, <1>2, <1>3, <1>4 DEF gateway_step

LEMMA VerdictHandler ==
  ASSUME TypeOK, CreatedInv, CallInv, VerdictInv, NEW r \in Requests,
         handler_step(r) \/ \E committed \in BOOLEAN : run_raises(r, committed)
  PROVE  VerdictInv'
<1>t. /\ hpc \in [Requests -> {"none", "sent", "create", "reset", "answered", "dead"}]
      /\ answer \in [Requests -> {0, 202, 404, 409, 422, 500}]
      /\ tpc \in [Requests -> TaskSteps \cup {"none", "done", "dead"}]
      /\ row \in [Ids -> Row \cup {NoRow}]
      /\ GatewayCalls \subseteq Requests /\ Requests \subseteq Ids
  BY TypeParts DEF TypeTables, TypeTasks, TypeHandlers, Requests, Ids
<1>0. hpc[r] \in {"sent", "create", "reset"}
  BY DEF handler_step, run_pipeline, create_execution, accept, run_raises, HandlerSteps
<1>c. call[r] # NoCall /\ tpc[r] = "none"
  BY <1>0, TypeParts DEF TypeSteps, CreatedInv
<1>i. /\ r \in GatewayCalls => call[r].id = r
      /\ \A q \in GatewayCalls \ {r} : call[r].id # q
  BY <1>c, <1>t, OwnId DEF CallInv
<1>u. UNCHANGED <<tracker, gpc>>
  BY DEF handler_step, run_pipeline, create_execution, accept, run_raises, gateway
<1>n. r \in GatewayCalls =>
        /\ tracker[r] \notin {"running", "rejected"}
        /\ tracker[r] # "none" => gpc[r] = "done"
  BY <1>0 DEF VerdictInv, Rejected, Accepted, NotSent
<1>1. ASSUME NEW m \in Managers, run_pipeline(r, m) PROVE VerdictInv'
  <2>1. hpc[r] = "sent" /\ UNCHANGED <<tpc, row>>
    BY <1>1 DEF run_pipeline, task
  <2>2. \/ hpc' = [hpc EXCEPT ![r] = "create"] /\ UNCHANGED answer
        \/ /\ hpc' = [hpc EXCEPT ![r] = "answered"]
           /\ answer' = [answer EXCEPT ![r] = checked(m, call[r])] /\ checked(m, call[r]) \notin {0, 202}
    BY <1>1 DEF run_pipeline, finish, checked
  <2>3. /\ \A q \in GatewayCalls \ {r} : hpc'[q] = hpc[q] /\ answer'[q] = answer[q]
        /\ hpc'[r] = "create" \/ (hpc'[r] = "answered" /\ answer'[r] \notin {0, 202})
    BY <1>t, <2>2
  <2>4. QED
    BY <1>c, <1>n, <1>u, <2>1, <2>3, VerdictOne DEF VerdictInv, Rejected, Accepted, NotSent, Untouched
<1>2. CASE create_execution(r)
  <2>1. hpc[r] = "create" /\ UNCHANGED tpc
    BY <1>2 DEF create_execution, task
  <2>2. \/ /\ row' = [row EXCEPT ![call[r].id] = pending_row(call[r])]
           /\ hpc' = [hpc EXCEPT ![r] = "reset"] /\ UNCHANGED answer
        \/ /\ row[call[r].id] # NoRow /\ UNCHANGED row
           /\ hpc' = [hpc EXCEPT ![r] = "answered"] /\ answer' = [answer EXCEPT ![r] = 409]
    BY <1>2 DEF create_execution, finish
  <2>3. /\ \A q \in GatewayCalls \ {r} : hpc'[q] = hpc[q] /\ answer'[q] = answer[q] /\ row'[q] = row[q]
        /\ \/ hpc'[r] = "reset"
           \/ row[call[r].id] # NoRow /\ hpc'[r] = "answered" /\ answer'[r] = 409
    BY <1>t, <1>i, <2>2
  <2>4. r \in GatewayCalls => row[r] = NoRow
    BY <2>1 DEF VerdictInv
  <2>5. QED
    BY <1>i, <1>n, <1>u, <2>1, <2>3, <2>4, VerdictOne DEF Rejected, Accepted, NotSent, Untouched
<1>3. CASE accept(r)
  <2>1. /\ hpc' = [hpc EXCEPT ![r] = "answered"] /\ answer' = [answer EXCEPT ![r] = 202]
        /\ tpc' = [tpc EXCEPT ![r] = "queued"] /\ UNCHANGED row
    BY <1>3 DEF accept, finish
  <2>2. /\ \A q \in GatewayCalls \ {r} : hpc'[q] = hpc[q] /\ answer'[q] = answer[q] /\ tpc'[q] = tpc[q]
        /\ hpc'[r] = "answered" /\ answer'[r] = 202 /\ tpc'[r] = "queued"
    BY <1>t, <2>1
  <2>3. QED
    BY <1>n, <1>u, <2>1, <2>2, VerdictOne DEF Rejected, Accepted, NotSent, Untouched
<1>4. ASSUME NEW committed \in BOOLEAN, run_raises(r, committed) PROVE VerdictInv'
  <2>1. /\ hpc' = [hpc EXCEPT ![r] = "answered"] /\ answer' = [answer EXCEPT ![r] = 500] /\ UNCHANGED tpc
        /\ UNCHANGED row \/ row' = [row EXCEPT ![call[r].id] = pending_row(call[r])]
    BY <1>4 DEF run_raises, finish, task
  <2>2. /\ \A q \in GatewayCalls \ {r} : hpc'[q] = hpc[q] /\ answer'[q] = answer[q] /\ row'[q] = row[q]
        /\ hpc'[r] = "answered" /\ answer'[r] = 500
    BY <1>t, <1>i, <2>1
  <2>3. QED
    BY <1>n, <1>u, <2>1, <2>2, VerdictOne DEF Rejected, Accepted, NotSent, Untouched
<1>5. QED
  BY <1>1, <1>2, <1>3, <1>4 DEF handler_step

LEMMA VerdictTask ==
  ASSUME TypeOK, CreatedInv, CallInv, VerdictInv, NEW r \in Requests,
         task_step(r) \/ task_raises(r) \/ dispatch_failed_error(r)
  PROVE  VerdictInv'
<1>t. /\ tpc \in [Requests -> TaskSteps \cup {"none", "done", "dead"}]
      /\ row \in [Ids -> Row \cup {NoRow}]
      /\ GatewayCalls \subseteq Requests /\ Requests \subseteq Ids
  BY TypeParts DEF TypeTables, TypeTasks, Requests, Ids
<1>0. tpc[r] # "none"
  BY DEF task_step, fork, resolve, resolve_source, plan_start, save_plan, dispatch_failed, task_raises,
         dispatch_failed_error, Task
<1>1. \A q \in GatewayCalls \ {r} : call[r].id # q
  BY <1>0, <1>t, OwnId, TypeParts DEF TypeSteps
<1>2. /\ UNCHANGED <<hpc, answer, tracker, gpc>>
      /\ \E step \in TaskSteps \cup {"done"} : tpc' = [tpc EXCEPT ![r] = step]
      /\ UNCHANGED row \/ \E s : row' = [row EXCEPT ![call[r].id].state = s]
  BY DEF task_step, fork, resolve, resolve_source, plan_start, save_plan, dispatch_failed, task_raises,
         dispatch_failed_error, raise, handler, gateway, TaskSteps
<1>3. tpc'[r] # "none" /\ \A q \in GatewayCalls \ {r} : tpc'[q] = tpc[q] /\ row'[q] = row[q]
  BY <1>t, <1>1, <1>2 DEF TaskSteps
<1>4. QED
  BY <1>0, <1>2, <1>3, VerdictOne DEF VerdictInv, Rejected, Accepted, NotSent, Untouched

LEMMA VerdictNext == TypeOK /\ CreatedInv /\ CallInv /\ VerdictInv /\ [Next]_vars => VerdictInv'
<1> SUFFICES ASSUME TypeOK, CreatedInv, CallInv, VerdictInv, [Next]_vars PROVE VerdictInv'
  OBVIOUS
<1>t. /\ hpc \in [Requests -> {"none", "sent", "create", "reset", "answered", "dead"}]
      /\ tpc \in [Requests -> TaskSteps \cup {"none", "done", "dead"}]
      /\ row \in [Ids -> Row \cup {NoRow}]
      /\ GatewayCalls \subseteq Requests /\ Requests \subseteq Ids
  BY TypeParts DEF TypeTables, TypeTasks, TypeHandlers, Requests, Ids
<1>1. CASE UNCHANGED vars
  BY <1>1, VerdictFrame DEF vars, Untouched
<1>2. ASSUME NEW r \in DirectCalls, NEW n \in Names, NEW v \in Params, NEW i \in Ids, post_run(r, n, v, i)
      PROVE  VerdictInv'
  <2>1. r \notin GatewayCalls /\ r \in Requests
    BY RequestsAssumption DEF Requests
  <2>2. UNCHANGED <<answer, tracker, gpc, tpc, row>> /\ hpc' = [hpc EXCEPT ![r] = "sent"]
    BY <1>2 DEF post_run, gateway, task
  <2>3. \A q \in GatewayCalls : hpc'[q] = hpc[q]
    BY <1>t, <2>1, <2>2
  <2>4. QED
    BY <2>2, <2>3, VerdictFrame DEF Untouched
<1>3. ASSUME NEW r \in DeadLetterRuns, NEW m \in Managers, NEW n \in Names, NEW v \in Params,
             run_pipeline_now(r, m, n, v)
      PROVE  VerdictInv'
  <2>1. r \notin GatewayCalls /\ r \in Requests
    BY RequestsAssumption DEF Requests
  <2>2. /\ UNCHANGED <<answer, tracker, gpc, hpc>>
        /\ UNCHANGED tpc \/ tpc' = [tpc EXCEPT ![r] = "queued"]
        /\ UNCHANGED row \/ \E w : row' = [row EXCEPT ![r] = w]
    BY <1>3 DEF run_pipeline_now, gateway
  <2>3. \A q \in GatewayCalls : tpc'[q] = tpc[q] /\ row'[q] = row[q]
    BY <1>t, <2>1, <2>2
  <2>4. QED
    BY <2>2, <2>3, VerdictFrame DEF Untouched
<1>4. ASSUME NEW m \in Managers, crash(m) PROVE VerdictInv'
  <2>1. /\ UNCHANGED <<answer, tracker, gpc, row>>
        /\ \A q \in Requests : hpc'[q] = hpc[q] \/ (hpc[q] \in HandlerSteps /\ hpc'[q] = "dead")
        /\ \A q \in Requests : tpc'[q] = "none" <=> tpc[q] = "none"
    BY <1>4 DEF crash, gateway, TaskSteps
  <2>2. QED
    BY <1>t, <2>1 DEF VerdictInv, Rejected, Accepted, NotSent, HandlerSteps
<1>5. ASSUME NEW m \in Managers, NEW found \in Registries, restart(m, found) PROVE VerdictInv'
  BY <1>5, VerdictFrame DEF restart, gateway, handler, task, Untouched
<1>6. ASSUME NEW m \in Managers, NEW i \in Ids, recover_plan(m, i) PROVE VerdictInv'
  <2>1. /\ UNCHANGED <<answer, tracker, gpc, hpc, tpc>>
        /\ UNCHANGED row \/ (row[i] # NoRow /\ row' = [row EXCEPT ![i].state = "failed"])
    BY <1>6 DEF recover_plan, interrupted, gateway, handler, task
  <2>2. \A q \in GatewayCalls : row[q] = NoRow => row'[q] = NoRow
    BY <1>t, <2>1
  <2>3. QED
    BY <2>1, <2>2, VerdictFrame DEF Untouched
<1>7. QED
  BY <1>1, <1>2, <1>3, <1>4, <1>5, <1>6, VerdictGateway, VerdictHandler, VerdictTask DEF Next

\* What the gateway tells a caller is so: a run it calls running was accepted and has
\* its row; of one it answers with a 422 it is known whether it exists: it does where the
\* manager accepted it in an answer that could not be read, and nowhere else.
THEOREM VerdictsHold == Spec => []VerdictHolds
<1>1. TypeOK /\ CreatedInv /\ CallInv /\ VerdictInv => VerdictHolds
  <2> SUFFICES ASSUME TypeOK, CreatedInv, CallInv, VerdictInv, NEW r \in GatewayCalls
               PROVE  /\ tracker[r] = "running" => row[r] # NoRow /\ tpc[r] # "none"
                      /\ tracker[r] = "rejected" =>
                          /\ hpc[r] \in {"none", "answered"}
                          /\ IF answer[r] = 202 THEN row[r] # NoRow /\ tpc[r] # "none"
                                                ELSE row[r] = NoRow /\ tpc[r] = "none"
    BY DEF VerdictHolds
  <2>1. r \in Requests
    BY DEF Requests
  <2>2. tpc[r] # "none" => call[r].id = r /\ row[call[r].id] # NoRow
    BY <2>1, TypeParts DEF TypeSteps, CallInv, CreatedInv, Created
  <2>3. QED
    BY <2>2 DEF VerdictInv, Rejected, Accepted, NotSent
<1>2. QED
  BY <1>1, Core, VerdictInit, VerdictNext, PTL DEF Spec
====
