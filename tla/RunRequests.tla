---------------------------- MODULE RunRequests ----------------------------
(***************************************************************************)
(* How an execution comes into being: a call to the gateway is forwarded   *)
(* to a manager's POST /run under a fresh id, a client may post to /run    *)
(* itself under an id of its choice, and the dead-letter scheduler runs a  *)
(* pipeline in its own thread.  The manager rejects what cannot run, saves *)
(* the execution and answers before a background task resolves the         *)
(* pipeline, which is one registered instance per process, and plans it.   *)
(*                                                                         *)
(* The handler of /run never awaits, so one manager handles one request at *)
(* a time, while background tasks run in threads.  A pipeline has one      *)
(* declared parameter.  What follows once the plan is saved is module      *)
(* Dispatch, how it is saved and recovered module Planning.                *)
(***************************************************************************)
EXTENDS Naturals, FiniteSets

CONSTANTS
    Managers,
    GatewayCalls, DirectCalls, DeadLetterRuns,
    ClientIds,          \* execution ids that clients choose
    Names,              \* the pipelines of the code base
    Fragile,            \* those that cannot register in every environment
    Inputs,             \* what a request may ask for: pipelines and values
    Declared,           \* the parameter of each: whether it is required, its default
    Values,             \* values of the declared type and among its choices
    Bad, Null, Absent,  \* any other value, None, and no value at all
    NoCall, NoRow, NoPlan, NoManager, NoObject, Unset,
    MaxRequests,        \* bound: requests made
    MaxFaults           \* bound: crashes and exceptions

Requests == GatewayCalls \cup DirectCalls \cup DeadLetterRuns
\* A uuid is as good as the request it was made for.
Ids == Requests \cup ClientIds
Params == Values \cup {Bad, Null, Absent}

ASSUME DeclaredAssumption ==
    Declared \in [Names -> [required : BOOLEAN, default : Values \cup {Null}]]
ASSUME InputsAssumption == Fragile \subseteq Names /\ Inputs \in [Requests -> SUBSET (Names \X Params)]
ASSUME RequestsAssumption ==
    /\ GatewayCalls \cap DirectCalls = {} /\ DeadLetterRuns \cap (GatewayCalls \cup DirectCalls) = {}
    /\ ClientIds \cap Requests = {}
ASSUME SpecialValuesAssumption ==
    /\ Values \cap {Bad, Null, Absent} = {} /\ Bad # Null /\ Bad # Absent /\ Null # Absent
    /\ Unset \notin Params \cup (Names \X Params)
    /\ NoManager \notin Managers
    /\ NoObject \notin Requests \cup (Managers \X Names)
    /\ (Managers \X Names) \cap Requests = {}
    /\ NoCall \notin [name : Names, value : Params, id : Ids]
    /\ NoRow \notin [state : {"pending", "running", "planned", "failed"}, name : Names, value : Params]
    /\ NoPlan \notin [params : Params \cup {Unset}, source : (Names \X Params) \cup {Unset}]
ASSUME BoundsAssumption == MaxRequests \in Nat /\ MaxFaults \in Nat

VARIABLES
    up, registry,   \* managers: whether they run, the pipelines that registered
    call,           \* what was posted to /run, or passed to run_pipeline
    gpc, tracker,   \* gateway calls: their step, and the ExecutionTracker's entry
    hpc, at,        \* the manager's handler of a request: its step and its process
    answer,         \* the status code of its answer
    row,            \* the executions table
    plan,           \* the jobs saved: their runtime_params and their source
    tpc, ref,       \* background task: its step, the pipeline object it works on
    context,        \* the runtime_params it hands to the jobs
    inst,           \* attributes of the pipeline objects
    recovering,     \* executions a started manager found interrupted
    faults,
    cause,          \* history: why a task raised
    left            \* history: executions left behind by a database error

gateway == <<gpc, tracker>>
handler == <<hpc, at, answer>>
task == <<tpc, ref, context, inst, cause>>
process == <<up, registry, recovering>>
vars == <<up, registry, call, gpc, tracker, hpc, at, answer, row, plan, tpc, ref, context, inst,
          recovering, faults, cause, left>>

Registries == {found \in SUBSET Names : Names \ Fragile \subseteq found}
Objects == (Managers \X Names) \cup Requests
Blank == [params |-> Unset, source |-> Unset]
HandlerSteps == {"create", "reset"}
TaskSteps == {"queued", "resolve", "define_jobs", "start", "plan", "raised"}

Init ==
    /\ up = [m \in Managers |-> TRUE]
    /\ registry \in [Managers -> Registries]
    /\ call = [r \in Requests |-> NoCall]
    /\ gpc = [r \in GatewayCalls |-> "idle"] /\ tracker = [r \in GatewayCalls |-> "none"]
    /\ hpc = [r \in Requests |-> "none"] /\ at = [r \in Requests |-> NoManager]
    /\ answer = [r \in Requests |-> 0]
    /\ row = [i \in Ids |-> NoRow] /\ plan = [i \in Ids |-> NoPlan]
    /\ tpc = [r \in Requests |-> "none"] /\ ref = [r \in Requests |-> NoObject]
    /\ context = [r \in Requests |-> Unset]
    /\ inst = [o \in Objects |-> Blank]
    /\ recovering = [m \in Managers |-> {}]
    /\ faults = 0
    /\ cause = [r \in Requests |-> "none"] /\ left = {}

\* What a request may ask for, and how many are made.
may_ask(r, n, v) ==
    /\ call[r] = NoCall /\ <<n, v>> \in Inputs[r]
    /\ Cardinality({s \in Requests : call[s] # NoCall}) < MaxRequests

fault == faults < MaxFaults /\ faults' = faults + 1

----------------------------------------------------------------------------
(* Parameters. *)

_check_type(v) == v \in Values

\* PipelineParameter.validate, of what runtime_params.get returns.
validate(n, v) == IF v \in {Null, Absent} THEN ~Declared[n].required ELSE _check_type(v)

\* An explicit None counts as given.
apply_defaults(n, v) ==
    IF v = Absent /\ Declared[n].default # Null THEN Declared[n].default ELSE v

\* User code: what it plans depends on the pipeline and on the parameters.
define_jobs(n, v) == <<n, v>>

----------------------------------------------------------------------------
(* The gateway. *)

\* The route's signature refuses a missing or mistyped value; it fills in the
\* default, None where there is none.
accepts(n, v) == IF v = Absent THEN ~Declared[n].required ELSE _check_type(v)
filled(n, v) == IF v = Absent THEN Declared[n].default ELSE v

run_route(r, n, v) ==
    /\ gpc[r] = "idle"
    /\ may_ask(r, n, v) /\ v # Null
    /\ IF accepts(n, v)
       THEN /\ call' = [call EXCEPT ![r] = [name |-> n, value |-> filled(n, v), id |-> r]]
            /\ gpc' = [gpc EXCEPT ![r] = "waiting"]
            /\ hpc' = [hpc EXCEPT ![r] = "sent"]
       ELSE gpc' = [gpc EXCEPT ![r] = "done"] /\ UNCHANGED <<call, hpc>>
    /\ UNCHANGED <<process, tracker, at, answer, row, plan, task, faults, left>>

\* Mutant: a lost connection is reported like a rejection.
failed_without_upstream(code) ==
    IF code \in 200..399 THEN "running" ELSE IF code >= 500 THEN "upstream" ELSE "rejected"

\* DistributedExecutor.execute: a TransportError, here 0, and a 5xx are the
\* manager's failure, a 4xx is the caller's.  _check_status answers 502 or 422.
verdict(code) ==
    IF code \in 200..399 THEN "running"
    ELSE IF code = 0 \/ code >= 500 THEN "upstream" ELSE "rejected"

track(r, status) ==
    /\ gpc' = [gpc EXCEPT ![r] = "done"]
    /\ tracker' = [tracker EXCEPT ![r] = status]

\* The manager's answer reaches the gateway, unless that gave up before.
execute(r) ==
    /\ gpc[r] = "waiting" /\ hpc[r] = "answered"
    /\ track(r, verdict(answer[r]))
    /\ UNCHANGED <<process, call, handler, row, plan, task, faults, left>>

\* The manager cannot be reached: the request is not delivered.
post_refused(r) ==
    /\ gpc[r] = "waiting" /\ hpc[r] = "sent"
    /\ track(r, verdict(0))
    /\ hpc' = [hpc EXCEPT ![r] = "none"]
    /\ UNCHANGED <<process, call, at, answer, row, plan, task, faults, left>>

\* The gateway stops waiting, or the manager died; a live manager goes on.
post_timeout(r) ==
    /\ gpc[r] = "waiting" /\ hpc[r] # "answered"
    /\ track(r, verdict(0))
    /\ UNCHANGED <<process, call, handler, row, plan, task, faults, left>>

\* Any other exception in execute, reported like a rejection: the request
\* cannot be encoded and is not sent, or the manager's answer is not JSON.
execute_raises(r) ==
    /\ fault
    /\ gpc[r] = "waiting"
    /\ \/ hpc[r] = "sent" /\ hpc' = [hpc EXCEPT ![r] = "none"]
       \/ hpc[r] = "answered" /\ answer[r] < 400 /\ UNCHANGED hpc
    /\ track(r, "rejected")
    /\ UNCHANGED <<process, call, at, answer, row, plan, task, left>>

\* A client posts to the manager itself, with an id of its own or without.
post_run(r, n, v, i) ==
    /\ may_ask(r, n, v) /\ i \in ClientIds \cup {r}
    /\ call' = [call EXCEPT ![r] = [name |-> n, value |-> v, id |-> i]]
    /\ hpc' = [hpc EXCEPT ![r] = "sent"]
    /\ UNCHANGED <<process, gateway, at, answer, row, plan, task, faults, left>>

----------------------------------------------------------------------------
(* POST /run. *)

finish(r, code) ==
    /\ hpc' = [hpc EXCEPT ![r] = "answered"]
    /\ answer' = [answer EXCEPT ![r] = code]

busy(m) == \E r \in Requests : at[r] = m /\ hpc[r] \in HandlerSteps

\* Mutant: the parameters are left to the background task.
checked_without_parameters(m, c) ==
    IF c.name \notin registry[m] THEN 404
    ELSE IF row[c.id] # NoRow THEN 409 ELSE 202

\* The checks before anything is written.
checked(m, c) ==
    IF c.name \notin registry[m] THEN 404
    ELSE IF ~validate(c.name, apply_defaults(c.name, c.value)) THEN 422
    ELSE IF row[c.id] # NoRow THEN 409 ELSE 202

run_pipeline(r, m) ==
    /\ hpc[r] = "sent" /\ up[m] /\ ~busy(m)
    /\ at' = [at EXCEPT ![r] = m]
    /\ IF checked(m, call[r]) = 202
       THEN hpc' = [hpc EXCEPT ![r] = "create"] /\ UNCHANGED answer
       ELSE finish(r, checked(m, call[r]))
    /\ UNCHANGED <<process, call, gateway, row, plan, task, faults, left>>

pending_row(c) == [state |-> "pending", name |-> c.name, value |-> c.value]

\* Mutant: a row of the same id is replaced (db.merge instead of db.add).
create_execution_merged(r) ==
    /\ hpc[r] = "create"
    /\ row' = [row EXCEPT ![call[r].id] = pending_row(call[r])]
    /\ hpc' = [hpc EXCEPT ![r] = "reset"]
    /\ UNCHANGED <<process, call, gateway, at, answer, plan, task, faults, left>>

\* Committed, or an IntegrityError: another manager was faster with this id.
create_execution(r) ==
    /\ hpc[r] = "create"
    /\ IF row[call[r].id] = NoRow
       THEN /\ row' = [row EXCEPT ![call[r].id] = pending_row(call[r])]
            /\ hpc' = [hpc EXCEPT ![r] = "reset"]
            /\ UNCHANGED answer
       ELSE finish(r, 409) /\ UNCHANGED row
    /\ UNCHANGED <<process, call, gateway, at, plan, task, faults, left>>

\* The schedule is pushed back, the task queued and 202 answered.
accept(r) ==
    /\ hpc[r] = "reset"
    /\ tpc' = [tpc EXCEPT ![r] = "queued"]
    /\ finish(r, 202)
    /\ UNCHANGED <<process, call, gateway, at, row, plan, ref, context, inst, cause, faults, left>>

\* Any exception is a 500.  A commit may have reached the database, and what
\* comes after it may fail: the execution is there, and nobody plans it.
run_raises(r, committed) ==
    /\ fault
    /\ hpc[r] \in HandlerSteps
    /\ committed \in BOOLEAN
    /\ hpc[r] = "reset" => ~committed
    /\ committed => row[call[r].id] = NoRow
    /\ row' = IF committed THEN [row EXCEPT ![call[r].id] = pending_row(call[r])] ELSE row
    /\ left' = IF committed \/ hpc[r] = "reset" THEN left \cup {call[r].id} ELSE left
    /\ finish(r, 500)
    /\ UNCHANGED <<process, call, gateway, at, plan, task>>

\* PipelineRunner.run_pipeline, which the dead-letter scheduler calls: the
\* name is all that is looked at first, and the caller's thread does the rest.
run_pipeline_now(r, m, n, v) ==
    /\ may_ask(r, n, v) /\ up[m]
    /\ call' = [call EXCEPT ![r] = [name |-> n, value |-> v, id |-> r]]
    /\ at' = [at EXCEPT ![r] = m]
    /\ IF n \in registry[m]
       THEN /\ row' = [row EXCEPT ![r] = pending_row([name |-> n, value |-> v, id |-> r])]
            /\ tpc' = [tpc EXCEPT ![r] = "queued"]
       ELSE UNCHANGED <<row, tpc>>
    /\ UNCHANGED <<process, gateway, hpc, answer, plan, ref, context, inst, cause, faults, left>>

----------------------------------------------------------------------------
(* The background task: _dispatch_pipeline_jobs and _plan_and_dispatch. *)

Task(r, step) == tpc[r] = step /\ up[at[r]]
registered(r) == <<at[r], call[r].name>>
resolved(r) == apply_defaults(call[r].name, call[r].value)

raise(r, why) ==
    /\ tpc' = [tpc EXCEPT ![r] = "raised"]
    /\ cause' = [cause EXCEPT ![r] = why]

\* Mutant: the registered instance itself is resolved.
fork_shared(r) ==
    /\ Task(r, "queued")
    /\ IF call[r].name \in registry[at[r]]
       THEN /\ ref' = [ref EXCEPT ![r] = registered(r)]
            /\ tpc' = [tpc EXCEPT ![r] = "resolve"]
            /\ UNCHANGED <<inst, cause>>
       ELSE raise(r, "missing") /\ UNCHANGED <<ref, inst>>
    /\ UNCHANGED <<process, call, gateway, handler, row, plan, context, faults, left>>

fork(r) ==
    /\ Task(r, "queued")
    /\ IF call[r].name \in registry[at[r]]
       THEN /\ ref' = [ref EXCEPT ![r] = r]
            /\ inst' = [inst EXCEPT ![r] = inst[registered(r)]]
            /\ tpc' = [tpc EXCEPT ![r] = "resolve"]
            /\ UNCHANGED cause
       ELSE raise(r, "missing") /\ UNCHANGED <<ref, inst>>
    /\ UNCHANGED <<process, call, gateway, handler, row, plan, context, faults, left>>

resolve(r) ==
    /\ Task(r, "resolve")
    /\ IF validate(call[r].name, resolved(r))
       THEN /\ inst' = [inst EXCEPT ![ref[r]].params = resolved(r)]
            /\ tpc' = [tpc EXCEPT ![r] = "define_jobs"]
            /\ UNCHANGED cause
       ELSE raise(r, "params") /\ UNCHANGED inst
    /\ UNCHANGED <<process, call, gateway, handler, row, plan, ref, context, faults, left>>

resolve_source(r) ==
    /\ Task(r, "define_jobs")
    /\ inst' = [inst EXCEPT ![ref[r]].source = define_jobs(call[r].name, resolved(r))]
    /\ tpc' = [tpc EXCEPT ![r] = "start"]
    /\ UNCHANGED <<process, call, gateway, handler, row, plan, ref, context, cause, faults, left>>

plan_start(r) ==
    /\ Task(r, "start")
    /\ row' = [row EXCEPT ![call[r].id].state = "running"]
    /\ context' = [context EXCEPT ![r] = inst[ref[r]].params]
    /\ tpc' = [tpc EXCEPT ![r] = "plan"]
    /\ UNCHANGED <<process, call, gateway, handler, plan, ref, inst, cause, faults, left>>

\* The slices of pipeline.source are saved, and a drive loop takes over.
save_plan(r) ==
    /\ Task(r, "plan")
    /\ plan' = [plan EXCEPT ![call[r].id] = [params |-> context[r], source |-> inst[ref[r]].source]]
    /\ row' = [row EXCEPT ![call[r].id].state = "planned"]
    /\ tpc' = [tpc EXCEPT ![r] = "done"]
    /\ UNCHANGED <<process, call, gateway, handler, ref, context, inst, cause, faults, left>>

\* define_jobs, the source or the database raises.
task_raises(r) ==
    /\ fault
    /\ \E step \in {"queued", "resolve", "define_jobs", "start", "plan"} : Task(r, step)
    /\ raise(r, "other")
    /\ UNCHANGED <<process, call, gateway, handler, row, plan, ref, context, inst, left>>

\* Mutant: the exception is only logged.
dispatch_failed_logged(r) ==
    /\ Task(r, "raised")
    /\ tpc' = [tpc EXCEPT ![r] = "done"]
    /\ UNCHANGED <<process, call, gateway, handler, row, plan, ref, context, inst, cause, faults, left>>

dispatch_failed(r) ==
    /\ Task(r, "raised")
    /\ row' = [row EXCEPT ![call[r].id].state = "failed"]
    /\ tpc' = [tpc EXCEPT ![r] = "done"]
    /\ UNCHANGED <<process, call, gateway, handler, plan, ref, context, inst, cause, faults, left>>

\* That write fails as well.
dispatch_failed_error(r) ==
    /\ fault
    /\ Task(r, "raised")
    /\ left' = left \cup {call[r].id}
    /\ tpc' = [tpc EXCEPT ![r] = "done"]
    /\ UNCHANGED <<process, call, gateway, handler, row, plan, ref, context, inst, cause>>

----------------------------------------------------------------------------
(* Managers. *)

\* Handlers and tasks die with their process.
crash(m) ==
    /\ fault
    /\ up[m]
    /\ up' = [up EXCEPT ![m] = FALSE]
    /\ recovering' = [recovering EXCEPT ![m] = {}]
    /\ hpc' = [r \in Requests |-> IF at[r] = m /\ hpc[r] \in HandlerSteps THEN "dead" ELSE hpc[r]]
    /\ tpc' = [r \in Requests |-> IF at[r] = m /\ tpc[r] \in TaskSteps THEN "dead" ELSE tpc[r]]
    /\ inst' = [o \in Objects |-> IF o \in {m} \X Names THEN Blank ELSE inst[o]]
    /\ UNCHANGED <<registry, call, gateway, at, answer, row, plan, ref, context, cause, left>>

interrupted == {i \in Ids : row[i] # NoRow /\ row[i].state \in {"pending", "running"}}

\* Modules are imported again: the pipelines of those that import and whose
\* class can be instantiated register, the others are recorded as failures.
restart(m, found) ==
    /\ ~up[m]
    /\ found \in Registries
    /\ up' = [up EXCEPT ![m] = TRUE]
    /\ registry' = [registry EXCEPT ![m] = found]
    /\ recovering' = [recovering EXCEPT ![m] = interrupted]
    /\ UNCHANGED <<call, gateway, handler, row, plan, task, faults, left>>

\* Its planner lives and keeps the lease, or it was created moments ago.
attended(i) ==
    \E r \in Requests : /\ call[r] # NoCall /\ call[r].id = i
                        /\ hpc[r] = "reset" \/ tpc[r] \in TaskSteps

\* _recover_plan gives up an execution whose planner is gone.
recover_plan(m, i) ==
    /\ i \in recovering[m] /\ ~attended(i)
    /\ recovering' = [recovering EXCEPT ![m] = @ \ {i}]
    /\ row' = IF i \in interrupted THEN [row EXCEPT ![i].state = "failed"] ELSE row
    /\ UNCHANGED <<up, registry, call, gateway, handler, plan, task, faults, left>>

----------------------------------------------------------------------------
gateway_step(r) == execute(r) \/ post_refused(r) \/ post_timeout(r) \/ execute_raises(r)
handler_step(r) == \/ \E m \in Managers : run_pipeline(r, m)
                   \/ create_execution(r) \/ accept(r)
task_step(r) ==
    \/ fork(r) \/ resolve(r) \/ resolve_source(r) \/ plan_start(r) \/ save_plan(r)
    \/ dispatch_failed(r)

Next ==
    \/ \E r \in GatewayCalls :
          gateway_step(r) \/ \E n \in Names, v \in Params : run_route(r, n, v)
    \/ \E r \in DirectCalls, n \in Names, v \in Params, i \in Ids : post_run(r, n, v, i)
    \/ \E r \in DeadLetterRuns, m \in Managers, n \in Names, v \in Params : run_pipeline_now(r, m, n, v)
    \/ \E r \in Requests : handler_step(r) \/ \E committed \in BOOLEAN : run_raises(r, committed)
    \/ \E r \in Requests : task_step(r) \/ task_raises(r) \/ dispatch_failed_error(r)
    \/ \E m \in Managers : \/ crash(m)
                           \/ \E found \in Registries : restart(m, found)
                           \/ \E i \in Ids : recover_plan(m, i)

Spec == Init /\ [][Next]_vars

\* Threads run, a dead manager is restarted, recovery goes through its list.
Fairness ==
    /\ WF_vars(\E r \in Requests : handler_step(r))
    /\ WF_vars(\E r \in Requests : task_step(r))
    /\ WF_vars(\E m \in Managers, found \in Registries : restart(m, found))
    /\ WF_vars(\E m \in Managers, i \in Ids : recover_plan(m, i))

FairSpec == Spec /\ Fairness

----------------------------------------------------------------------------
(* Properties. *)

Call == [name : Names, value : Params, id : Ids]
Row == [state : {"pending", "running", "planned", "failed"}, name : Names, value : Params]
Plan == [params : Params \cup {Unset}, source : (Names \X Params) \cup {Unset}]

\* Types, and what a step entails: a request that is past its posting has a
\* call, a handler or task that runs has a process, a task beyond fork an object.
TypeOK ==
    /\ up \in [Managers -> BOOLEAN] /\ registry \in [Managers -> SUBSET Names]
    /\ call \in [Requests -> Call \cup {NoCall}]
    /\ gpc \in [GatewayCalls -> {"idle", "waiting", "done"}]
    /\ tracker \in [GatewayCalls -> {"none", "running", "upstream", "rejected"}]
    /\ hpc \in [Requests -> {"none", "sent", "create", "reset", "answered", "dead"}]
    /\ at \in [Requests -> Managers \cup {NoManager}]
    /\ answer \in [Requests -> {0, 202, 404, 409, 422, 500}]
    /\ row \in [Ids -> Row \cup {NoRow}] /\ plan \in [Ids -> Plan \cup {NoPlan}]
    /\ tpc \in [Requests -> TaskSteps \cup {"none", "done", "dead"}]
    /\ ref \in [Requests -> Objects \cup {NoObject}]
    /\ context \in [Requests -> Params \cup {Unset}]
    /\ inst \in [Objects -> Plan]
    /\ recovering \in [Managers -> SUBSET Ids]
    /\ faults \in Nat /\ left \in SUBSET Ids
    /\ cause \in [Requests -> {"none", "missing", "params", "other"}]
    /\ \A r \in Requests : hpc[r] # "none" \/ tpc[r] # "none" => call[r] # NoCall
    /\ \A r \in Requests : hpc[r] \in HandlerSteps \/ tpc[r] # "none" => at[r] \in Managers
    /\ \A r \in Requests : tpc[r] \in {"resolve", "define_jobs", "start", "plan"} => ref[r] # NoObject

\* An execution is planned with its own parameters: its jobs carry, and its
\* source was defined from, what its request asked for with the defaults filled
\* in, whatever other executions of the pipeline resolve at the same moment.
OwnPlan ==
    \A i \in Ids : plan[i] # NoPlan =>
        /\ row[i] # NoRow
        /\ LET v == apply_defaults(row[i].name, row[i].value)
           IN plan[i] = [params |-> v, source |-> define_jobs(row[i].name, v)]

\* An execution has one task: of requests with the same id, raced through two
\* managers or repeated, one at most is accepted, and the row is that one's.
OneTask ==
    \A r \in Requests : tpc[r] # "none" =>
        /\ row[call[r].id] # NoRow
        /\ row[call[r].id].name = call[r].name /\ row[call[r].id].value = call[r].value
        /\ \A q \in Requests \ {r} : tpc[q] # "none" => call[q].id # call[r].id

\* The gateway's word on a call can be relied on, a 502 apart: "running" is an
\* execution whose task was queued.  A failure that is not the manager's (422)
\* is one the manager refused or never got, and then the execution does not
\* exist and never will, or one it accepted in an answer that execute could not
\* read, and then the execution is there.  A connection that was lost or timed
\* out, where neither is known, is never reported as a 422.
VerdictHolds ==
    \A r \in GatewayCalls :
        /\ tracker[r] = "running" => row[r] # NoRow /\ tpc[r] # "none"
        /\ tracker[r] = "rejected" =>
            /\ hpc[r] \in {"none", "answered"}
            /\ IF answer[r] = 202 THEN row[r] # NoRow /\ tpc[r] # "none" ELSE row[r] = NoRow /\ tpc[r] = "none"

\* What can never run is rejected, not accepted and failed in the background:
\* no task of an accepted request fails for its parameters or its pipeline.
AcceptedCanRun ==
    \A r \in GatewayCalls \cup DirectCalls : cause[r] \in {"none", "other"}

\* An execution that was created is planned or fails, through exceptions in its
\* task and the death and restart of its manager, unless a database error left
\* it behind: when the requests end, none is pending for ever.
Settled(i) == row[i] # NoRow => row[i].state \in {"planned", "failed"} \/ i \in left
Settles == []<>(\A i \in Ids : Settled(i))
=============================================================================
