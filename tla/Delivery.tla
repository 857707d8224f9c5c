------------------------------ MODULE Delivery ------------------------------
(***************************************************************************)
(* The inside of one run of a job on the worker's event loop: the check of *)
(* the fetched records, the chain of transformations, the health check and *)
(* the send with its retries.  A step that runs record by record and a     *)
(* send share one scheme: a pool of tasks pulls records from one iterator, *)
(* the first failure cancels the others and waits for them.  Tasks         *)
(* interleave wherever they await.                                         *)
(*                                                                         *)
(* A record is its number in the fetched list.                             *)
(***************************************************************************)
EXTENDS Integers, Sequences, SequencesExt, FiniteSets

CONSTANTS
    Kinds,          \* kinds of destination: "kafka", "api" (with per_record)
    Concurrencies,  \* tasks of a pool
    N,              \* records fetched
    Cases,          \* sets of records that may be invalid, or miss a header or URL field
    Partitions, Offsets,    \* of the destination's topic
    LagThreshold,           \* lag_threshold
    MaxSteps,       \* max_steps of the transformation runner
    MaxAttempts     \* RetryConfig.max_attempts

Items == 1..N
Workers == 1..N

ASSUME KindsAssumption == Kinds \subseteq {"kafka", "api"}
ASSUME ConcurrenciesAssumption == Concurrencies \subseteq Nat \ {0}
ASSUME NAssumption == N \in Nat
ASSUME CasesAssumption == Cases \subseteq SUBSET Items
ASSUME BoundsAssumption == MaxSteps \in Nat /\ MaxAttempts \in Nat \ {0}

VARIABLES
    kind, concurrency,          \* the destination and its settings
    invalid, on_invalid,        \* records that do not match record_type, and what to do with them
    bad,                        \* records a header or URL template does not fit
    phase,                      \* step of the run
    items,                      \* the records, as transformed so far
    applied,                    \* transformations applied
    next,                       \* position of the pool's iterator
    task,                       \* 0: ready, -1: over, else the position in flight
    reached,                    \* tasks whose request reached the destination
    results,                    \* results of a step by position, 0 for none
    raised,                     \* why the pool stops, "no" while it does not
    attempt,
    buffered,                   \* cancelled messages the Kafka producer still holds
    open,                       \* resources: "step" (setup), "client" (producer, HTTP client)
    accepted,                   \* history: records the destination has
    dropped,                    \* history: records dropped on the way
    outcome

config == <<kind, concurrency, invalid, on_invalid, bad>>
pool == <<next, task, reached, results, raised>>
wire == <<buffered, accepted>>
vars == <<kind, concurrency, invalid, on_invalid, bad, phase, items, applied, next, task, reached,
          results, raised, attempt, buffered, open, accepted, dropped, outcome>>

Over == -1

NoPool ==
    /\ next = 1 /\ task = [w \in Workers |-> Over] /\ reached = {}
    /\ results = [i \in Items |-> 0] /\ raised = "no"

Init ==
    /\ kind \in Kinds /\ concurrency \in Concurrencies
    /\ invalid \in Cases /\ on_invalid \in {"fail", "skip"} /\ bad \in Cases
    /\ phase = "check" /\ items = [i \in Items |-> i] /\ applied = 0
    /\ NoPool
    /\ attempt = 1 /\ buffered = {} /\ open = {}
    /\ accepted = {} /\ dropped = {} /\ outcome = "none"

close_with(result) == phase' = "closing" /\ outcome' = result

----------------------------------------------------------------------------
(* The records and the chain of transformations. *)

\* A list without some of its members, in order.
without(list, out) ==
    LET upto[i \in 0..Len(list)] ==
            IF i = 0 THEN <<>>
            ELSE IF list[i] \in out THEN upto[i - 1] ELSE Append(upto[i - 1], list[i])
    IN  upto[Len(list)]

\* An empty slice is a job with nothing to do.
check_record_type ==
    /\ phase = "check"
    /\ \/ items = <<>> /\ close_with("skipped") /\ UNCHANGED <<items, dropped>>
       \/ /\ items # <<>> /\ invalid # {} /\ on_invalid = "fail"
          /\ close_with("failed") /\ UNCHANGED <<items, dropped>>
       \/ /\ items # <<>> /\ (invalid # {} => on_invalid = "skip")
          /\ phase' = "resolve" /\ UNCHANGED outcome
          /\ items' = without(items, invalid)
          /\ dropped' = invalid
    /\ UNCHANGED <<config, applied, pool, attempt, wire, open>>

\* As many tasks as may be in flight, at most one per record.
pool_size == {w \in Workers : w <= concurrency /\ w <= Len(items)}

start_pool ==
    /\ next' = 1 /\ reached' = {} /\ raised' = "no"
    /\ results' = [i \in Items |-> 0]
    /\ task' = [w \in Workers |-> IF w \in pool_size THEN 0 ELSE Over]

\* define_transformations is asked again after every step: the list may have grown.
resolve ==
    /\ phase = "resolve"
    /\ \/ \* no step left
          phase' = "health" /\ UNCHANGED <<pool, open, outcome, items, dropped, applied>>
       \/ \* one more, past the limit
          applied >= MaxSteps /\ close_with("failed") /\ UNCHANGED <<pool, open, items, dropped, applied>>
       \/ \* a step over the whole list; SkipJob from user code
          /\ applied < MaxSteps
          /\ \/ /\ \E out \in SUBSET Range(items) :
                      /\ items' = without(items, out)
                      /\ dropped' = dropped \cup out
                /\ applied' = applied + 1 /\ UNCHANGED <<phase, outcome>>
             \/ /\ \E result \in {"failed", "skipped"} : close_with(result)
                /\ UNCHANGED <<items, dropped, applied>>
          /\ UNCHANGED <<pool, open>>
       \/ \* a step record by record: nothing to run for no records, otherwise setup first
          /\ applied < MaxSteps
          /\ IF items = <<>>
             THEN applied' = applied + 1 /\ UNCHANGED <<phase, outcome, open, pool>>
             ELSE /\ phase' = "step" /\ open' = open \cup {"step"}
                  /\ start_pool /\ UNCHANGED <<outcome, applied>>
          /\ UNCHANGED <<items, dropped>>
    /\ UNCHANGED <<config, attempt, wire>>

----------------------------------------------------------------------------
(* The pool: for_each_concurrently, and the same in RecordTransformation._apply_all. *)

InPool == phase \in {"step", "send"}
Flying(w) == task[w] > 0

fits(i) == kind # "api" \/ items[i] \notin bad

\* Mutant: the iterator moves on only when the record is done.
advanced_not == next

\* next() never awaits: the record is taken and the iterator moved in one step.
advanced == next + 1

\* A task pulls a record and starts on it, or finds none and is over.  The API
\* destination fills its URL here, and fails at once when it cannot.
pull(w) ==
    /\ InPool /\ task[w] = 0
    /\ \/ next > Len(items) /\ task' = [task EXCEPT ![w] = Over] /\ UNCHANGED <<next, raised>>
       \/ /\ next <= Len(items) /\ (phase = "step" \/ fits(next))
          /\ task' = [task EXCEPT ![w] = next] /\ next' = advanced /\ UNCHANGED raised
       \/ /\ next <= Len(items) /\ phase = "send" /\ ~fits(next)
          /\ task' = [task EXCEPT ![w] = Over] /\ next' = advanced
          /\ raised' = IF raised = "no" THEN "template" ELSE raised
    /\ UNCHANGED <<config, phase, items, applied, reached, results, attempt, wire, open, dropped, outcome>>

\* The destination gets a request that is in flight.
arrive(w) ==
    /\ phase = "send" \/ (phase = "draining" /\ "step" \notin open)
    /\ Flying(w) /\ w \notin reached
    /\ reached' = reached \cup {w}
    /\ accepted' = accepted \cup {items[task[w]]}
    /\ UNCHANGED <<config, phase, items, applied, next, task, results, raised, attempt, buffered,
                   open, dropped, outcome>>

\* Mutant: results are appended as they come.
slot_next(w) == Cardinality({i \in Items : results[i] # 0}) + 1

slot(w) == task[w]

\* The request was answered; or apply_record returned, None or SkipRecord dropping the record.
respond(w) ==
    /\ InPool /\ Flying(w) /\ (phase = "send" => w \in reached)
    /\ task' = [task EXCEPT ![w] = 0] /\ reached' = reached \ {w}
    /\ results' \in IF phase = "step"
                     THEN {results, [results EXCEPT ![slot(w)] = items[task[w]]]} ELSE {results}
    /\ UNCHANGED <<config, phase, items, applied, next, raised, attempt, wire, open, dropped, outcome>>

\* Mutant: a failed request ends its task and nothing else.
first_raised_ignored(why) == raised

\* gather raises the first exception.
first_raised(why) == IF raised = "no" THEN why ELSE raised

\* It failed: refused, timed out, cut off (it may have arrived), or user code raised.
fail(w) ==
    /\ InPool /\ Flying(w)
    /\ task' = [task EXCEPT ![w] = Over] /\ reached' = reached \ {w}
    /\ \E why \in IF phase = "step" THEN {"error", "skipjob"} ELSE {"destination"} :
          raised' = first_raised(why)
    /\ UNCHANGED <<config, phase, items, applied, next, results, attempt, wire, open, dropped, outcome>>

\* The worker is told to stop; the run's task is cancelled where it waits for the pool.
shutdown ==
    /\ InPool /\ raised = "no"
    /\ raised' = "shutdown"
    /\ UNCHANGED <<config, phase, items, applied, next, task, reached, results, attempt, wire, open,
                   dropped, outcome>>

\* The run wakes up to the failure and cancels every task.
cancel_tasks ==
    /\ InPool /\ raised # "no"
    /\ phase' = "draining"
    /\ task' = [w \in Workers |-> IF Flying(w) THEN task[w] ELSE Over]
    /\ UNCHANGED <<config, items, applied, next, reached, results, raised, attempt, wire, open,
                   dropped, outcome>>

\* A cancelled task ends.  A message it gave to the Kafka producer stays there.
cancelled(w) ==
    /\ phase = "draining" /\ Flying(w)
    /\ task' = [task EXCEPT ![w] = Over] /\ reached' = reached \ {w}
    /\ buffered' = IF "step" \notin open /\ kind = "kafka" /\ w \notin reached
                   THEN buffered \cup {items[task[w]]} ELSE buffered
    /\ UNCHANGED <<config, phase, items, applied, next, results, raised, attempt, accepted, open,
                   dropped, outcome>>

\* The producer sends it in its own time.
arrive_late ==
    /\ \E x \in buffered : buffered' = buffered \ {x} /\ accepted' = accepted \cup {x}
    /\ UNCHANGED <<config, phase, items, applied, pool, attempt, open, dropped, outcome>>

\* Mutant: the cancelled tasks are not waited for.
all_over_unchecked == TRUE

all_over == \A w \in Workers : task[w] = Over

stop_pool ==
    /\ next' = 1 /\ reached' = {} /\ results' = [i \in Items |-> 0] /\ raised' = "no"
    /\ UNCHANGED task

----------------------------------------------------------------------------
(* The end of a record-by-record step. *)

step_done ==
    /\ phase = "step" /\ raised = "no" /\ all_over
    /\ items' = without(results, {0})
    /\ dropped' = dropped \cup (Range(items) \ Range(results))
    /\ phase' = "resolve" /\ applied' = applied + 1
    /\ open' = open \ {"step"}
    /\ stop_pool
    /\ UNCHANGED <<config, attempt, wire, outcome>>

\* teardown runs whatever happened; SkipJob drops the job.
step_raises ==
    /\ phase = "draining" /\ "step" \in open /\ all_over
    /\ open' = open \ {"step"}
    /\ close_with(CASE raised = "skipjob" -> "skipped"
                     [] raised = "shutdown" -> "stopped"
                     [] OTHER -> "failed")
    /\ stop_pool
    /\ UNCHANGED <<config, items, applied, attempt, wire, dropped>>

----------------------------------------------------------------------------
(* The destination. *)

\* What the monitored group has yet to read; a partition without a commit counts from 0.
_get_consumer_lag(end, committed) ==
    MapThenSumSet(LAMBDA p : IF end[p] > committed[p] THEN end[p] - committed[p] ELSE 0, Partitions)

\* A lag check that fails or times out does not count.
unhealthy ==
    \/ kind = "api"     \* 5xx, or no answer to HEAD and OPTIONS
    \/ kind = "kafka" /\ \E end, committed \in [Partitions -> Offsets] :
                            _get_consumer_lag(end, committed) > LagThreshold

health_check ==
    /\ phase = "health"
    /\ \/ \* the producer does not start
          kind = "kafka" /\ close_with("failed") /\ UNCHANGED open
       \/ open' = open \cup {"client"} /\ unhealthy /\ close_with("failed")
       \/ open' = open \cup {"client"} /\ phase' = "prepare" /\ UNCHANGED outcome
    /\ UNCHANGED <<config, items, applied, pool, attempt, wire, dropped>>

\* A placeholder without a field, or a function that returns no headers, raises.
_fill_header(i) == i \notin bad

\* The Kafka destination builds all headers before it sends anything.
headers_fit == kind = "kafka" => \A i \in Range(items) : _fill_header(i)

\* One attempt of send_with_retry.
send ==
    /\ phase = "prepare"
    /\ IF headers_fit
       THEN phase' = "send" /\ start_pool /\ UNCHANGED outcome
       ELSE close_with("failed") /\ UNCHANGED pool
    /\ UNCHANGED <<config, items, applied, attempt, buffered, open, accepted, dropped>>

send_done ==
    /\ phase = "send" /\ raised = "no" /\ all_over
    /\ close_with("sent")
    /\ stop_pool
    /\ UNCHANGED <<config, items, applied, attempt, wire, open, dropped>>

\* Only a DestinationError is retried.
retried == raised = "destination" /\ attempt < MaxAttempts

send_raises ==
    /\ phase = "draining" /\ "step" \notin open /\ all_over
    /\ IF retried
       THEN phase' = "prepare" /\ attempt' = attempt + 1 /\ UNCHANGED outcome
       ELSE /\ close_with(IF raised = "shutdown" THEN "stopped" ELSE "failed")
            /\ UNCHANGED attempt
    /\ stop_pool
    /\ UNCHANGED <<config, items, applied, wire, open, dropped>>

\* Stopping the producer sends what it holds, or gives it up.
flushed == SUBSET buffered

close ==
    /\ phase = "closing"
    /\ phase' = "closed"
    /\ \E out \in flushed : accepted' = accepted \cup out
    /\ buffered' = {} /\ open' = {}
    /\ UNCHANGED <<config, items, applied, pool, attempt, dropped, outcome>>

----------------------------------------------------------------------------
Task(w) == pull(w) \/ arrive(w) \/ respond(w) \/ fail(w) \/ cancelled(w)

Run ==
    \/ check_record_type \/ resolve \/ step_done \/ step_raises
    \/ cancel_tasks
    \/ health_check \/ send \/ send_done \/ send_raises \/ close

Next == (\E w \in Workers : Task(w)) \/ Run \/ arrive_late \/ shutdown

Spec == Init /\ [][Next]_vars

\* The event loop runs every task that can go on, and a request is answered or times out.
FairSpec == Spec /\ WF_vars(Run) /\ \A w \in Workers : WF_vars(Task(w))

----------------------------------------------------------------------------
\* What is sent keeps the order of what was fetched, without the dropped records, in
\* whichever order the tasks of a step finish.
OutputKeepsOrder ==
    /\ \A i, k \in DOMAIN items : i < k => items[i] < items[k]
    /\ Range(items) = Items \ dropped

\* No task outlives its pool: a retry, the release of the job's claims and the closing of
\* the client start with no request of an earlier attempt in flight.
NoStrayTasks ==
    ~InPool /\ phase # "draining" => \A w \in Workers : task[w] = Over

\* Every run ends with its client closed.
Ends == <>[](phase = "closed" /\ open = {} /\ buffered = {})

\* The run keeps the contract with its destination.
Verdict == IF phase # "closed" THEN "open" ELSE IF outcome = "sent" THEN "sent" ELSE "ended"

Contract == INSTANCE DeliveryContract WITH due <- Range(items), got <- accepted, verdict <- Verdict

ContractKept == Contract!Spec
=============================================================================
