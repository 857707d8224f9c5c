---------------------------- MODULE RateLimiter ----------------------------
(***************************************************************************)
(* The token bucket of one execution: one row of rate_limit_state, shared  *)
(* by every manager pod whose dispatcher sends jobs of that execution (two *)
(* at a time while a drive loop that stalled past its lease is replaced).  *)
(* Each pod ensures that the row exists and has its rate in one            *)
(* transaction, and computes, checks and writes the tokens in the next,    *)
(* under a row lock.                                                       *)
(*                                                                         *)
(* A token is Minute units, so a rate of r jobs per minute refills r units *)
(* per second and all quantities are integers.  Clocks of pods may differ. *)
(***************************************************************************)
EXTENDS Integers

CONSTANTS
    Pods,           \* dispatchers of manager pods
    Rates,          \* the rate limits they are called with, jobs per minute
    Fastest,        \* an upper bound of those
    Minute,         \* SECONDS_PER_MINUTE
    MaxWait,        \* TOKEN_WAIT_SECONDS
    MaxSkew,        \* bound: how far a pod's clock is ahead of the slowest one
    MaxTime         \* bound: seconds that pass

ASSUME RatesAssumption == Fastest \in Nat /\ Rates \subseteq 1..Fastest
ASSUME TimesAssumption ==
    /\ Minute \in Nat \ {0}
    /\ MaxWait \in Nat /\ MaxSkew \in Nat /\ MaxTime \in Nat

VARIABLES
    created,                \* the row exists
    tokens, max_tokens,     \* its columns, in units
    refill_rate,            \* units per second
    last_update,
    now, skew,              \* the time, and how far each pod's clock is ahead of it
    pc, rate,               \* a pod's step, and the rate limit of its drive loop
    start, slept,           \* when it began to wait for a token, and to sleep
    granted,                \* history: tokens handed out since the row was created
    mark, watched,          \* history: a window of time, and the tokens it got
    taken                   \* history: per pod, tokens or rates others took or set since start

bucket == <<created, tokens, max_tokens, refill_rate, last_update>>
time == <<now, skew>>
waiting == <<start, slept>>
history == <<granted, mark, watched, taken>>
vars == <<created, tokens, max_tokens, refill_rate, last_update, now, skew, pc, rate, start, slept,
          granted, mark, watched, taken>>

NoWindow == -1

Init ==
    /\ created = FALSE /\ tokens = 0 /\ max_tokens = 0 /\ refill_rate = 0 /\ last_update = 0
    /\ now = 0 /\ skew \in [Pods -> 0..MaxSkew]
    /\ pc = [p \in Pods |-> "idle"]
    /\ rate \in [Pods -> Rates]
    /\ start = [p \in Pods |-> 0] /\ slept = [p \in Pods |-> 0]
    /\ granted = 0 /\ mark = NoWindow /\ watched = 0
    /\ taken = [p \in Pods |-> FALSE]

clock(p) == now + skew[p]
goto(p, step) == pc' = [pc EXCEPT ![p] = step]

\* The bucket's size: at least one token, else one second's worth.
bucket_size(r) == IF r > Minute THEN r ELSE Minute

\* What p does to the bucket is noticed by every other pod that waits.
others_notice(p) == taken' = [q \in Pods |-> taken[q] \/ q # p]

----------------------------------------------------------------------------
(* dispatch_jobs_rate, for KafkaDispatcher and LocalDispatcher. *)

\* A call has jobs to send: the first one asks for its token.
dispatch_jobs_batch(p) ==
    /\ pc[p] = "idle"
    /\ start' = [start EXCEPT ![p] = clock(p)]
    /\ taken' = [taken EXCEPT ![p] = FALSE]
    /\ goto(p, "ensure")
    /\ UNCHANGED <<bucket, time, rate, slept, granted, mark, watched>>

\* The call returns: the batch is sent, should_stop said so, no token came in
\* time, or an error broke it off.
return(p) ==
    /\ goto(p, "idle")
    /\ start' = [start EXCEPT ![p] = 0]
    /\ slept' = [slept EXCEPT ![p] = 0]
    /\ taken' = [taken EXCEPT ![p] = FALSE]

\* should_stop(chunk=False) after the wait, then send_and_wait.  A token whose
\* job is not sent (stopped, unsendable, refused) is not given back.
end_of_batch(p) ==
    /\ pc[p] = "send"
    /\ return(p)
    /\ UNCHANGED <<bucket, time, rate, granted, mark, watched>>

\* Sent, or unsendable: on to the next job of the batch.
next_job(p) ==
    /\ pc[p] = "send"
    /\ start' = [start EXCEPT ![p] = clock(p)]
    /\ slept' = [slept EXCEPT ![p] = 0]
    /\ taken' = [taken EXCEPT ![p] = FALSE]
    /\ goto(p, "ensure")
    /\ UNCHANGED <<bucket, time, rate, granted, mark, watched>>

----------------------------------------------------------------------------
(* acquire_token and consume_tokens. *)

\* The unlocked first query.  A rate that differs from the stored one is
\* written at once; the time since last_update is credited at the new rate.
get_or_create_state(p) ==
    /\ pc[p] = "ensure"
    /\ IF ~created
       THEN /\ goto(p, "insert")
            /\ UNCHANGED <<bucket, taken>>
       ELSE /\ goto(p, "consume")
            /\ refill_rate' = rate[p]
            /\ max_tokens' = bucket_size(rate[p])
            /\ IF refill_rate # rate[p] THEN others_notice(p) ELSE UNCHANGED taken
            /\ UNCHANGED <<created, tokens, last_update>>
    /\ UNCHANGED <<time, rate, waiting, granted, mark, watched>>

\* The row starts with one token.
insert_state(p) ==
    /\ pc[p] = "insert" /\ ~created
    /\ created' = TRUE
    /\ tokens' = Minute /\ max_tokens' = bucket_size(rate[p]) /\ refill_rate' = rate[p]
    /\ last_update' = clock(p)
    /\ goto(p, "consume")
    /\ UNCHANGED <<time, rate, waiting, history>>

\* Another pod inserted it first: the error ends the rate, the loop calls again.
insert_conflict(p) ==
    /\ pc[p] = "insert" /\ created
    /\ return(p)
    /\ UNCHANGED <<bucket, time, rate, granted, mark, watched>>

\* Mutant: the bucket has no size.
refilled_uncapped(p) == tokens + (clock(p) - last_update) * refill_rate

\* What the bucket holds by p's clock.
refilled(p) ==
    LET t == tokens + (clock(p) - last_update) * refill_rate
    IN  IF t < max_tokens THEN t ELSE max_tokens

\* Mutant: the time stamp stays.
consume_tokens_keeps_stamp(p) ==
    /\ pc[p] = "consume" /\ refilled(p) >= Minute
    /\ tokens' = refilled(p) - Minute
    /\ granted' = granted + 1
    /\ watched' = IF mark = NoWindow THEN 0 ELSE watched + 1
    /\ others_notice(p)
    /\ goto(p, "send")
    /\ UNCHANGED <<created, max_tokens, refill_rate, last_update, time, rate, waiting, mark>>

consume_tokens(p) ==
    /\ pc[p] = "consume" /\ refilled(p) >= Minute
    /\ tokens' = refilled(p) - Minute
    /\ last_update' = clock(p)
    /\ granted' = granted + 1
    /\ watched' = IF mark = NoWindow THEN 0 ELSE watched + 1
    /\ others_notice(p)
    /\ goto(p, "send")
    /\ UNCHANGED <<created, max_tokens, refill_rate, time, rate, waiting, mark>>

\* Mutant: the failed attempt is stamped all the same.
no_token_stamps(p) ==
    /\ pc[p] = "consume" /\ refilled(p) < Minute
    /\ last_update' = clock(p)
    /\ goto(p, "waited?")
    /\ UNCHANGED <<created, tokens, max_tokens, refill_rate, time, rate, waiting, history>>

\* The lock is given up by a rollback: nothing changes.
no_token(p) ==
    /\ pc[p] = "consume" /\ refilled(p) < Minute
    /\ goto(p, "waited?")
    /\ UNCHANGED <<bucket, time, rate, waiting, history>>

give_up(p) ==
    /\ pc[p] = "waited?"
    /\ clock(p) - start[p] >= MaxWait
    /\ return(p)
    /\ UNCHANGED <<bucket, time, rate, granted, mark, watched>>

sleep(p) ==
    /\ pc[p] = "waited?"
    /\ clock(p) - start[p] < MaxWait
    /\ slept' = [slept EXCEPT ![p] = clock(p)]
    /\ goto(p, "asleep")
    /\ UNCHANGED <<bucket, time, rate, start, history>>

\* After the time of one token, or what is left of max_wait.
wake(p) ==
    /\ pc[p] = "asleep"
    /\ \/ (clock(p) - slept[p]) * rate[p] >= Minute
       \/ clock(p) - start[p] >= MaxWait
    /\ goto(p, "ensure")
    /\ UNCHANGED <<bucket, time, rate, waiting, history>>

----------------------------------------------------------------------------
\* A second passes.
tick ==
    /\ now < MaxTime
    /\ now' = now + 1
    /\ UNCHANGED <<bucket, skew, pc, rate, waiting, history>>

\* Any moment may be the start of the window that is watched.
watch ==
    /\ mark = NoWindow
    /\ mark' = now
    /\ watched' = 0
    /\ UNCHANGED <<bucket, time, pc, rate, waiting, granted, taken>>

pod_step(p) ==
    \/ dispatch_jobs_batch(p) \/ end_of_batch(p) \/ next_job(p)
    \/ get_or_create_state(p) \/ insert_state(p) \/ insert_conflict(p)
    \/ consume_tokens(p) \/ no_token(p)
    \/ give_up(p) \/ sleep(p) \/ wake(p)

Next == (\E p \in Pods : pod_step(p)) \/ tick \/ watch

Spec == Init /\ [][Next]_vars

----------------------------------------------------------------------------
(* Properties. *)

Burst == bucket_size(Fastest)
Synchronous == \A p \in Pods : skew[p] = 0

Steps == {"idle", "ensure", "insert", "consume", "waited?", "asleep", "send"}

\* The row is well formed: what the lock protects never goes below zero, even
\* when a pod whose clock is behind computes a negative elapsed time.
TypeOK ==
    /\ created \in BOOLEAN
    /\ tokens \in Nat /\ max_tokens \in Nat /\ refill_rate \in Rates \cup {0}
    /\ last_update \in Nat /\ now \in Nat
    /\ skew \in [Pods -> 0..MaxSkew]
    /\ pc \in [Pods -> Steps]
    /\ rate \in [Pods -> Rates]
    /\ start \in [Pods -> Nat] /\ slept \in [Pods -> Nat]
    /\ granted \in Nat /\ watched \in Nat
    /\ mark \in Nat \cup {NoWindow}
    /\ taken \in [Pods -> BOOLEAN]
    /\ \A p \in Pods : pc[p] \in {"consume", "waited?", "asleep", "send"} => created

\* In every window of time, all pods together get no more than a full bucket
\* and what the fastest rate in use refills, although they change the rate
\* under each other between ensuring the row and locking it.
RateRespected ==
    Synchronous /\ mark # NoWindow => watched * Minute <= Burst + Fastest * (now - mark)

\* Pods whose clocks differ, at one and the same rate: over the whole life of the bucket
\* they get at most what their fastest clock allows, although each may move
\* last_update back.
SkewBounded ==
    \A r \in Rates : (\A p \in Pods : rate[p] = r) =>
        granted * Minute <= Minute + r * (now + MaxSkew)

\* Waiting counts: a pod that waited for the time of one token while nobody
\* else touched the bucket gets it at its next attempt, however many attempts
\* it made meanwhile and whatever rate the row had before.
WaitIsCredited ==
    Synchronous =>
        \A p \in Pods :
            pc[p] = "consume" /\ ~taken[p] /\ (clock(p) - start[p]) * rate[p] >= Minute
                => refilled(p) >= Minute
=============================================================================
