-------------------------- MODULE RateLimiterProofs --------------------------
(***************************************************************************)
(* Theorems about the token bucket, for any number of pods, any rates and  *)
(* clocks, and without a bound on time.                                    *)
(***************************************************************************)
EXTENDS RateLimiter, TLAPS

----------------------------------------------------------------------------
(* Arithmetic.  The provers do not reason about products of variables: the *)
(* facts needed are stated once.                                           *)

LEMMA ProductInt == \A a, b \in Int : a * b \in Int
OBVIOUS

LEMMA ProductNat == \A a, b \in Nat : a * b \in Nat
OBVIOUS

LEMMA ProductMonotone == \A a, b, c \in Nat : a <= b => c * a <= c * b
OBVIOUS

LEMMA ProductSum == \A a, b, c \in Int : (a + b) * c = a * c + b * c /\ (a - b) * c = a * c - b * c
OBVIOUS

----------------------------------------------------------------------------
(* Type correctness. *)

LEMMA BucketSize ==
  ASSUME NEW r \in Nat
  PROVE  bucket_size(r) \in Nat /\ bucket_size(r) >= Minute
BY TimesAssumption DEF bucket_size

LEMMA RefilledInt ==
  ASSUME NEW p \in Pods, TypeOK
  PROVE  refilled(p) \in Int /\ clock(p) \in Nat
<1>1. clock(p) \in Nat
  BY TimesAssumption DEF TypeOK, clock
<1>2. refill_rate \in Int /\ last_update \in Int /\ tokens \in Int /\ max_tokens \in Int
  BY RatesAssumption DEF TypeOK
<1>3. (clock(p) - last_update) * refill_rate \in Int
  BY <1>1, <1>2, ProductInt
<1>4. QED
  BY <1>1, <1>2, <1>3 DEF refilled

LEMMA RateNat ==
  ASSUME NEW p \in Pods, TypeOK
  PROVE  rate[p] \in Rates /\ rate[p] \in Nat
<1>1. rate \in [Pods -> Rates]
  BY DEF TypeOK
<1>2. rate[p] \in Rates
  BY <1>1
<1>3. \A r \in Rates : r \in Nat
  BY ONLY RatesAssumption
<1>4. QED
  BY <1>2, <1>3

LEMMA TypeInit == Init => TypeOK
<1> SUFFICES ASSUME Init PROVE TypeOK
  OBVIOUS
<1>1. created \in BOOLEAN /\ taken \in [Pods -> BOOLEAN]
  BY Zenon DEF Init
<1>2. QED
  BY <1>1, RatesAssumption, TimesAssumption DEF Init, TypeOK, Steps, NoWindow

LEMMA TypeStep == TypeOK /\ [Next]_vars => TypeOK'
<1> SUFFICES ASSUME TypeOK, [Next]_vars PROVE TypeOK'
  OBVIOUS
<1> USE RatesAssumption, TimesAssumption DEF TypeOK, Steps, bucket, time, waiting, history, goto, return
<1>1. ASSUME NEW p \in Pods, pod_step(p) PROVE TypeOK'
  <2> clock(p) \in Nat /\ refilled(p) \in Int
    BY RefilledInt
  <2> bucket_size(rate[p]) \in Nat
    BY RateNat, BucketSize
  <2>0. taken' \in [Pods -> BOOLEAN]
    <3>1. \/ taken' = taken
          \/ taken' = [taken EXCEPT ![p] = FALSE]
          \/ taken' = [q \in Pods |-> taken[q] \/ q # p]
      BY <1>1 DEF pod_step, dispatch_jobs_batch, end_of_batch, next_job, get_or_create_state, insert_state,
         insert_conflict, consume_tokens, no_token, give_up, sleep, wake, others_notice
    <3>2. taken \in [Pods -> BOOLEAN]
      BY DEF TypeOK
    <3>3. QED
      BY ONLY <3>1, <3>2, Zenon
  <2>1. CASE dispatch_jobs_batch(p)
    BY <2>0, <2>1 DEF dispatch_jobs_batch
  <2>2. CASE end_of_batch(p) \/ next_job(p)
    BY <2>0, <2>2 DEF end_of_batch, next_job
  <2>3. CASE get_or_create_state(p)
    BY <2>0, <2>3 DEF get_or_create_state
  <2>4. CASE insert_state(p)
    BY <2>4 DEF insert_state
  <2>5. CASE insert_conflict(p)
    BY <2>0, <2>5 DEF insert_conflict
  <2>6. CASE consume_tokens(p)
    BY <2>0, <2>6 DEF consume_tokens
  <2>7. CASE no_token(p) \/ give_up(p) \/ sleep(p) \/ wake(p)
    BY <2>0, <2>7 DEF no_token, give_up, sleep, wake
  <2>8. QED
    BY <1>1, <2>1, <2>2, <2>3, <2>4, <2>5, <2>6, <2>7 DEF pod_step
<1>2. CASE tick
  BY <1>2 DEF tick
<1>3. CASE watch
  BY <1>3 DEF watch
<1>4. CASE UNCHANGED vars
  BY <1>4 DEF vars
<1>5. QED
  BY <1>1, <1>2, <1>3, <1>4 DEF Next

\* The row and the pods are well formed; in particular the tokens never go below zero,
\* although a pod whose clock is behind computes a negative elapsed time (consume_tokens).
THEOREM TypeCorrect == Spec => []TypeOK
<1>1. QED
  BY TypeInit, TypeStep, PTL DEF Spec

----------------------------------------------------------------------------
(* RateRespected.  What the bucket could hold by now if it were filled at  *)
(* the fastest rate, together with what was handed out in the window, is   *)
(* bounded: a tick adds at most Fastest to both sides, a token moves from  *)
(* the one summand to the other, and a change of the rate moves nothing.   *)

Fill(since) == Fastest * (now - since)

RateInv ==
    Synchronous =>
        /\ last_update <= now
        /\ max_tokens <= Burst
        /\ ~created => watched = 0
        /\ mark # NoWindow =>
              /\ mark <= now
              /\ created => \/ watched * Minute + tokens + Fill(last_update) <= Burst + Fill(mark)
                            \/ watched * Minute <= Fill(mark)

LEMMA FillFacts ==
  ASSUME TypeOK, NEW since \in Nat, since <= now
  PROVE  /\ Fill(since) \in Nat
         /\ Fastest * ((now + 1) - since) = Fill(since) + Fastest
         /\ \A r \in Rates \cup {0} : (now - since) * r <= Fill(since)
<1>1. now - since \in Nat /\ Fastest \in Nat /\ \A r \in Rates \cup {0} : r \in Nat /\ r <= Fastest
  BY RatesAssumption DEF TypeOK
<1>2. Fill(since) \in Nat
  BY <1>1, ProductNat DEF Fill
<1>3. Fastest * ((now + 1) - since) = Fill(since) + Fastest
  <2>1. (now + 1) - since = (now - since) + 1
    BY <1>1 DEF TypeOK
  <2>2. Fastest * ((now - since) + 1) = Fastest * (now - since) + Fastest
    BY <1>1
  <2>3. QED
    BY <2>1, <2>2 DEF Fill
<1>4. \A r \in Rates \cup {0} : (now - since) * r <= Fill(since)
  <2> SUFFICES ASSUME NEW r \in Rates \cup {0} PROVE (now - since) * r <= Fill(since)
    OBVIOUS
  <2>1. (now - since) * r <= (now - since) * Fastest
    BY <1>1, ProductMonotone
  <2>2. (now - since) * Fastest = Fastest * (now - since)
    BY <1>1
  <2>3. QED
    BY <2>1, <2>2 DEF Fill
<1>5. QED
  BY <1>2, <1>3, <1>4

LEMMA BurstFacts ==
  /\ Burst \in Nat /\ Burst >= Minute /\ Minute \in Nat
  /\ \A r \in Rates : r \in Nat /\ bucket_size(r) \in Nat /\ bucket_size(r) <= Burst
BY RatesAssumption, TimesAssumption DEF Burst, bucket_size

LEMMA RateInit == Init => RateInv
<1> SUFFICES ASSUME Init PROVE RateInv
  OBVIOUS
<1>1. QED
  BY BurstFacts DEF Init, RateInv

LEMMA RateStep == TypeOK /\ RateInv /\ [Next]_vars => RateInv'
<1> SUFFICES ASSUME TypeOK, RateInv, [Next]_vars, Synchronous' PROVE RateInv'
  BY DEF RateInv
<1>0. skew' = skew /\ TypeOK'
  <2>1. skew' = skew
    BY DEF Next, vars, pod_step, dispatch_jobs_batch, end_of_batch, next_job, get_or_create_state, insert_state,
       insert_conflict, consume_tokens, no_token, give_up, sleep, wake, tick, watch, time
  <2>2. QED
    BY <2>1, TypeStep
<1>1. /\ Synchronous
      /\ last_update <= now /\ max_tokens <= Burst
      /\ ~created => watched = 0
      /\ mark # NoWindow =>
            /\ mark <= now
            /\ created => \/ watched * Minute + tokens + Fill(last_update) <= Burst + Fill(mark)
                          \/ watched * Minute <= Fill(mark)
  BY <1>0 DEF RateInv, Synchronous
<1>2. /\ now \in Nat /\ last_update \in Nat /\ tokens \in Nat /\ watched \in Nat /\ max_tokens \in Nat
      /\ mark \in Nat \cup {NoWindow} /\ refill_rate \in Rates \cup {0}
      /\ Fastest \in Nat
  BY RatesAssumption DEF TypeOK
<1>3. watched * Minute \in Nat
  BY <1>2, BurstFacts, ProductNat
<1>4. Fill(last_update) \in Nat /\ (mark # NoWindow => Fill(mark) \in Nat)
  BY <1>1, <1>2, FillFacts
<1>5. ASSUME UNCHANGED <<created, tokens, max_tokens, last_update, now, mark, watched>>
      PROVE  RateInv'
  BY <1>1, <1>5 DEF RateInv, Fill, Burst
<1>6. ASSUME NEW p \in Pods, get_or_create_state(p) PROVE RateInv'
  <2>1. UNCHANGED <<created, tokens, last_update, now, mark, watched>>
    BY <1>6 DEF get_or_create_state, bucket, time
  <2>2. max_tokens' <= Burst
    BY <1>1, <1>6, BurstFacts DEF get_or_create_state, bucket, TypeOK
  <2>3. QED
    BY <1>1, <2>1, <2>2 DEF RateInv, Fill, Burst
<1>7. ASSUME NEW p \in Pods, insert_state(p) PROVE RateInv'
  <2>1. /\ ~created /\ created' /\ tokens' = Minute /\ last_update' = now /\ max_tokens' <= Burst
        /\ UNCHANGED <<now, mark, watched>>
    BY <1>1, <1>2, <1>7, BurstFacts DEF insert_state, time, history, TypeOK, clock, Synchronous
  <2>2. watched = 0 /\ watched' * Minute = 0
    BY <1>1, <2>1, BurstFacts
  <2>3. Fill(last_update)' = 0
    BY <1>2, <2>1 DEF Fill
  <2>4. mark # NoWindow => Fill(mark)' = Fill(mark)
    BY <2>1 DEF Fill
  <2>5. QED
    BY <1>1, <1>2, <1>4, <2>1, <2>2, <2>3, <2>4, BurstFacts DEF RateInv, Burst
<1>8. ASSUME NEW p \in Pods, consume_tokens(p) PROVE RateInv'
  <2>1. clock(p) = now
    BY <1>1, <1>2 DEF clock, Synchronous, TypeOK
  <2>2. /\ created /\ tokens' = refilled(p) - Minute /\ last_update' = now
        /\ watched' = (IF mark = NoWindow THEN 0 ELSE watched + 1)
        /\ UNCHANGED <<created, max_tokens, now, mark>>
    BY <1>8, <2>1 DEF consume_tokens, TypeOK, time
  <2>3. refilled(p) \in Int /\ refilled(p) <= max_tokens /\ refilled(p) <= tokens + Fill(last_update)
    <3>1. (now - last_update) * refill_rate <= Fill(last_update)
      BY <1>1, <1>2, FillFacts
    <3>2. (now - last_update) * refill_rate \in Int
      BY <1>2, ProductInt, RatesAssumption
    <3>3. QED
      BY <1>2, <1>4, <2>1, <3>1, <3>2 DEF refilled
  <2>4. Fill(last_update)' = 0
    BY <1>2, <2>2 DEF Fill
  <2>5. mark # NoWindow => Fill(mark)' = Fill(mark) /\ watched' * Minute = watched * Minute + Minute
    <3>1. (watched + 1) * Minute = watched * Minute + Minute
      BY <1>2, BurstFacts
    <3>2. QED
      BY <2>2, <3>1 DEF Fill
  <2>6. mark # NoWindow =>
            \/ watched' * Minute + tokens' + Fill(last_update)' <= Burst + Fill(mark)'
            \/ watched' * Minute <= Fill(mark)'
    BY <1>1, <1>2, <1>3, <1>4, <2>2, <2>3, <2>4, <2>5, BurstFacts
  <2>7. QED
    BY <1>1, <1>2, <2>2, <2>6 DEF RateInv, Burst
<1>9. CASE tick
  <2>1. now' = now + 1 /\ UNCHANGED <<created, tokens, max_tokens, last_update, mark, watched>>
    BY <1>9 DEF tick, bucket, history
  <2>2. Fill(last_update)' = Fill(last_update) + Fastest
    BY <1>1, <1>2, <2>1, FillFacts DEF Fill
  <2>3. mark # NoWindow => Fill(mark)' = Fill(mark) + Fastest
    BY <1>1, <1>2, <2>1, FillFacts DEF Fill
  <2>4. mark # NoWindow /\ created =>
            \/ watched' * Minute + tokens' + Fill(last_update)' <= Burst + Fill(mark)'
            \/ watched' * Minute <= Fill(mark)'
    BY <1>1, <1>2, <1>3, <1>4, <2>1, <2>2, <2>3, BurstFacts
  <2>5. QED
    BY <1>1, <1>2, <2>1, <2>4 DEF RateInv, Burst
<1>10. CASE watch
  <2>1. mark' = now /\ watched' = 0 /\ UNCHANGED <<created, tokens, max_tokens, last_update, now>>
    BY <1>10 DEF watch, bucket, time
  <2>2. Fill(mark)' = 0 /\ watched' * Minute = 0
    BY <1>2, <2>1, BurstFacts DEF Fill
  <2>3. QED
    BY <1>1, <1>2, <2>1, <2>2 DEF RateInv, Burst
<1>11. QED
  BY <1>5, <1>6, <1>7, <1>8, <1>9, <1>10
     DEF Next, vars, pod_step, dispatch_jobs_batch, end_of_batch, next_job, insert_conflict, no_token, give_up,
         sleep, wake, bucket, time, history

\* In every window of time all pods together get at most a full bucket and what the fastest
\* rate refills (consume_tokens under the row lock), although rates change between the
\* transaction that ensures the row and the one that takes the token.
THEOREM RateIsRespected == Spec => []RateRespected
<1>1. TypeOK /\ RateInv => RateRespected
  <2> SUFFICES ASSUME TypeOK, RateInv, Synchronous, mark # NoWindow
               PROVE  watched * Minute <= Burst + Fastest * (now - mark)
    BY DEF RateRespected
  <2>1. /\ mark <= now /\ last_update <= now /\ mark \in Nat /\ last_update \in Nat /\ tokens \in Nat
        /\ watched \in Nat
    BY DEF RateInv, TypeOK
  <2>2. Fill(mark) \in Nat /\ Fill(last_update) \in Nat /\ watched * Minute \in Nat
    BY <2>1, FillFacts, ProductNat, BurstFacts
  <2>3. ~created => watched * Minute = 0
    BY BurstFacts DEF RateInv
  <2>4. watched * Minute <= Burst + Fill(mark)
    BY <2>1, <2>2, <2>3, BurstFacts DEF RateInv
  <2>5. QED
    BY <2>4 DEF Fill
<1>2. QED
  BY <1>1, TypeInit, TypeStep, RateInit, RateStep, PTL DEF Spec

----------------------------------------------------------------------------
(* SkewBounded.  At one rate the bucket keeps an account: the tokens it    *)
(* handed out and the ones it holds are at most the first one and what was *)
(* refilled up to last_update, also when that is moved back.               *)

SkewInv ==
    /\ last_update <= now + MaxSkew
    /\ ~created => granted = 0
    /\ \A r \in Rates : (\A p \in Pods : rate[p] = r) /\ created =>
          refill_rate = r /\ granted * Minute + tokens <= Minute + last_update * r

LEMMA SkewInit == Init => SkewInv
BY TimesAssumption DEF Init, SkewInv

LEMMA RateUnchanged == [Next]_vars => rate' = rate
BY DEF Next, vars, pod_step, dispatch_jobs_batch, end_of_batch, next_job, get_or_create_state, insert_state,
       insert_conflict, consume_tokens, no_token, give_up, sleep, wake, tick, watch

LEMMA SkewStep == TypeOK /\ SkewInv /\ [Next]_vars => SkewInv'
<1> SUFFICES ASSUME TypeOK, SkewInv, [Next]_vars PROVE SkewInv'
  OBVIOUS
<1>1. rate' = rate
  BY RateUnchanged
<1>2. /\ now \in Nat /\ last_update \in Nat /\ tokens \in Nat /\ granted \in Nat /\ max_tokens \in Nat
      /\ MaxSkew \in Nat /\ Minute \in Nat
      /\ \A r \in Rates : r \in Nat
  BY RatesAssumption, TimesAssumption DEF TypeOK
<1>3. ASSUME NEW p \in Pods PROVE clock(p) \in Nat /\ clock(p) <= now + MaxSkew
  BY <1>2 DEF clock, TypeOK
<1>4. ASSUME UNCHANGED <<created, tokens, refill_rate, last_update, granted>>, now' \in {now, now + 1}
      PROVE  SkewInv'
  <2>1. last_update' <= now' + MaxSkew
    <3>1. last_update <= now + MaxSkew
      BY DEF SkewInv
    <3>2. CASE now' = now
      BY <1>4, <3>1, <3>2
    <3>3. CASE now' = now + 1
      BY <1>2, <1>4, <3>1, <3>3
    <3>4. QED
      BY <1>4, <3>2, <3>3
  <2>2. /\ ~created' => granted' = 0
        /\ \A r \in Rates : (\A p \in Pods : rate'[p] = r) /\ created' =>
              refill_rate' = r /\ granted' * Minute + tokens' <= Minute + last_update' * r
    BY <1>1, <1>4 DEF SkewInv
  <2>3. QED
    BY <2>1, <2>2 DEF SkewInv
<1>5. ASSUME NEW p \in Pods, get_or_create_state(p) PROVE SkewInv'
  <2>1. /\ UNCHANGED <<created, tokens, last_update, granted, now>>
        /\ created => refill_rate' = rate[p]
        /\ ~created => refill_rate' = refill_rate
    BY <1>5 DEF get_or_create_state, bucket, time
  <2>2. QED
    BY <1>1, <2>1 DEF SkewInv
<1>6. ASSUME NEW p \in Pods, insert_state(p) PROVE SkewInv'
  <2>1. /\ ~created /\ created' /\ tokens' = Minute /\ refill_rate' = rate[p] /\ last_update' = clock(p)
        /\ UNCHANGED <<granted, now>>
    BY <1>6 DEF insert_state, time, history
  <2>2. granted' * Minute = 0
    BY <1>2, <2>1 DEF SkewInv
  <2>3. ASSUME NEW r \in Rates PROVE clock(p) * r \in Nat
    BY <1>2, <1>3, <2>3, ProductNat
  <2>4. QED
    BY <1>1, <1>2, <1>3, <2>1, <2>2, <2>3 DEF SkewInv
<1>7. ASSUME NEW p \in Pods, consume_tokens(p) PROVE SkewInv'
  <2>1. /\ created /\ created' /\ tokens' = refilled(p) - Minute /\ last_update' = clock(p)
        /\ granted' = granted + 1 /\ UNCHANGED <<refill_rate, now>>
    BY <1>7 DEF consume_tokens, TypeOK, time
  <2>2. ASSUME NEW r \in Rates, \A q \in Pods : rate[q] = r
        PROVE  refill_rate = r /\ granted' * Minute + tokens' <= Minute + last_update' * r
    <3>1. refill_rate = r /\ granted * Minute + tokens <= Minute + last_update * r
      BY <2>1, <2>2 DEF SkewInv
    <3>2. (clock(p) - last_update) * r = clock(p) * r - last_update * r
      BY <1>2, <1>3, ProductSum
    <3>3. clock(p) * r \in Int /\ last_update * r \in Int /\ granted * Minute \in Int
      BY <1>2, <1>3, ProductInt
    <3>4. refilled(p) <= tokens + (clock(p) * r - last_update * r) /\ refilled(p) \in Int
      BY <1>2, <3>1, <3>2, <3>3 DEF refilled
    <3>5. (granted + 1) * Minute = granted * Minute + Minute
      BY <1>2
    <3>6. QED
      BY <1>2, <2>1, <3>1, <3>3, <3>4, <3>5
  <2>3. QED
    BY <1>1, <1>3, <2>1, <2>2 DEF SkewInv
<1>8. QED
  BY <1>4, <1>5, <1>6, <1>7, <1>2
     DEF Next, vars, pod_step, dispatch_jobs_batch, end_of_batch, next_job, insert_conflict, no_token, give_up,
         sleep, wake, tick, watch, bucket, time, history

\* Pods whose clocks differ by at most MaxSkew get, at one rate, no more than the fastest
\* clock allows over the whole life of the bucket (consume_tokens).
THEOREM SkewIsBounded == Spec => []SkewBounded
<1>1. TypeOK /\ SkewInv => SkewBounded
  <2> SUFFICES ASSUME TypeOK, SkewInv, NEW r \in Rates, \A p \in Pods : rate[p] = r
               PROVE  granted * Minute <= Minute + r * (now + MaxSkew)
    BY DEF SkewBounded
  <2>1. /\ now + MaxSkew \in Nat /\ last_update \in Nat /\ tokens \in Nat /\ r \in Nat /\ Minute \in Nat
        /\ granted \in Nat /\ last_update <= now + MaxSkew
    BY RatesAssumption, TimesAssumption DEF TypeOK, SkewInv
  <2>2. r * last_update <= r * (now + MaxSkew) /\ r * last_update = last_update * r
    BY <2>1, ProductMonotone
  <2>3. r * (now + MaxSkew) \in Nat /\ last_update * r \in Nat /\ granted * Minute \in Nat
    BY <2>1, ProductNat
  <2>4. CASE created
    <3>1. granted * Minute + tokens <= Minute + last_update * r
      BY <2>4 DEF SkewInv
    <3>2. QED
      BY <2>1, <2>2, <2>3, <3>1
  <2>5. CASE ~created
    BY <2>1, <2>3, <2>5 DEF SkewInv
  <2>6. QED
    BY <2>4, <2>5
<1>2. QED
  BY <1>1, TypeInit, TypeStep, SkewInit, SkewStep, PTL DEF Spec

----------------------------------------------------------------------------
(* WaitIsCredited.  Since a pod began to wait, either somebody took its    *)
(* time away, or a whole token is in the row, or the row's stamp is older  *)
(* than the wait.                                                          *)

Asking == {"ensure", "insert", "consume", "waited?", "asleep"}

WaitInv ==
    Synchronous =>
        /\ last_update <= now
        /\ created => max_tokens = bucket_size(refill_rate)
        /\ \A p \in Pods :
              /\ start[p] <= now
              /\ pc[p] \in Asking /\ ~taken[p] =>
                    /\ created => tokens >= Minute \/ last_update <= start[p]
                    /\ pc[p] = "consume" => refill_rate = rate[p]

LEMMA WaitInit == Init => WaitInv
BY DEF Init, WaitInv

LEMMA WaitStep == TypeOK /\ WaitInv /\ [Next]_vars => WaitInv'
<1> SUFFICES ASSUME TypeOK, WaitInv, [Next]_vars, Synchronous' PROVE WaitInv'
  BY DEF WaitInv
<1>1. skew' = skew /\ rate' = rate
  BY RateUnchanged
     DEF Next, vars, pod_step, dispatch_jobs_batch, end_of_batch, next_job, get_or_create_state, insert_state,
         insert_conflict, consume_tokens, no_token, give_up, sleep, wake, tick, watch, time
<1>2. /\ Synchronous
      /\ last_update <= now
      /\ created => max_tokens = bucket_size(refill_rate)
      /\ \A p \in Pods :
            /\ start[p] <= now
            /\ pc[p] \in Asking /\ ~taken[p] =>
                  /\ created => tokens >= Minute \/ last_update <= start[p]
                  /\ pc[p] = "consume" => refill_rate = rate[p]
  BY <1>1 DEF WaitInv, Synchronous
<1>3. /\ now \in Nat /\ last_update \in Nat /\ Minute \in Nat
      /\ \A p \in Pods : clock(p) = now
      /\ pc \in [Pods -> Steps] /\ start \in [Pods -> Nat]
  BY <1>2, TimesAssumption DEF TypeOK, clock, Synchronous
<1>4. taken \in [Pods -> BOOLEAN]
  BY DEF TypeOK
<1> USE DEF goto, bucket, time, waiting, history, Asking
<1>5. ASSUME NEW p \in Pods, dispatch_jobs_batch(p) \/ next_job(p) PROVE WaitInv'
  BY <1>1, <1>2, <1>3, <1>4, <1>5 DEF dispatch_jobs_batch, next_job, WaitInv
<1>6. ASSUME NEW p \in Pods, end_of_batch(p) \/ insert_conflict(p) \/ give_up(p) PROVE WaitInv'
  BY <1>1, <1>2, <1>3, <1>4, <1>6 DEF end_of_batch, insert_conflict, give_up, return, WaitInv
<1>7. ASSUME NEW p \in Pods, no_token(p) \/ sleep(p) \/ wake(p) PROVE WaitInv'
  BY <1>1, <1>2, <1>3, <1>4, <1>7 DEF no_token, sleep, wake, WaitInv
<1>8. ASSUME NEW p \in Pods, get_or_create_state(p) PROVE WaitInv'
  BY <1>1, <1>2, <1>3, <1>4, <1>8 DEF get_or_create_state, others_notice, WaitInv
<1>9. ASSUME NEW p \in Pods, insert_state(p) PROVE WaitInv'
  BY <1>1, <1>2, <1>3, <1>4, <1>9 DEF insert_state, WaitInv, TypeOK
<1>10. ASSUME NEW p \in Pods, consume_tokens(p) PROVE WaitInv'
  BY <1>1, <1>2, <1>3, <1>4, <1>10 DEF consume_tokens, others_notice, WaitInv, TypeOK
<1>11. CASE tick
  BY <1>1, <1>2, <1>3, <1>4, <1>11 DEF tick, WaitInv
<1>12. CASE watch \/ UNCHANGED vars
  BY <1>1, <1>2, <1>3, <1>4, <1>12 DEF watch, vars, WaitInv
<1>13. QED
  BY <1>5, <1>6, <1>7, <1>8, <1>9, <1>10, <1>11, <1>12 DEF Next, pod_step

\* A pod that waited for the time of one token while no other pod touched the bucket gets
\* it at its next attempt (acquire_token), however often it tried and was refused.
THEOREM WaitingIsCredited == Spec => []WaitIsCredited
<1>1. TypeOK /\ WaitInv => WaitIsCredited
  <2> SUFFICES ASSUME TypeOK, WaitInv, Synchronous, NEW p \in Pods,
                      pc[p] = "consume", ~taken[p], (clock(p) - start[p]) * rate[p] >= Minute
               PROVE  refilled(p) >= Minute
    BY DEF WaitIsCredited
  <2>1. /\ now \in Nat /\ last_update \in Nat /\ tokens \in Nat /\ Minute \in Nat /\ start[p] \in Nat
        /\ rate[p] \in Nat /\ clock(p) = now /\ created
    BY RateNat, TimesAssumption DEF TypeOK, clock, Synchronous
  <2>2. /\ last_update <= now /\ start[p] <= now /\ refill_rate = rate[p]
        /\ max_tokens = bucket_size(rate[p])
        /\ tokens >= Minute \/ last_update <= start[p]
    BY <2>1 DEF WaitInv, Asking
  <2>3. max_tokens >= Minute /\ max_tokens \in Nat
    BY <2>1, <2>2, BucketSize
  <2>4. (now - last_update) * rate[p] \in Nat
    BY <2>1, <2>2, ProductNat
  <2>5. last_update <= start[p] => (now - last_update) * rate[p] >= Minute
    <3> SUFFICES ASSUME last_update <= start[p] PROVE (now - last_update) * rate[p] >= Minute
      OBVIOUS
    <3>1. rate[p] * (now - start[p]) <= rate[p] * (now - last_update)
      BY <2>1, <2>2, ProductMonotone
    <3>2. /\ rate[p] * (now - start[p]) = (now - start[p]) * rate[p]
          /\ rate[p] * (now - last_update) = (now - last_update) * rate[p]
      BY <2>1, <2>2
    <3>3. (now - start[p]) * rate[p] \in Nat
      BY <2>1, <2>2, ProductNat
    <3>4. QED
      BY <2>1, <2>4, <3>1, <3>2, <3>3
  <2>6. QED
    BY <2>1, <2>2, <2>3, <2>4, <2>5 DEF refilled
<1>2. QED
  BY <1>1, TypeInit, TypeStep, WaitInit, WaitStep, PTL DEF Spec
=============================================================================
