--------------------------- MODULE DeliveryProofs ---------------------------
(***************************************************************************)
(* Theorems about Delivery for any number of records, tasks, steps and     *)
(* attempts.                                                               *)
(***************************************************************************)
EXTENDS Delivery, WellFoundedInduction, TLAPS

\* A pool of tasks exists, or every task is over.
LEMMA StrayStep == NoStrayTasks /\ [Next]_vars => NoStrayTasks'
<1> SUFFICES ASSUME NoStrayTasks, [Next]_vars PROVE NoStrayTasks'
  OBVIOUS
<1> USE DEF NoStrayTasks, InPool
\* A step of a task, a shutdown or a cancellation happens in a pool or while it drains.
<1>1. ASSUME NEW w \in Workers, Task(w) PROVE NoStrayTasks'
  BY <1>1 DEF Task, pull, arrive, respond, fail, cancelled
<1>2. CASE shutdown \/ cancel_tasks
  BY <1>2 DEF shutdown, cancel_tasks
\* What starts a pool enters it.
<1>3. CASE resolve
  BY <1>3 DEF resolve, close_with, pool
<1>4. CASE send
  BY <1>4 DEF send, close_with, pool
\* What leaves it waits for every task.
<1>5. CASE step_done \/ step_raises \/ send_done \/ send_raises
  BY <1>5 DEF step_done, step_raises, send_done, send_raises, stop_pool, all_over
\* The others leave the tasks alone and enter no pool.
<1>6. CASE check_record_type
  BY <1>6 DEF check_record_type, close_with, pool
<1>7. CASE health_check \/ close \/ arrive_late
  BY <1>7 DEF health_check, close_with, close, arrive_late, pool
<1>8. CASE UNCHANGED vars
  BY <1>8 DEF vars
<1>9. QED
  BY <1>1, <1>2, <1>3, <1>4, <1>5, <1>6, <1>7, <1>8 DEF Next, Run

\* No task outlives its pool: a retry, the release of the claims and the closing of the
\* client start with no request of an earlier attempt in flight, whichever tasks fail, in
\* whichever order, and whenever the worker is told to stop.
THEOREM NoTaskStrays == Spec => []NoStrayTasks
<1>1. Init => NoStrayTasks
  BY DEF Init, NoPool, NoStrayTasks
<1>2. QED
  BY <1>1, StrayStep, PTL DEF Spec

----------------------------------------------------------------------------
(* Filtering a list.  What a recursive function computes is shown by the   *)
(* least number for which it would fail.                                   *)

LEMMA NatMin ==
  ASSUME NEW T \in SUBSET Nat, T # {}
  PROVE  \E m \in T : \A k \in T : m <= k
<1> DEFINE Less == {p \in Nat \X Nat : p[1] < p[2]}
<1>1. IsWellFoundedOn(Less, Nat)
  BY NatLessThanWellFounded DEF OpToRel
<1>2. \A k, m \in Nat : <<k, m>> \notin Less => m <= k
  <2> SUFFICES ASSUME NEW k \in Nat, NEW m \in Nat, k < m PROVE <<k, m>> \in Less
    OBVIOUS
  <2>1. <<k, m>> \in Nat \X Nat /\ <<k, m>>[1] = k /\ <<k, m>>[2] = m
    OBVIOUS
  <2>2. QED
    BY <2>1
<1> HIDE DEF Less
<1>3. PICK m \in T : \A k \in T : <<k, m>> \notin Less
  BY <1>1, WFMin
<1>4. \A k \in T : m <= k
  BY <1>2, <1>3
<1>5. QED
  BY <1>4

LEMMA NatSetInduction ==
  ASSUME NEW S, 0 \in S, \A n \in Nat : n \in S => n + 1 \in S
  PROVE  Nat \subseteq S
<1> SUFFICES ASSUME Nat \ S # {} PROVE FALSE
  OBVIOUS
<1>1. PICK m \in Nat \ S : \A k \in Nat \ S : m <= k
  BY NatMin
<1>2. m - 1 \in Nat /\ m - 1 \in S
  BY <1>1
<1>3. QED
  BY <1>1, <1>2

\* The list filtered up to a position, from the same up to the one before.
FilterStep(list, out, g, i) ==
  IF i = 0 THEN <<>> ELSE IF list[i] \in out THEN g[i - 1] ELSE Append(g[i - 1], list[i])

\* g filters the first n members.
Filters(list, out, n, g) == g = [i \in 0..n |-> FilterStep(list, out, g, i)]

LEMMA FilterValue ==
  ASSUME NEW list, NEW out, NEW n \in Nat, NEW g, Filters(list, out, n, g)
  PROVE  \A i \in 0..n : g[i] = FilterStep(list, out, g, i)
BY DEF Filters

LEMMA FilterExists ==
  ASSUME NEW list, NEW out, NEW n \in Nat
  PROVE  \E g : Filters(list, out, n, g)
<1> DEFINE S == {m \in Nat : \E g : Filters(list, out, m, g)}
<1>1. 0 \in S
  <2>1. Filters(list, out, 0, [i \in 0..0 |-> <<>>])
    BY DEF Filters, FilterStep
  <2>2. QED
    BY <2>1
<1>2. ASSUME NEW m \in Nat, m \in S PROVE m + 1 \in S
  <2>1. PICK g : Filters(list, out, m, g)
    BY <1>2
  <2> DEFINE h == [i \in 0..(m + 1) |-> IF i <= m THEN g[i] ELSE FilterStep(list, out, g, m + 1)]
  <2>2. h = [i \in 0..(m + 1) |-> h[i]]
    OBVIOUS
  <2>3. h[m + 1] = FilterStep(list, out, g, m + 1) /\ \A i \in 0..m : h[i] = g[i]
    OBVIOUS
  <2> HIDE DEF h
  <2>4. \A i \in 0..(m + 1) : FilterStep(list, out, h, i) = FilterStep(list, out, g, i)
    <3>1. \A i \in 0..(m + 1) : i # 0 => i - 1 \in 0..m
      OBVIOUS
    <3>2. QED
      BY <2>3, <3>1 DEF FilterStep
  <2>5. \A i \in 0..(m + 1) : h[i] = FilterStep(list, out, h, i)
    <3>1. \A i \in 0..m : g[i] = FilterStep(list, out, g, i)
      BY <2>1, FilterValue
    <3>2. \A i \in 0..(m + 1) : i \in 0..m \/ i = m + 1
      OBVIOUS
    <3>3. QED
      BY <2>3, <2>4, <3>1, <3>2
  <2>6. Filters(list, out, m + 1, h)
    BY <2>2, <2>5 DEF Filters
  <2>7. QED
    BY <2>6
<1>3. n \in S
  <2> HIDE DEF S
  <2> QED
    BY <1>1, <1>2, NatSetInduction
<1>4. QED
  BY <1>3

Rising(list) == \A i, k \in DOMAIN list : i < k => list[i] < list[k]

\* What is kept rises when it does in the list.
RisingBut(list, out) ==
  \A i, k \in DOMAIN list : i < k /\ list[i] \notin out /\ list[k] \notin out => list[i] < list[k]

\* The result of filtering: the members that are kept, in order.
LEMMA WithoutFacts ==
  ASSUME NEW list \in Seq(Nat), NEW out, RisingBut(list, out)
  PROVE  /\ without(list, out) \in Seq(Nat)
         /\ Len(without(list, out)) <= Len(list)
         /\ Range(without(list, out)) = Range(list) \ out
         /\ Rising(without(list, out))
<1>l. Len(list) \in Nat /\ DOMAIN list = 1..Len(list)
  OBVIOUS
<1>1. \E g : Filters(list, out, Len(list), g)
  BY <1>l, FilterExists
<1>2. PICK g : Filters(list, out, Len(list), g) /\ without(list, out) = g[Len(list)]
  BY <1>1 DEF without, Filters, FilterStep
<1>3. \A i \in 0..Len(list) : g[i] = FilterStep(list, out, g, i)
  BY <1>l, <1>2, FilterValue
<1> DEFINE Part(n) == {list[i] : i \in 1..n} \ out
           Good(n) == /\ g[n] \in Seq(Nat) /\ Len(g[n]) <= n
                      /\ Range(g[n]) = Part(n)
                      /\ Rising(g[n])
           S == {n \in Nat : n <= Len(list) => Good(n)}
<1>4. 0 \in S
  <2>1. g[0] = <<>>
    BY <1>l, <1>3 DEF FilterStep
  <2>2. g[0] \in Seq(Nat) /\ Len(g[0]) = 0 /\ DOMAIN g[0] = {}
    BY <2>1
  <2>3. Range(g[0]) = {} /\ Rising(g[0])
    BY <2>2 DEF Range, Rising
  <2>4. Part(0) = {}
    OBVIOUS
  <2> HIDE DEF Part
  <2>5. Len(g[0]) <= 0 /\ Range(g[0]) = Part(0)
    BY <2>2, <2>3, <2>4
  <2>6. Good(0)
    BY <2>2, <2>3, <2>5
  <2> HIDE DEF Good
  <2>7. QED
    BY <2>6
<1>5. ASSUME NEW n \in Nat, n \in S PROVE n + 1 \in S
  <2> SUFFICES ASSUME n + 1 <= Len(list) PROVE Good(n + 1)
    OBVIOUS
  <2> DEFINE x == list[n + 1]
             s == g[n]
  <2>1. s \in Seq(Nat) /\ Len(s) <= n /\ Range(s) = Part(n) /\ Rising(s)
    BY <1>5, <1>l
  <2>2. g[n + 1] = IF x \in out THEN s ELSE Append(s, x)
    <3>1. n + 1 \in 0..Len(list) /\ (n + 1) - 1 = n /\ n + 1 # 0
      BY <1>l
    <3>2. QED
      BY <1>3, <3>1 DEF FilterStep
  <2>3. x \in Nat /\ Part(n + 1) = IF x \in out THEN Part(n) ELSE Part(n) \cup {x}
    <3>1. 1..(n + 1) = (1..n) \cup {n + 1}
      OBVIOUS
    <3>2. {list[i] : i \in 1..(n + 1)} = {list[i] : i \in 1..n} \cup {x}
      BY <3>1
    <3>3. QED
      BY <1>l, <3>2
  <2>4. \A i \in DOMAIN s : s[i] \in Nat /\ (x \notin out => s[i] < x)
    <3> SUFFICES ASSUME NEW i \in DOMAIN s PROVE s[i] \in Nat /\ (x \notin out => s[i] < x)
      OBVIOUS
    <3>1. s[i] \in Part(n) /\ s[i] \in Nat
      <4> HIDE DEF Part, s
      <4>1. s[i] \in Range(s)
        BY DEF Range
      <4>2. s[i] \in Nat
        <5>1. s \in Seq(Nat) /\ DOMAIN s = 1..Len(s)
          BY <2>1
        <5>2. QED
          BY <5>1
      <4>3. QED
        BY <2>1, <4>1, <4>2
    <3>2. PICK k \in 1..n : s[i] = list[k] /\ list[k] \notin out
      BY <3>1
    <3>3. k \in DOMAIN list /\ n + 1 \in DOMAIN list /\ k < n + 1
      BY <1>l
    <3>4. QED
      BY <3>1, <3>2, <3>3 DEF RisingBut
  <2> HIDE DEF x, s, Part
  <2>5. CASE x \in out
    BY <2>1, <2>2, <2>3, <2>5
  <2>6. CASE x \notin out
    <3>1. /\ Append(s, x) \in Seq(Nat) /\ Len(Append(s, x)) = Len(s) + 1
          /\ DOMAIN Append(s, x) = (DOMAIN s) \cup {Len(s) + 1}
          /\ \A i \in DOMAIN s : Append(s, x)[i] = s[i]
          /\ Append(s, x)[Len(s) + 1] = x /\ Len(s) \in Nat /\ DOMAIN s = 1..Len(s)
      <4>1. Len(s) \in Nat /\ DOMAIN s = 1..Len(s) /\ s \in Seq(Nat) /\ x \in Nat
        BY <2>1, <2>3
      <4>2. /\ Append(s, x) \in Seq(Nat) /\ Len(Append(s, x)) = Len(s) + 1
            /\ DOMAIN Append(s, x) = 1..(Len(s) + 1)
            /\ \A i \in 1..Len(s) : Append(s, x)[i] = s[i]
            /\ Append(s, x)[Len(s) + 1] = x
        BY <4>1
      <4>3. 1..(Len(s) + 1) = (1..Len(s)) \cup {Len(s) + 1}
        BY <4>1
      <4>4. QED
        BY <4>1, <4>2, <4>3
    <3>2. Range(Append(s, x)) = Range(s) \cup {x}
      BY <3>1 DEF Range
    <3>3. Rising(Append(s, x))
      <4> SUFFICES ASSUME NEW i \in DOMAIN Append(s, x), NEW k \in DOMAIN Append(s, x), i < k
                   PROVE  Append(s, x)[i] < Append(s, x)[k]
        BY DEF Rising
      <4>1. CASE k \in DOMAIN s
        <5>1. i \in DOMAIN s
          BY <3>1, <4>1
        <5>2. QED
          BY <2>1, <3>1, <4>1, <5>1 DEF Rising
      <4>2. CASE k = Len(s) + 1
        <5>1. i \in DOMAIN s
          BY <3>1, <4>2
        <5>2. QED
          BY <2>4, <2>6, <3>1, <4>2, <5>1
      <4>3. QED
        BY <3>1, <4>1, <4>2
    <3>4. Len(Append(s, x)) <= n + 1
      BY <2>1, <3>1
    <3>5. QED
      BY <2>1, <2>2, <2>3, <2>6, <3>1, <3>2, <3>3, <3>4
  <2>7. QED
    BY <2>5, <2>6
<1>6. Good(Len(list))
  <2>1. Len(list) \in S
    <3> HIDE DEF S
    <3> QED
      BY <1>l, <1>4, <1>5, NatSetInduction
  <2>2. QED
    BY <1>l, <2>1
<1>7. Part(Len(list)) = Range(list) \ out
  BY <1>l DEF Range
<1>8. QED
  BY <1>2, <1>6, <1>7

----------------------------------------------------------------------------
(* OutputKeepsOrder: the records rise because a step's results stand at    *)
(* the positions of the records they come from, however the tasks finish.  *)

ListInv ==
  /\ items \in Seq(Nat) /\ Len(items) <= N
  /\ Rising(items) /\ Range(items) = Items \ dropped
  /\ phase = "check" => dropped = {}

PoolInv ==
  /\ task \in [Workers -> Int] /\ \A w \in Workers : task[w] \in {Over, 0} \cup 1..Len(items)
  /\ next \in Nat \ {0}
  /\ phase = "step" =>
        /\ results \in [Items -> Nat]
        /\ \A i \in Items : results[i] # 0 => i <= Len(items) /\ results[i] = items[i]

OrderInv == ListInv /\ PoolInv /\ NoStrayTasks

LEMMA OrderInit == Init => OrderInv
<1> SUFFICES ASSUME Init PROVE OrderInv
  OBVIOUS
<1>1. items = [i \in 1..N |-> i] /\ N \in Nat /\ dropped = {}
  BY NAssumption DEF Init, Items
<1>2. items \in Seq(Nat) /\ Len(items) = N /\ DOMAIN items = 1..N
  BY <1>1
<1>3. Rising(items) /\ Range(items) = Items
  BY <1>1, <1>2 DEF Rising, Range, Items
<1>4. PoolInv /\ NoStrayTasks
  BY <1>2 DEF Init, NoPool, PoolInv, NoStrayTasks, Over
<1>5. QED
  BY <1>1, <1>2, <1>3, <1>4 DEF OrderInv, ListInv

\* The list and its members.
LEMMA ListFacts ==
  ASSUME ListInv
  PROVE  /\ Len(items) \in Nat /\ DOMAIN items = 1..Len(items) /\ 1..Len(items) \subseteq Items
         /\ \A i \in 1..Len(items) : items[i] \in Range(items) /\ items[i] \in Items
         /\ \A x \in Range(items) : \E i \in 1..Len(items) : x = items[i]
<1>1. Len(items) \in Nat /\ DOMAIN items = 1..Len(items)
  BY DEF ListInv
<1>2. 1..Len(items) \subseteq Items
  BY <1>1, NAssumption DEF ListInv, Items
<1>3. /\ \A i \in 1..Len(items) : items[i] \in Range(items)
      /\ \A x \in Range(items) : \E i \in 1..Len(items) : x = items[i]
  BY <1>1 DEF Range
<1>4. QED
  BY <1>1, <1>2, <1>3 DEF ListInv

\* Dropping records from the list.
LEMMA DropFacts ==
  ASSUME ListInv, NEW out
  PROVE  LET list == without(items, out)
         IN  list \in Seq(Nat) /\ Len(list) <= N /\ Rising(list) /\ Range(list) = Range(items) \ out
<1>1. RisingBut(items, out)
  BY DEF ListInv, Rising, RisingBut
<1> DEFINE list == without(items, out)
<1>2. list \in Seq(Nat) /\ Len(list) <= Len(items) /\ Rising(list) /\ Range(list) = Range(items) \ out
  BY <1>1, WithoutFacts DEF ListInv
<1>3. Len(list) \in Nat /\ Len(items) \in Nat
  BY <1>2, ListFacts
<1>4. QED
  BY <1>2, <1>3, NAssumption DEF ListInv

\* The results of a step, without the empty slots.
LEMMA ResultFacts ==
  ASSUME ListInv, PoolInv, phase = "step"
  PROVE  LET list == without(results, {0})
         IN  /\ list \in Seq(Nat) /\ Len(list) <= N /\ Rising(list)
             /\ Range(list) = Range(items) \cap Range(results)
<1>1. results \in Seq(Nat) /\ Len(results) = N /\ DOMAIN results = Items
  BY NAssumption DEF PoolInv, Items
<1>2. \A i \in Items : results[i] # 0 => i \in DOMAIN items /\ results[i] = items[i]
  BY ListFacts DEF PoolInv, Items
<1>3. RisingBut(results, {0})
  BY <1>1, <1>2 DEF ListInv, Rising, RisingBut
<1>4. Range(results) \ {0} = Range(items) \cap Range(results)
  <2>1. 0 \notin Range(items)
    BY ListFacts DEF Items
  <2>2. \A x \in Range(results) : x # 0 => x \in Range(items)
    BY <1>1, <1>2 DEF Range
  <2>3. QED
    BY <2>1, <2>2
<1>5. QED
  BY <1>1, <1>3, <1>4, WithoutFacts

\* The other steps leave the list alone.
LEMMA ListKept ==
  ASSUME [Next]_vars, ~check_record_type, ~resolve, ~step_done
  PROVE  UNCHANGED <<items, dropped>> /\ (phase' \in {"check", "resolve"} => phase' = phase)
<1>1. ASSUME NEW w \in Workers, Task(w) PROVE UNCHANGED <<items, dropped, phase>>
  BY <1>1 DEF Task, pull, arrive, respond, fail, cancelled
<1>2. CASE UNCHANGED vars
  BY <1>2 DEF vars
<1>3. CASE step_raises \/ cancel_tasks \/ health_check \/ send \/ send_done \/ send_raises \/ close
  BY <1>3 DEF step_raises, cancel_tasks, health_check, send, send_done, send_raises, close, close_with
<1>4. CASE arrive_late \/ shutdown
  BY <1>4 DEF arrive_late, shutdown
<1>5. QED
  BY <1>1, <1>2, <1>3, <1>4 DEF Next, Run

LEMMA ListNext == OrderInv /\ [Next]_vars => ListInv'
<1> SUFFICES ASSUME ListInv, PoolInv, [Next]_vars PROVE ListInv'
  BY DEF OrderInv
<1>0. CASE UNCHANGED <<items, dropped>> /\ (phase' = "check" => phase = "check")
  BY <1>0 DEF ListInv, Rising, Range
<1>1. ASSUME NEW out, items' = without(items, out), dropped' = dropped \cup out, phase' # "check"
      PROVE  ListInv'
  <2>1. items' \in Seq(Nat) /\ Len(items') <= N /\ Rising(items') /\ Range(items') = Range(items) \ out
    BY <1>1, DropFacts
  <2>2. QED
    BY <1>1, <2>1 DEF ListInv, Rising, Range
<1>2. CASE check_record_type
  <2>1. \/ UNCHANGED <<items, dropped>> /\ phase' = "closing"
        \/ dropped = {} /\ items' = without(items, invalid) /\ dropped' = invalid /\ phase' = "resolve"
    BY <1>2 DEF check_record_type, close_with, ListInv
  <2>2. QED
    BY <1>0, <1>1, <2>1
<1>3. CASE resolve
  <2>1. /\ phase = "resolve"
        /\ \/ UNCHANGED <<items, dropped>> /\ phase' \in {"health", "closing", "step", "resolve"}
           \/ \E out : items' = without(items, out) /\ dropped' = dropped \cup out /\ phase' = phase
    BY <1>3 DEF resolve, close_with
  <2>2. QED
    BY <1>0, <1>1, <2>1
<1>4. CASE step_done
  <2>1. /\ items' = without(results, {0}) /\ phase = "step" /\ phase' = "resolve"
        /\ dropped' = dropped \cup (Range(items) \ Range(results))
    BY <1>4 DEF step_done
  <2>2. /\ items' \in Seq(Nat) /\ Len(items') <= N /\ Rising(items')
        /\ Range(items') = Range(items) \cap Range(results)
    BY <2>1, ResultFacts
  <2>3. Range(items') = Items \ dropped'
    BY <2>1, <2>2 DEF ListInv
  <2>4. QED
    BY <2>1, <2>2, <2>3 DEF ListInv, Rising, Range
<1>5. QED
  BY <1>0, <1>2, <1>3, <1>4, ListKept

LEMMA StartPool ==
  ASSUME ListInv, start_pool, UNCHANGED items
  PROVE  PoolInv'
<1>1. task' = [w \in Workers |-> IF w \in pool_size THEN 0 ELSE Over] /\ Over = -1
  BY DEF start_pool, Over
<1>2. task' \in [Workers -> Int] /\ \A w \in Workers : task'[w] \in {Over, 0}
  BY <1>1
<1>3. next' = 1 /\ results' = [i \in Items |-> 0]
  BY DEF start_pool
<1>4. QED
  BY <1>2, <1>3 DEF PoolInv, Over

LEMMA PoolTask ==
  ASSUME ListInv, PoolInv, NEW w \in Workers, Task(w)
  PROVE  PoolInv'
<1>t. task \in [Workers -> Int] /\ next \in Nat \ {0} /\ Len(items) \in Nat
  BY ListFacts DEF PoolInv
<1>1. CASE pull(w)
  <2>1. /\ UNCHANGED <<items, results, phase>> /\ next' \in {next, next + 1}
        /\ \E n \in {Over} \cup 1..Len(items) : task' = [task EXCEPT ![w] = n]
    BY <1>1, <1>t DEF pull, advanced, fits
  <2>2. QED
    BY <1>t, <2>1 DEF PoolInv, Over
<1>2. CASE respond(w)
  <2>1. UNCHANGED <<items, next, phase>> /\ task' = [task EXCEPT ![w] = 0]
    BY <1>2 DEF respond
  <2>2. ASSUME phase = "step"
        PROVE  /\ results' \in [Items -> Nat]
               /\ \A i \in Items : results'[i] # 0 => i <= Len(items) /\ results'[i] = items[i]
    <3>1. task[w] \in 1..Len(items) /\ task[w] \in Items /\ items[task[w]] \in Nat
      <4>1. task[w] \in 1..Len(items)
        BY <1>2, <1>t DEF respond, Flying, PoolInv, Over
      <4>2. QED
        BY <4>1, ListFacts DEF Items
    <3>2. results' = results \/ results' = [results EXCEPT ![task[w]] = items[task[w]]]
      BY <1>2, <2>2 DEF respond, slot
    <3>3. QED
      BY <1>t, <2>2, <3>1, <3>2 DEF PoolInv
  <2>3. QED
    BY <1>t, <2>1, <2>2 DEF PoolInv, Over
<1>3. CASE fail(w) \/ cancelled(w)
  <2>1. UNCHANGED <<items, results, phase, next>> /\ task' = [task EXCEPT ![w] = Over]
    BY <1>3 DEF fail, cancelled
  <2>2. QED
    BY <1>t, <2>1 DEF PoolInv, Over
<1>4. CASE arrive(w)
  BY <1>4 DEF arrive, PoolInv
<1>5. QED
  BY <1>1, <1>2, <1>3, <1>4 DEF Task

LEMMA PoolNext == OrderInv /\ [Next]_vars => PoolInv'
<1> SUFFICES ASSUME ListInv, PoolInv, NoStrayTasks, [Next]_vars PROVE PoolInv'
  BY DEF OrderInv
<1>0. ASSUME \A w \in Workers : task[w] = Over, UNCHANGED task, next' \in {next, 1}, phase' # "step"
      PROVE  PoolInv'
  BY <1>0 DEF PoolInv, Over
<1>1. CASE check_record_type
  <2>1. phase = "check" /\ UNCHANGED <<task, next>> /\ phase' # "step"
    BY <1>1 DEF check_record_type, close_with, pool
  <2>2. QED
    BY <1>0, <2>1 DEF NoStrayTasks, InPool
<1>2. CASE resolve
  <2>1. /\ phase = "resolve"
        /\ (UNCHANGED pool /\ phase' # "step") \/ (start_pool /\ UNCHANGED items)
    BY <1>2 DEF resolve, close_with
  <2>2. QED
    BY <1>0, <2>1, StartPool DEF NoStrayTasks, InPool, pool
<1>3. CASE step_done \/ step_raises \/ send_done \/ send_raises
  <2>1. all_over /\ stop_pool /\ phase' # "step"
    BY <1>3 DEF step_done, step_raises, send_done, send_raises, close_with
  <2>2. QED
    BY <1>0, <2>1 DEF all_over, stop_pool
<1>4. CASE send
  <2>1. (UNCHANGED pool /\ phase = "prepare" /\ phase' = "closing") \/ (start_pool /\ UNCHANGED items)
    BY <1>4 DEF send, close_with
  <2>2. QED
    BY <1>0, <2>1, StartPool DEF NoStrayTasks, InPool, pool
<1>5. CASE cancel_tasks
  BY <1>5 DEF cancel_tasks, PoolInv, Over
<1>6. CASE shutdown \/ UNCHANGED vars
  BY <1>6 DEF shutdown, vars, PoolInv
<1>7. CASE health_check \/ close
  BY <1>7 DEF health_check, close, close_with, pool, PoolInv
<1>8. CASE arrive_late
  BY <1>8 DEF arrive_late, pool, PoolInv
<1>9. QED
  BY <1>1, <1>2, <1>3, <1>4, <1>5, <1>6, <1>7, <1>8, PoolTask DEF Next, Run

LEMMA OrderNext == OrderInv /\ [Next]_vars => OrderInv'
BY ListNext, PoolNext, StrayStep DEF OrderInv

\* What is sent keeps the order of what was fetched, without the records that were dropped, for
\* any number of records, tasks and steps and whichever task of a step finishes first.
THEOREM RecordsKeepOrder == Spec => []OutputKeepsOrder
<1>1. OrderInv => OutputKeepsOrder
  BY DEF OrderInv, ListInv, Rising, OutputKeepsOrder
<1>2. QED
  BY <1>1, OrderInit, OrderNext, PTL DEF Spec

----------------------------------------------------------------------------
(* ContractKept: the run implements DeliveryContract.  A record arrives    *)
(* only while it is due; a send that ends well has seen every position     *)
(* taken by some task and every task's request answered.                   *)

WireInv ==
  /\ concurrency \in Nat \ {0}
  /\ accepted \subseteq Range(items) /\ buffered \subseteq Range(items)
  /\ phase \in {"check", "resolve", "step"} => accepted = {} /\ buffered = {}
  /\ phase = "closed" => buffered = {}

\* A request that reached the destination is there.
ReachInv == phase = "send" => \A w \in reached : w \in Workers /\ task[w] > 0 /\ items[task[w]] \in accepted

\* As long as nothing failed, a pool has a task that is not over or no record left.
AliveInv == InPool /\ raised = "no" => next > Len(items) \/ \E w \in Workers : task[w] # Over

\* As long as nothing failed, what was taken has arrived or is in flight.
TakenInv ==
  phase = "send" /\ raised = "no" =>
      \A i \in 1..Len(items) : i < next => items[i] \in accepted \/ \E w \in Workers : task[w] = i

SentInv == outcome = "sent" => accepted = Range(items) /\ phase \in {"closing", "closed"}

ContractInv == OrderInv /\ WireInv /\ ReachInv /\ AliveInv /\ TakenInv /\ SentInv

LEMMA ContractInit == Init => ContractInv
BY OrderInit, ConcurrenciesAssumption
   DEF Init, ContractInv, WireInv, ReachInv, AliveInv, TakenInv, SentInv, InPool

\* Positions in flight are positions of the list.
LEMMA FlyingFacts ==
  ASSUME OrderInv, NEW w \in Workers, Flying(w)
  PROVE  task[w] \in 1..Len(items) /\ items[task[w]] \in Range(items)
<1>1. task[w] \in 1..Len(items)
  BY ListFacts DEF OrderInv, PoolInv, Flying, Over
<1>2. QED
  BY <1>1, ListFacts DEF OrderInv

LEMMA WireNext == ContractInv /\ [Next]_vars => WireInv'
<1> SUFFICES ASSUME OrderInv, WireInv, [Next]_vars PROVE WireInv'
  BY DEF ContractInv
<1>0. ASSUME UNCHANGED <<concurrency, accepted, buffered>>,
             phase' \in {"check", "resolve", "step"} => phase \in {"check", "resolve", "step"},
             phase' = "closed" => phase = "closed",
             UNCHANGED items \/ phase \in {"check", "resolve", "step"}
      PROVE  WireInv'
  BY <1>0 DEF WireInv, Range
<1>1. ASSUME NEW w \in Workers, Task(w) PROVE WireInv'
  <2>1. UNCHANGED <<concurrency, phase, items>>
    BY <1>1 DEF Task, pull, arrive, respond, fail, cancelled, config
  <2>2. CASE pull(w) \/ respond(w) \/ fail(w)
    BY <1>0, <2>1, <2>2 DEF pull, respond, fail, wire
  <2>3. CASE arrive(w) \/ cancelled(w)
    <3>1. Flying(w) /\ phase \in {"send", "draining"}
      BY <2>3 DEF arrive, cancelled
    <3>2. /\ accepted' \in {accepted, accepted \cup {items[task[w]]}}
          /\ buffered' \in {buffered, buffered \cup {items[task[w]]}}
      BY <2>3 DEF arrive, cancelled
    <3>3. QED
      BY <2>1, <3>1, <3>2, FlyingFacts DEF WireInv, Range
  <2>4. QED
    BY <1>1, <2>2, <2>3 DEF Task
<1>2. CASE check_record_type \/ resolve \/ step_done
  <2>1. phase \in {"check", "resolve", "step"} /\ phase' # "closed" /\ UNCHANGED <<concurrency, accepted, buffered>>
    BY <1>2 DEF check_record_type, resolve, step_done, close_with, config, wire
  <2>2. QED
    BY <1>0, <2>1
<1>3. CASE step_raises \/ cancel_tasks \/ health_check \/ send \/ send_done \/ send_raises \/ shutdown
  <2>1. /\ UNCHANGED <<concurrency, accepted, buffered, items>>
        /\ phase' = phase \/ phase' \in {"closing", "draining", "prepare", "send"}
    BY <1>3 DEF step_raises, cancel_tasks, health_check, send, send_done, send_raises, shutdown, close_with, config,
                wire
  <2>2. QED
    BY <1>0, <2>1
<1>4. CASE close
  BY <1>4 DEF close, flushed, config, WireInv, Range
<1>5. CASE arrive_late
  BY <1>5 DEF arrive_late, config, WireInv, Range
<1>6. CASE UNCHANGED vars
  BY <1>6, <1>0 DEF vars
<1>7. QED
  BY <1>1, <1>2, <1>3, <1>4, <1>5, <1>6 DEF Next, Run

\* A pool of a send: who takes a record, delivers it and answers for it.
LEMMA SendTask ==
  ASSUME ContractInv, NEW w \in Workers, Task(w)
  PROVE  ReachInv' /\ AliveInv' /\ TakenInv'
<1>t. task \in [Workers -> Int] /\ next \in Nat \ {0} /\ Len(items) \in Nat
  BY ListFacts DEF ContractInv, OrderInv, PoolInv
<1>u. UNCHANGED <<phase, items>>
  BY DEF Task, pull, arrive, respond, fail, cancelled
<1>1. CASE pull(w)
  <2>1. /\ UNCHANGED <<reached, accepted>> /\ task[w] = 0 /\ InPool
        /\ \/ next > Len(items) /\ task' = [task EXCEPT ![w] = Over] /\ UNCHANGED <<next, raised>>
           \/ /\ next <= Len(items) /\ UNCHANGED raised
              /\ task' = [task EXCEPT ![w] = next] /\ next' = next + 1
           \/ /\ raised' # "no" /\ task' = [task EXCEPT ![w] = Over]
    BY <1>1 DEF pull, wire, advanced
  <2>2. \A v \in Workers \ {w} : task'[v] = task[v]
    BY <1>t, <2>1
  <2>3. ReachInv'
    <3>1. phase = "send" => w \notin reached
      BY <2>1 DEF ContractInv, ReachInv
    <3>2. QED
      BY <1>u, <2>1, <2>2, <3>1 DEF ContractInv, ReachInv
  <2>4. AliveInv'
    BY <1>u, <1>t, <2>1 DEF ContractInv, AliveInv, InPool, Over
  <2>5. TakenInv'
    <3> SUFFICES ASSUME phase = "send", raised' = "no", NEW i \in 1..Len(items), i < next'
                 PROVE  items[i] \in accepted \/ \E v \in Workers : task'[v] = i
      BY <1>u, <2>1 DEF TakenInv
    <3>1. CASE i < next /\ UNCHANGED raised
      <4>1. items[i] \in accepted \/ \E v \in Workers : task[v] = i
        BY <3>1 DEF ContractInv, TakenInv
      <4>2. i # 0
        OBVIOUS
      <4>3. QED
        BY <2>1, <2>2, <4>1, <4>2
    <3>2. CASE i = next /\ task' = [task EXCEPT ![w] = next]
      BY <1>t, <3>2
    <3>3. QED
      BY <1>t, <2>1, <3>1, <3>2
  <2>6. QED
    BY <2>3, <2>4, <2>5
<1>2. CASE arrive(w)
  <2>1. /\ UNCHANGED <<task, next, raised>> /\ reached' = reached \cup {w}
        /\ accepted' = accepted \cup {items[task[w]]} /\ task[w] > 0
    BY <1>2 DEF arrive, Flying
  <2>2. QED
    BY <1>u, <2>1 DEF ContractInv, ReachInv, AliveInv, TakenInv, InPool
<1>3. CASE respond(w)
  <2>1. /\ UNCHANGED <<next, raised, accepted>> /\ task' = [task EXCEPT ![w] = 0] /\ reached' = reached \ {w}
        /\ phase = "send" => w \in reached
    BY <1>3 DEF respond, wire
  <2>2. task'[w] = 0 /\ \A v \in Workers \ {w} : task'[v] = task[v]
    BY <1>t, <2>1
  <2>3. ReachInv'
    BY <1>u, <2>1, <2>2 DEF ContractInv, ReachInv
  <2>4. AliveInv'
    BY <2>2 DEF AliveInv, Over
  <2>5. TakenInv'
    BY <1>u, <2>1, <2>2 DEF ContractInv, TakenInv, ReachInv
  <2>6. QED
    BY <2>3, <2>4, <2>5
<1>4. CASE fail(w)
  <2>1. raised' # "no" /\ UNCHANGED accepted /\ task' = [task EXCEPT ![w] = Over] /\ reached' = reached \ {w}
    BY <1>4 DEF fail, first_raised, wire
  <2>2. \A v \in Workers \ {w} : task'[v] = task[v]
    BY <1>t, <2>1
  <2>3. QED
    BY <1>u, <2>1, <2>2 DEF ContractInv, ReachInv, AliveInv, TakenInv
<1>5. CASE cancelled(w)
  BY <1>5, <1>u DEF cancelled, ReachInv, AliveInv, TakenInv, InPool
<1>6. QED
  BY <1>1, <1>2, <1>3, <1>4, <1>5 DEF Task

LEMMA StartAlive ==
  ASSUME ContractInv, start_pool, UNCHANGED items
  PROVE  ReachInv' /\ AliveInv' /\ TakenInv'
<1>1. /\ next' = 1 /\ reached' = {} /\ Len(items) \in Nat
      /\ task' = [w \in Workers |-> IF w \in pool_size THEN 0 ELSE Over]
  BY ListFacts DEF start_pool, ContractInv, OrderInv
<1>2. AliveInv'
  <2>1. CASE Len(items) = 0
    BY <1>1, <2>1 DEF AliveInv
  <2>2. CASE Len(items) > 0
    <3>1. 1 \in Workers /\ 1 \in pool_size
      BY <1>1, <2>2, NAssumption DEF ContractInv, OrderInv, ListInv, WireInv, Workers, pool_size
    <3>2. task'[1] # Over
      BY <1>1, <3>1 DEF Over
    <3>3. QED
      BY <3>1, <3>2 DEF AliveInv
  <2>3. QED
    BY <1>1, <2>1, <2>2
<1>3. TakenInv'
  BY <1>1 DEF TakenInv
<1>4. QED
  BY <1>1, <1>2, <1>3 DEF ReachInv

LEMMA SendNext == ContractInv /\ [Next]_vars => ReachInv' /\ AliveInv' /\ TakenInv'
<1> SUFFICES ASSUME ContractInv, [Next]_vars PROVE ReachInv' /\ AliveInv' /\ TakenInv'
  OBVIOUS
<1>0. ASSUME phase' \notin {"step", "send"} PROVE ReachInv' /\ AliveInv' /\ TakenInv'
  BY <1>0 DEF ReachInv, AliveInv, TakenInv, InPool
<1>1. CASE resolve \/ send
  <2>1. phase' \notin {"step", "send"} \/ (start_pool /\ UNCHANGED items)
    BY <1>1 DEF resolve, send, close_with
  <2>2. QED
    BY <1>0, <2>1, StartAlive
<1>2. CASE check_record_type \/ step_done \/ step_raises \/ cancel_tasks \/ health_check \/ send_done \/ send_raises
           \/ close
  BY <1>0, <1>2 DEF check_record_type, step_done, step_raises, cancel_tasks, health_check, send_done, send_raises,
                    close, close_with
<1>3. CASE shutdown
  BY <1>3 DEF shutdown, wire, ContractInv, ReachInv, AliveInv, TakenInv
<1>4. CASE arrive_late
  BY <1>4 DEF arrive_late, pool, ContractInv, ReachInv, AliveInv, TakenInv, InPool
<1>5. CASE UNCHANGED vars
  BY <1>5 DEF vars, ContractInv, ReachInv, AliveInv, TakenInv, InPool
<1>6. QED
  BY <1>1, <1>2, <1>3, <1>4, <1>5, SendTask DEF Next, Run

\* A pool that ends well has delivered everything.
LEMMA AllArrived ==
  ASSUME ContractInv, phase = "send", raised = "no", all_over
  PROVE  accepted = Range(items)
<1>1. next > Len(items) /\ next \in Nat /\ Len(items) \in Nat
  BY ListFacts DEF ContractInv, AliveInv, InPool, all_over, OrderInv, PoolInv
<1>2. \A i \in 1..Len(items) : items[i] \in accepted
  BY <1>1 DEF ContractInv, TakenInv, all_over, Over
<1>3. QED
  BY <1>2, ListFacts DEF ContractInv, OrderInv, WireInv

LEMMA SentNext == ContractInv /\ [Next]_vars => SentInv'
<1> SUFFICES ASSUME ContractInv, [Next]_vars, outcome' = "sent"
             PROVE  accepted' = Range(items)' /\ phase' \in {"closing", "closed"}
  BY DEF SentInv
<1>1. CASE send_done
  BY <1>1, AllArrived DEF send_done, close_with, wire, Range
<1>2. CASE close \/ arrive_late
  <2>1. outcome = "sent" /\ UNCHANGED items /\ \E S \in SUBSET buffered : accepted' = accepted \cup S
    BY <1>2 DEF close, flushed, arrive_late
  <2>2. phase' \in {phase, "closed"}
    BY <1>2 DEF close, arrive_late
  <2>3. QED
    BY <2>1, <2>2 DEF ContractInv, SentInv, WireInv, Range
<1>3. CASE UNCHANGED vars
  BY <1>3 DEF vars, ContractInv, SentInv, Range
<1>4. ASSUME ~send_done, ~close, ~arrive_late, Next PROVE FALSE
  <2>1. ASSUME NEW w \in Workers, Task(w) PROVE FALSE
    BY <2>1 DEF Task, pull, arrive, respond, fail, cancelled, InPool, ContractInv, SentInv
  <2>2. CASE check_record_type \/ resolve
    BY <2>2 DEF check_record_type, resolve, close_with, ContractInv, SentInv
  <2>3. CASE step_done \/ step_raises \/ cancel_tasks \/ shutdown
    BY <2>3 DEF step_done, step_raises, cancel_tasks, shutdown, close_with, InPool, ContractInv, SentInv
  <2>4. CASE health_check \/ send \/ send_raises
    BY <2>4 DEF health_check, send, send_raises, close_with, ContractInv, SentInv
  <2>5. QED
    BY <1>4, <2>1, <2>2, <2>3, <2>4 DEF Next, Run
<1>5. QED
  BY <1>1, <1>2, <1>3, <1>4

LEMMA ContractNext == ContractInv /\ [Next]_vars => ContractInv'
BY OrderNext, WireNext, SendNext, SentNext DEF ContractInv

\* Every step of the run is a step of the contract, or none.
LEMMA ContractStep ==
  ASSUME ContractInv, ContractInv', [Next]_vars
  PROVE  [Contract!Next]_<<Range(items), accepted, Verdict>>
<1>0. ASSUME UNCHANGED <<items, accepted>>, phase # "closed", phase' # "closed"
      PROVE  UNCHANGED <<Range(items), accepted, Verdict>>
  BY <1>0 DEF Verdict, Range
<1>1. CASE check_record_type \/ resolve \/ step_done
  <2>1. /\ phase \in {"check", "resolve", "step"} /\ phase' # "closed" /\ UNCHANGED accepted
        /\ dropped \subseteq dropped'
    <3>1. CASE check_record_type
      BY <3>1 DEF check_record_type, close_with, wire, ContractInv, OrderInv, ListInv
    <3>2. CASE resolve
      BY <3>2 DEF resolve, close_with, wire
    <3>3. CASE step_done
      BY <3>3 DEF step_done, wire
    <3>4. QED
      BY <1>1, <3>1, <3>2, <3>3
  <2>2. accepted = {} /\ Verdict = "open" /\ Verdict' = "open"
    BY <2>1 DEF ContractInv, WireInv, Verdict
  <2>3. Range(items)' \subseteq Range(items)
    BY <2>1 DEF ContractInv, OrderInv, ListInv
  <2>4. QED
    BY <2>1, <2>2, <2>3 DEF Contract!Next, Contract!Narrow
<1>2. ASSUME NEW w \in Workers, Task(w) PROVE [Contract!Next]_<<Range(items), accepted, Verdict>>
  <2>1. UNCHANGED <<items, phase, outcome>> /\ phase # "closed"
    BY <1>2 DEF Task, pull, arrive, respond, fail, cancelled, InPool
  <2>2. CASE ~arrive(w)
    BY <1>0, <1>2, <2>1, <2>2 DEF Task, pull, respond, fail, cancelled, wire
  <2>3. CASE arrive(w)
    <3>1. accepted' = accepted \cup {items[task[w]]} /\ items[task[w]] \in Range(items)
      BY <2>3, FlyingFacts DEF arrive, ContractInv
    <3>2. Verdict = "open" /\ Verdict' = "open" /\ Range(items)' = Range(items)
      BY <2>1 DEF Verdict, Range
    <3>3. QED
      BY <3>1, <3>2 DEF Contract!Next, Contract!Arrive
  <2>4. QED
    BY <2>2, <2>3
<1>3. CASE arrive_late
  <2>1. PICK x \in buffered : accepted' = accepted \cup {x}
    BY <1>3 DEF arrive_late
  <2>2. x \in Range(items) /\ phase # "closed" /\ UNCHANGED <<items, phase>>
    BY <1>3 DEF arrive_late, ContractInv, WireInv
  <2>3. Verdict = "open" /\ Verdict' = "open" /\ Range(items)' = Range(items)
    BY <2>2 DEF Verdict, Range
  <2>4. QED
    BY <2>1, <2>2, <2>3 DEF Contract!Next, Contract!Arrive
<1>4. CASE close
  <2>1. PICK S \in SUBSET buffered : accepted' = accepted \cup S
    BY <1>4 DEF close, flushed
  <2>2. phase = "closing" /\ phase' = "closed" /\ UNCHANGED <<items, outcome>>
    BY <1>4 DEF close
  <2>3. Range(items)' = Range(items) /\ S \in SUBSET Range(items)
    BY <2>2 DEF Range, ContractInv, WireInv
  <2>4. Verdict = "open" /\ (Verdict' = "ended" \/ (Verdict' = "sent" /\ accepted' = Range(items)))
    BY <2>2, <2>3 DEF Verdict, ContractInv, SentInv
  <2>5. QED
    BY <2>1, <2>3, <2>4 DEF Contract!Next, Contract!Close
<1>5. CASE step_raises \/ cancel_tasks \/ health_check \/ send \/ send_done \/ send_raises \/ shutdown
  BY <1>0, <1>5 DEF step_raises, cancel_tasks, health_check, send, send_done, send_raises, shutdown, close_with,
                    wire, InPool
<1>6. CASE UNCHANGED vars
  BY <1>6 DEF vars, Verdict, Range
<1>7. QED
  BY <1>1, <1>2, <1>3, <1>4, <1>5, <1>6 DEF Next, Run

\* The run keeps the contract with its destination: the records due shrink only before the first
\* is written, only those arrive, none after the end, and all of them did when it ends as sent,
\* for any number of records, tasks, steps and attempts, however requests fail and tasks are cancelled.
THEOREM RunKeepsContract == Spec => ContractKept
<1>1. Init => Contract!Init
  BY OrderInit DEF Init, Contract!Init, Verdict, OrderInv, ListInv
<1>2. QED
  BY <1>1, ContractInit, ContractNext, ContractStep, PTL DEF Spec, ContractKept, Contract!Spec
====
