-------------------------- MODULE DeliveryContract --------------------------
(***************************************************************************)
(* What a job's run owes its destination.  Before anything is written the  *)
(* records due may shrink, as transformations drop some.  While the run is *)
(* open, records that are due may arrive, any number of times and in any   *)
(* order.  It ends as sent when all of them arrived, or otherwise as       *)
(* ended; nothing arrives after that.                                      *)
(***************************************************************************)
CONSTANT Items

VARIABLES
    due,        \* records the run has to write
    got,        \* records the destination has
    verdict     \* "open", "sent" or "ended"

Init == due = Items /\ got = {} /\ verdict = "open"

Narrow == verdict = "open" /\ got = {} /\ due' \in SUBSET due /\ UNCHANGED <<got, verdict>>

Arrive == verdict = "open" /\ due # got /\ (\E x \in due : got' = got \cup {x}) /\ UNCHANGED <<due, verdict>>

\* Closing the connection may flush what is still buffered.
Close ==
    /\ verdict = "open"
    /\ \E flushed \in SUBSET due : got' = got \cup flushed
    /\ \/ verdict' = "sent" /\ got' = due
       \/ verdict' = "ended"
    /\ UNCHANGED due

Next == Narrow \/ Arrive \/ Close

Spec == Init /\ [][Next]_<<due, got, verdict>>
=============================================================================
