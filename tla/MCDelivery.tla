----------------------------- MODULE MCDelivery -----------------------------
(***************************************************************************)
(* An instance of Delivery for TLC: three records, one of which may be     *)
(* invalid or not fit a template, one to three tasks.                      *)
(***************************************************************************)
EXTENDS Delivery

MCCases == {{}, {2}}
=============================================================================
