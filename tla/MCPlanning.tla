----------------------------- MODULE MCPlanning -----------------------------
(***************************************************************************)
(* Instances of Planning for TLC.                                          *)
(***************************************************************************)
EXTENDS Planning, TLC

\* Managers are interchangeable; the planner's process is not one of them.
Symmetry == Permutations(Managers)
=============================================================================
