----------------------------- MODULE MCDispatch -----------------------------
(***************************************************************************)
(* Instances of Dispatch for TLC.                                          *)
(***************************************************************************)
EXTENDS Dispatch, TLC

\* Jobs, workers and loop slots are interchangeable.
Symmetry2 == Permutations(Jobs) \cup Permutations(Workers)
SymmetryLoops == Permutations(Loops)
=============================================================================
