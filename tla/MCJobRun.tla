------------------------------ MODULE MCJobRun ------------------------------
(***************************************************************************)
(* An instance of JobRun for TLC: one job delivered twice, another whose   *)
(* records overlap it in the opposite order; or records that repeat within *)
(* a job, and an empty slice.                                              *)
(***************************************************************************)
EXTENDS JobRun

CONSTANTS j1, j2, a, b, r1, r2, r3

MCJobOf == [r \in Runs |-> IF r = r3 THEN j2 ELSE j1]
MCPlans == {[j \in Jobs |-> IF j = j1 THEN <<a, b>> ELSE <<b, a>>],
            [j \in Jobs |-> IF j = j1 THEN <<a, a>> ELSE <<>>]}
MCEarlier == {{}, {j2}}
=============================================================================
