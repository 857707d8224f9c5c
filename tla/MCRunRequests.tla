--------------------------- MODULE MCRunRequests ---------------------------
(***************************************************************************)
(* An instance of RunRequests for TLC: a pipeline whose parameter is       *)
(* required and one whose parameter has a default.                         *)
(***************************************************************************)
EXTENDS RunRequests

CONSTANTS p, q, v1, v2, g1, d1, d2, x1

MCDeclared == [n \in Names |-> IF n = p THEN [required |-> TRUE, default |-> Null]
                                         ELSE [required |-> FALSE, default |-> v1]]

MCInputs == [r \in Requests |->
    CASE r = g1 -> {<<p, Absent>>, <<p, Bad>>, <<q, Absent>>}
      [] r = d1 -> {<<p, Bad>>, <<q, v1>>}
      [] r = d2 -> {<<p, v2>>, <<q, Null>>}
      [] OTHER -> {<<p, Absent>>, <<q, v2>>}]
=============================================================================
