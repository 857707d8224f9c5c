--------------------------- MODULE MCDeadLetters ---------------------------
(***************************************************************************)
(* An instance of DeadLetters for TLC: jobs of one pipeline, each with its *)
(* own params.                                                             *)
(***************************************************************************)
EXTENDS DeadLetters

MCPipelineOf == [j \in Jobs |-> "pipeline"]
MCParamsOf == [j \in Jobs |-> j]
=============================================================================
