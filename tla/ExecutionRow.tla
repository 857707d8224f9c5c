---------------------------- MODULE ExecutionRow ----------------------------
(***************************************************************************)
(* The `state` column of the `executions` table: its values and the guards *)
(* with which ExecutionManager's operations read it before they write.     *)
(***************************************************************************)

States == {"pending", "running", "paused", "completed", "failed", "cancelled"}

TERMINAL_STATES == {"completed", "failed", "cancelled"}

\* pause_execution refuses an execution that is settled or already paused.
PausableStates == {"pending", "running"}

\* resume_execution only resumes a paused execution.
ResumableStates == {"paused"}

\* cancel_execution and the PATCH endpoint refuse a settled execution.
CancellableStates == States \ TERMINAL_STATES
=============================================================================
