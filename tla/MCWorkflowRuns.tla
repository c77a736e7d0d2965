---------------------------- MODULE MCWorkflowRuns ----------------------------
(* TLC instances of WorkflowRuns: the steps and the sessions are model values. *)
EXTENDS WorkflowRuns
=============================================================================
