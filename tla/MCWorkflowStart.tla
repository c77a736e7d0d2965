---------------------------- MODULE MCWorkflowStart ---------------------------
(* TLC instances of WorkflowStart. *)
EXTENDS WorkflowStart

CONSTANT i1

\* A padded key comes with one input, and with an approval of the run.
SomeRequests == {q \in Request : q.padded => q.input = i1 /\ q.approval}
===============================================================================
