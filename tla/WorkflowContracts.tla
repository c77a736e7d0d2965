-------------------------- MODULE WorkflowContracts --------------------------
(***************************************************************************)
(* The status graphs of workflow runs and steps                            *)
(* (packages/business/src/orchestration/workflow-contracts.ts), which the  *)
(* triggers of migration 20260715190000_workflow_definition_run repeat.    *)
(* legacy_imported rows are left out: no transition reaches or leaves them.*)
(***************************************************************************)
EXTENDS Naturals

RUN_STATUSES == {"pending", "running", "blocked", "succeeded", "failed", "cancelled"}
STEP_STATUSES == RUN_STATUSES \cup {"skipped"}
StepTerminal == {"succeeded", "failed", "skipped", "cancelled"}

\* Slip: runs share the graph of the steps.
RunEdgeOfSteps(from, to) ==
    \/ from = "pending" /\ to \in {"running", "skipped", "cancelled"}
    \/ from = "running" /\ to \in {"blocked", "succeeded", "failed", "cancelled"}
    \/ from = "blocked" /\ to \in {"running", "failed", "cancelled"}

RunEdge(from, to) ==
    \/ from = "pending" /\ to \in {"running", "cancelled"}
    \/ from = "running" /\ to \in {"blocked", "succeeded", "failed", "cancelled"}
    \/ from = "blocked" /\ to \in {"running", "failed", "cancelled"}

\* Slip: a failed step may be tried again.
StepEdgeRetries(from, to) ==
    \/ from = "pending" /\ to \in {"running", "skipped", "cancelled"}
    \/ from = "running" /\ to \in {"blocked", "succeeded", "failed", "cancelled"}
    \/ from \in {"blocked", "failed"} /\ to \in {"running", "failed", "cancelled"}

StepEdge(from, to) ==
    \/ from = "pending" /\ to \in {"running", "skipped", "cancelled"}
    \/ from = "running" /\ to \in {"blocked", "succeeded", "failed", "cancelled"}
    \/ from = "blocked" /\ to \in {"running", "failed", "cancelled"}

\* A run or step row, and the row after one transition: the triggers insist on revision + 1.
New == [status |-> "pending", revision |-> 0]
Moved(row, to) == [status |-> to, revision |-> row.revision + 1]

\* May a run with these steps become to?
RunMayEnd(steps, to) ==
    /\ to = "succeeded" => \A s \in DOMAIN steps : steps[s].status \in {"succeeded", "skipped"}
    /\ to = "failed" => \E s \in DOMAIN steps : steps[s].status = "failed"
=============================================================================
