------------------------------ MODULE Workflow ------------------------------
(***************************************************************************)
(* What the workflow runtime promises of one run: every transition is one  *)
(* atomic step that is legal when it happens, and the event log records    *)
(* it.  WorkflowRuns implements it with transactions that interleave.      *)
(***************************************************************************)
EXTENDS WorkflowContracts, Sequences

CONSTANTS Steps, RunRow

VARIABLES run, steps, events

vars == <<run, steps, events>>

Init ==
    /\ run = New
    /\ steps = [s \in Steps |-> New]
    /\ events = <<>>

Log(x, row, to) ==
    events' = Append(events, [sequence |-> Len(events) + 1, row |-> x, from |-> row.status,
                              to |-> to, revision |-> row.revision + 1])

MoveStep(s, to) ==
    /\ StepEdge(steps[s].status, to)
    /\ steps' = [steps EXCEPT ![s] = Moved(@, to)]
    /\ Log(s, steps[s], to)
    /\ UNCHANGED run

MoveRun(to) ==
    /\ RunEdge(run.status, to) /\ to # "cancelled"
    /\ RunMayEnd(steps, to)
    /\ run' = Moved(run, to)
    /\ Log(RunRow, run, to)
    /\ UNCHANGED steps

\* Cancellation ends the run and every step that has not ended.
Cancel ==
    /\ RunEdge(run.status, "cancelled")
    /\ run' = Moved(run, "cancelled")
    /\ steps' = [s \in Steps |-> IF steps[s].status \in StepTerminal THEN steps[s]
                                 ELSE Moved(steps[s], "cancelled")]
    /\ Log(RunRow, run, "cancelled")

Next ==
    \/ \E s \in Steps, to \in STEP_STATUSES : MoveStep(s, to)
    \/ \E to \in RUN_STATUSES : MoveRun(to)
    \/ Cancel

Spec == Init /\ [][Next]_vars
=============================================================================
