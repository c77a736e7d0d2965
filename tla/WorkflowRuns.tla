----------------------------- MODULE WorkflowRuns -----------------------------
(***************************************************************************)
(* Transitions of one workflow run and its steps: transitionWorkflowRun    *)
(* and transitionWorkflowStep                                              *)
(* (packages/business/src/orchestration/workflow-runtime.ts) over the      *)
(* triggers of migration 20260715190000_workflow_definition_run.           *)
(*                                                                         *)
(* Each call is a SERIALIZABLE transaction.  All it reads, it reads from   *)
(* the snapshot of its first statement.  An UPDATE waits for the row lock  *)
(* of a concurrent writer, which is kept to the end of its transaction,    *)
(* and fails with 40001 if the row has changed since the snapshot.  The    *)
(* event is inserted under an advisory lock of the run, which is also kept *)
(* to the end, with the successor of the last sequence in the snapshot.    *)
(* PostgreSQL may refuse more than that to keep the history serializable;  *)
(* Rollback includes it and nothing below relies on it.                    *)
(*                                                                         *)
(* The model is about one run, from the commit of startWorkflowRun on:     *)
(* runs share nothing but the audit chain (module AuditChain), whose       *)
(* refusals are Rollback here.  run.created, event 1 of every run, is left *)
(* out, and so are scope, assignments, outputs and timestamps.  A call     *)
(* whose expectedRevision or status its snapshot refuses changes nothing   *)
(* and is left out too.                                                    *)
(***************************************************************************)
EXTENDS WorkflowContracts, Sequences, FiniteSets

CONSTANTS
    Steps,      \* step keys of the definition
    RunRow,     \* the row of the run itself
    EventLock,  \* the advisory lock workflow-run-event:<run>
    Txs,        \* database sessions
    MaxEvents,  \* bound on the transitions of the run
    None        \* nobody

ASSUME RunConstants ==
    /\ MaxEvents \in Nat
    /\ RunRow \notin Steps /\ EventLock \notin Steps \cup {RunRow}
    /\ None \notin Txs \cup Steps \cup {RunRow, EventLock}

VARIABLES
    run,        \* the workflow_runs row
    steps,      \* the workflow_run_steps rows
    events,     \* the workflow_run_events rows
    lock,       \* holder of each row lock and of the advisory lock
    tx          \* the open transaction of each session

vars == <<run, steps, events, lock, tx>>

Rows == Steps \cup {RunRow}
Row == [status : STEP_STATUSES, revision : Nat]
Event == [sequence : Nat, row : Rows, from : STEP_STATUSES, to : STEP_STATUSES, revision : Nat]
Transaction == [phase : {"idle", "rows", "commit"}, row : Rows \cup {None}, to : STEP_STATUSES,
                run : Row, steps : [Steps -> Row], events : Nat, todo : SUBSET Rows]
Idle == [phase |-> "idle", row |-> None, to |-> "pending", run |-> New,
         steps |-> [s \in Steps |-> New], events |-> 0, todo |-> {}]

Init ==
    /\ run = New
    /\ steps = [s \in Steps |-> New]
    /\ events = <<>>
    /\ lock = [x \in Rows \cup {EventLock} |-> None]
    /\ tx = [t \in Txs |-> Idle]

-----------------------------------------------------------------------------
\* Slip: the cascade's list of terminal statuses is taken for its list of live ones.
SweptForgetsBlocked(ss) == {s \in Steps : ss[s].status \in {"pending", "running"}}

\* sangfor_workflow_run_cascade_cancel: the steps that a cancellation cancels.
Swept(ss) == {s \in Steps : ss[s].status \notin StepTerminal}

\* The reads and checks of a transition of row x to a new status, and the rows it will update.
Begin(t, x, to) ==
    /\ tx[t].phase = "idle"
    /\ Len(events) < MaxEvents
    /\ IF x = RunRow THEN RunEdge(run.status, to) /\ RunMayEnd(steps, to)
                     ELSE StepEdge(steps[x].status, to)
    /\ tx' = [tx EXCEPT ![t] =
          [phase |-> "rows", row |-> x, to |-> to, run |-> run, steps |-> steps,
           events |-> Len(events),
           todo |-> {x} \cup (IF x = RunRow /\ to = "cancelled" THEN Swept(steps) ELSE {})]]
    /\ UNCHANGED <<run, steps, events, lock>>

Ended(t) == [tx EXCEPT ![t] = Idle]
Released(t) == [x \in DOMAIN lock |-> IF lock[x] = t THEN None ELSE lock[x]]
Abort(t) ==
    /\ tx' = Ended(t)
    /\ lock' = Released(t)
    /\ UNCHANGED <<run, steps, events>>

RowIsAsSeen(y, x) ==
    IF x = RunRow THEN run = y.run ELSE steps[x] = y.steps[x]

\* Slip: the steps of a cancelled run are updated in any order, before the run as well.
MayLockAny(y, x) == x \in y.todo

\* The UPDATE of the row itself comes first; the trigger then updates the steps in no fixed order.
MayLock(y, x) == x \in y.todo /\ (x # y.row => y.row \notin y.todo)

\* An UPDATE locks a row, once it is free; a row that has changed since the snapshot fails it.
LockRow(t, x) ==
    /\ tx[t].phase = "rows"
    /\ MayLock(tx[t], x)
    /\ lock[x] = None
    /\ IF RowIsAsSeen(tx[t], x)
       THEN /\ lock' = [lock EXCEPT ![x] = t]
            /\ tx' = [tx EXCEPT ![t] = [tx[t] EXCEPT !.todo = @ \ {x}]]
            /\ UNCHANGED <<run, steps, events>>
       ELSE Abort(t)

\* Slip: the unique index is missing.
SequenceTakenNever(y) == FALSE

\* workflow_run_events_workflow_run_id_sequence_key
SequenceTaken(y) == Len(events) > y.events

\* lockRun, the last sequence of the snapshot, INSERT of its successor.
AppendRunEvent(t) ==
    /\ tx[t].phase = "rows" /\ tx[t].todo = {}
    /\ lock[EventLock] = None
    /\ IF SequenceTaken(tx[t])
       THEN Abort(t)
       ELSE /\ lock' = [lock EXCEPT ![EventLock] = t]
            /\ tx' = [tx EXCEPT ![t] = [tx[t] EXCEPT !.phase = "commit"]]
            /\ UNCHANGED <<run, steps, events>>

\* The row, the swept steps and the event become visible together.
RunAfter(y) == IF y.row = RunRow THEN Moved(run, y.to) ELSE run
StepsAfter(y) ==
    IF y.row \in Steps THEN [steps EXCEPT ![y.row] = Moved(@, y.to)]
    ELSE IF y.to = "cancelled"
         THEN [s \in Steps |-> IF s \in Swept(y.steps) THEN Moved(steps[s], "cancelled")
                                                      ELSE steps[s]]
         ELSE steps
NewEvent(y) ==
    LET seen == IF y.row = RunRow THEN y.run ELSE y.steps[y.row] IN
    [sequence |-> y.events + 1, row |-> y.row, from |-> seen.status, to |-> y.to,
     revision |-> seen.revision + 1]
Commit(t) ==
    /\ tx[t].phase = "commit"
    /\ run' = RunAfter(tx[t])
    /\ steps' = StepsAfter(tx[t])
    /\ events' = Append(events, NewEvent(tx[t]))
    /\ lock' = Released(t)
    /\ tx' = Ended(t)

\* A serialization failure, a refused audit append, a time-out or a lost connection.
Rollback(t) == tx[t].phase # "idle" /\ Abort(t)

Next ==
    \E t \in Txs :
        \/ \E x \in Rows, to \in STEP_STATUSES : Begin(t, x, to)
        \/ \E x \in Rows : LockRow(t, x)
        \/ AppendRunEvent(t)
        \/ Commit(t)
        \/ Rollback(t)

\* A session keeps executing its transaction and PostgreSQL serves the waiters of a lock in turn; a
\* rollback is never owed.
Proceeds(t) == (\E x \in Rows : LockRow(t, x)) \/ AppendRunEvent(t) \/ Commit(t)
Fairness == \A t \in Txs : SF_vars(Proceeds(t))

Spec == Init /\ [][Next]_vars
FairSpec == Spec /\ Fairness
-----------------------------------------------------------------------------
(* Properties *)

\* Rows, events, locks and transactions have their declared shape.
TypeOK ==
    /\ run \in Row /\ run.status \in RUN_STATUSES
    /\ steps \in [Steps -> Row]
    /\ events \in Seq(Event)
    /\ lock \in [Rows \cup {EventLock} -> Txs \cup {None}]
    /\ tx \in [Txs -> Transaction]

\* "succeeded requires every step succeeded|skipped; failed requires >=1 failed step; cancelled
\* cancels every nonterminal step": true for good, whatever is under way when the run ends.
AggregateStatus ==
    /\ run.status = "succeeded" => \A s \in Steps : steps[s].status \in {"succeeded", "skipped"}
    /\ run.status = "failed" => \E s \in Steps : steps[s].status = "failed"
    /\ run.status = "cancelled" => \A s \in Steps : steps[s].status \in StepTerminal

\* What the first n events of a log say of row x: it is as its last event left it, or new.
Left(e) == [status |-> e.to, revision |-> e.revision]
AsOf(log, x, n, row) ==
    \/ row = New /\ \A j \in 1..n : log[j].row # x
    \/ \E j \in 1..n : /\ log[j].row = x /\ row = Left(log[j])
                       /\ \A k \in (j + 1)..n : log[k].row # x
RowsIn(log) == {New} \cup {Left(log[j]) : j \in 1..Len(log)}

\* Event i of a log starts where the last event of its row ended.
Follows(log, i) ==
    \E row \in RowsIn(log) : /\ AsOf(log, log[i].row, i - 1, row)
                             /\ log[i].from = row.status
                             /\ log[i].revision = row.revision + 1

\* A swept step is one revision past its last event.
SweptAfter(log, s, row) ==
    \E last \in RowsIn(log) : /\ AsOf(log, s, Len(log), last)
                              /\ last.status \notin StepTerminal
                              /\ row = Moved(last, "cancelled")

\* The event log explains the rows: it is numbered without gaps, each event starts where the last
\* one of its row ended, and each row is where its last event left it.  Only the cascade of a
\* cancellation writes rows without an event of their own.
EventsExplainRows ==
    /\ \A i \in 1..Len(events) : events[i].sequence = i /\ Follows(events, i)
    /\ AsOf(events, RunRow, Len(events), run)
    /\ \A s \in Steps :
          \/ AsOf(events, s, Len(events), steps[s])
          \/ run.status = "cancelled" /\ SweptAfter(events, s, steps[s])

\* A run that succeeded or was cancelled is over: a transition that was under way adds nothing.
QuietAfterEnd ==
    [][run.status \in {"succeeded", "cancelled"} => UNCHANGED <<run, steps, events>>]_vars

\* Every transition that commits is legal at the moment it commits, not only in its snapshot.
Atomic == INSTANCE Workflow
ImplementsWorkflow == Atomic!Spec

\* Every call ends, without any help from PostgreSQL's deadlock detector.
EveryTransitionEnds == \A t \in Txs : tx[t].phase # "idle" ~> tx[t].phase = "idle"

\* A lock that t may have to ask for next is in the hands of u.
WaitsFor(t, u) ==
    /\ tx[t].phase = "rows"
    /\ \/ \E x \in Rows : MayLock(tx[t], x) /\ lock[x] = u
       \/ tx[t].todo = {} /\ lock[EventLock] = u

\* In whatever order a cascade updates its steps, no transitions wait for each other in a ring: of
\* any number of them one waits for none of the others.
NoRingOfWaiters ==
    \A S \in SUBSET Txs : S # {} => \E t \in S : \A u \in S : ~WaitsFor(t, u)
-----------------------------------------------------------------------------
(* The inductive invariant: what an open transaction saw is current unless an event has been      *)
(* appended since, and the one that is about to commit saw the current rows.                      *)

\* The transition of a transaction is one that its snapshot allows.
LegalInSnapshot(y) ==
    IF y.row = RunRow THEN RunEdge(y.run.status, y.to) /\ RunMayEnd(y.steps, y.to)
                      ELSE y.row \in Steps /\ StepEdge(y.steps[y.row].status, y.to)

SnapshotIsDated(y) ==
    /\ y.events <= Len(events)
    /\ y.events = Len(events) => y.run = run /\ y.steps = steps

RunsInv ==
    /\ TypeOK
    /\ AggregateStatus
    /\ EventsExplainRows
    /\ \A t \in Txs : tx[t].phase # "idle" => LegalInSnapshot(tx[t]) /\ SnapshotIsDated(tx[t])
    /\ \A t \in Txs : tx[t].phase = "commit" =>
          lock[EventLock] = t /\ tx[t].events = Len(events)

\* A transaction has locked its own row before any other, a step's transition needs no other, and
\* whoever holds the advisory lock waits for nothing any more.
LocksAgree ==
    /\ \A t \in Txs : \A x \in Rows : lock[x] = t =>
          tx[t].phase # "idle" /\ x \notin tx[t].todo /\ tx[t].row \notin tx[t].todo
    /\ \A t \in Txs : tx[t].phase # "idle" =>
          /\ tx[t].row \in Rows
          /\ tx[t].row \notin tx[t].todo => lock[tx[t].row] = t
          /\ tx[t].row # RunRow => tx[t].todo \subseteq {tx[t].row}
    /\ \A t \in Txs : lock[EventLock] = t => tx[t].phase = "commit"
=============================================================================
