-------------------------- MODULE WorkflowRunsProofs --------------------------
(***************************************************************************)
(* Proofs about WorkflowRuns, for every set of steps and sessions and any  *)
(* number of transitions.                                                  *)
(***************************************************************************)
EXTENDS WorkflowRuns, TLAPS

\* The committed rows, as far as their types go.
RowsOK ==
    /\ run \in Row /\ run.status \in RUN_STATUSES
    /\ steps \in [Steps -> Row]
    /\ events \in Seq(Event)

\* A transition leaves a row a row.
LEMMA MovedRow ==
    ASSUME NEW row \in Row, NEW to \in STEP_STATUSES
    PROVE  /\ Moved(row, to) \in Row
           /\ Moved(row, to).status = to /\ Moved(row, to).revision = row.revision + 1
BY DEF Moved, Row

\* The initial state satisfies the invariant.
LEMMA RunsInvInit == Init => RunsInv
<1> SUFFICES ASSUME Init PROVE RunsInv
  OBVIOUS
<1> USE RunConstants DEF Init
<1>1. New \in Row /\ New.status = "pending" /\ "pending" \in RUN_STATUSES
  BY DEF New, Row, STEP_STATUSES, RUN_STATUSES
<1>2. Idle \in Transaction /\ Idle.phase = "idle"
  BY <1>1 DEF Idle, Transaction, STEP_STATUSES, RUN_STATUSES
<1>3. TypeOK
  BY <1>1, <1>2 DEF TypeOK
<1>4. AggregateStatus
  BY <1>1 DEF AggregateStatus
<1>5. EventsExplainRows
  BY DEF EventsExplainRows, AsOf
<1>6. QED
  BY <1>2, <1>3, <1>4, <1>5 DEF RunsInv

\* A step that commits nothing: session t remembers y, and the locks change.
LEMMA OnlyTxMoves ==
    ASSUME RunsInv, NEW t \in Txs, NEW y \in Transaction,
           tx' = [tx EXCEPT ![t] = y], UNCHANGED <<run, steps, events>>,
           lock' \in [Rows \cup {EventLock} -> Txs \cup {None}],
           y.phase # "idle" => LegalInSnapshot(y) /\ SnapshotIsDated(y),
           y.phase = "commit" => lock'[EventLock] = t /\ y.events = Len(events),
           \A u \in Txs \ {t} : lock[EventLock] = u => lock'[EventLock] = u
    PROVE  RunsInv'
<1> USE DEF RunsInv
<1>1. tx \in [Txs -> Transaction] /\ RowsOK
  BY DEF TypeOK, RowsOK
<1>2. \A u \in Txs : tx'[u] = IF u = t THEN y ELSE tx[u]
  BY <1>1
<1>3. TypeOK'
  BY <1>1 DEF TypeOK, RowsOK
<1>4. AggregateStatus'
  BY DEF AggregateStatus
<1>5. EventsExplainRows'
  BY DEF EventsExplainRows
<1>6. \A u \in Txs : tx'[u].phase # "idle" => LegalInSnapshot(tx'[u]) /\ SnapshotIsDated(tx'[u])
  BY <1>2
<1>7. (\A u \in Txs : tx[u].phase # "idle" => LegalInSnapshot(tx[u]) /\ SnapshotIsDated(tx[u]))'
  BY <1>6 DEF LegalInSnapshot, SnapshotIsDated
<1>8. (\A u \in Txs : tx[u].phase = "commit" =>
          lock[EventLock] = u /\ tx[u].events = Len(events))'
  BY <1>2
<1>9. QED
  BY <1>3, <1>4, <1>5, <1>7, <1>8

\* Begin copies the current rows, whose transition is legal.
LEMMA BeginInv ==
    ASSUME RunsInv, NEW t \in Txs, NEW x \in Rows, NEW to \in STEP_STATUSES, Begin(t, x, to)
    PROVE  RunsInv'
<1> DEFINE y == [phase |-> "rows", row |-> x, to |-> to, run |-> run, steps |-> steps,
                 events |-> Len(events),
                 todo |-> {x} \cup (IF x = RunRow /\ to = "cancelled" THEN Swept(steps) ELSE {})]
<1>1. y \in Transaction
  BY DEF RunsInv, TypeOK, Transaction, Swept, Rows
<1>2. LegalInSnapshot(y) /\ SnapshotIsDated(y)
  BY DEF Begin, LegalInSnapshot, SnapshotIsDated, Rows, RunsInv, TypeOK
<1>3. tx' = [tx EXCEPT ![t] = y] /\ UNCHANGED <<run, steps, events, lock>>
  BY DEF Begin
<1>4. y.phase = "rows"
  OBVIOUS
<1> HIDE DEF y
<1>5. lock' \in [Rows \cup {EventLock} -> Txs \cup {None}]
  BY <1>3 DEF RunsInv, TypeOK
<1>6. QED
  BY <1>1, <1>2, <1>3, <1>4, <1>5, OnlyTxMoves

\* A transaction that fails leaves nothing behind.
LEMMA AbortInv ==
    ASSUME RunsInv, NEW t \in Txs, Abort(t)
    PROVE  RunsInv'
<1>1. Idle \in Transaction /\ Idle.phase = "idle"
  BY RunConstants DEF Idle, Transaction, STEP_STATUSES, RUN_STATUSES, New, Row
<1>2. lock \in [Rows \cup {EventLock} -> Txs \cup {None}] /\ t # None
  BY RunConstants DEF RunsInv, TypeOK
<1>3. lock' \in [Rows \cup {EventLock} -> Txs \cup {None}]
  BY <1>2 DEF Abort, Released
<1>4. \A u \in Txs \ {t} : lock[EventLock] = u => lock'[EventLock] = u
  BY <1>2 DEF Abort, Released
<1>5. tx' = [tx EXCEPT ![t] = Idle] /\ UNCHANGED <<run, steps, events>>
  BY DEF Abort, Ended
<1>6. QED
  BY <1>1, <1>3, <1>4, <1>5, OnlyTxMoves

\* LockRow takes a free row lock, or fails.
LEMMA LockRowInv ==
    ASSUME RunsInv, NEW t \in Txs, NEW x \in Rows, LockRow(t, x)
    PROVE  RunsInv'
<1>1. CASE RowIsAsSeen(tx[t], x)
  <2> DEFINE y == [tx[t] EXCEPT !.todo = @ \ {x}]
  <2>1. tx[t] \in Transaction /\ tx[t].phase = "rows"
    BY DEF LockRow, RunsInv, TypeOK
  <2>2. y \in Transaction /\ y.phase = "rows"
    BY <2>1 DEF Transaction
  <2>3. LegalInSnapshot(tx[t]) /\ SnapshotIsDated(tx[t])
    BY <2>1 DEF RunsInv
  <2>4. LegalInSnapshot(y) /\ SnapshotIsDated(y)
    BY <2>1, <2>3 DEF Transaction, LegalInSnapshot, SnapshotIsDated
  <2>5. /\ tx' = [tx EXCEPT ![t] = y] /\ UNCHANGED <<run, steps, events>>
        /\ lock' = [lock EXCEPT ![x] = t]
    BY <1>1 DEF LockRow
  <2> HIDE DEF y
  <2>6. x # EventLock /\ lock \in [Rows \cup {EventLock} -> Txs \cup {None}]
    BY RunConstants DEF Rows, RunsInv, TypeOK
  <2>7. lock' \in [Rows \cup {EventLock} -> Txs \cup {None}] /\ lock'[EventLock] = lock[EventLock]
    BY <2>5, <2>6
  <2>8. QED
    BY <2>2, <2>4, <2>5, <2>7, OnlyTxMoves
<1>2. CASE ~RowIsAsSeen(tx[t], x)
  BY <1>2, AbortInv DEF LockRow
<1>3. QED
  BY <1>1, <1>2

\* AppendRunEvent takes the advisory lock while its snapshot is current, or fails.
LEMMA AppendRunEventInv ==
    ASSUME RunsInv, NEW t \in Txs, AppendRunEvent(t)
    PROVE  RunsInv'
<1>1. CASE ~SequenceTaken(tx[t])
  <2> DEFINE y == [tx[t] EXCEPT !.phase = "commit"]
  <2>1. tx[t] \in Transaction /\ tx[t].phase = "rows"
    BY DEF AppendRunEvent, RunsInv, TypeOK
  <2>2. y \in Transaction /\ y.events = tx[t].events
    BY <2>1 DEF Transaction
  <2>3. LegalInSnapshot(tx[t]) /\ SnapshotIsDated(tx[t])
    BY <2>1 DEF RunsInv
  <2>4. LegalInSnapshot(y) /\ SnapshotIsDated(y)
    BY <2>1, <2>3 DEF Transaction, LegalInSnapshot, SnapshotIsDated
  <2>5. y.events = Len(events)
    BY <1>1, <2>1, <2>2, <2>3 DEF SequenceTaken, SnapshotIsDated, Transaction, RunsInv, TypeOK
  <2>6. /\ tx' = [tx EXCEPT ![t] = y] /\ UNCHANGED <<run, steps, events>>
        /\ lock' = [lock EXCEPT ![EventLock] = t] /\ lock[EventLock] = None
    BY <1>1 DEF AppendRunEvent
  <2> HIDE DEF y
  <2>7. /\ lock' \in [Rows \cup {EventLock} -> Txs \cup {None}] /\ lock'[EventLock] = t
        /\ \A u \in Txs : lock[EventLock] # u
    BY <2>6, RunConstants DEF RunsInv, TypeOK
  <2>8. QED
    BY <2>2, <2>4, <2>5, <2>6, <2>7, OnlyTxMoves
<1>2. CASE SequenceTaken(tx[t])
  BY <1>2, AbortInv DEF AppendRunEvent
<1>3. QED
  BY <1>1, <1>2

\* Commit is one atomic transition of the specification Workflow: its snapshot is still current.
LEMMA CommitIsAtomic ==
    ASSUME RunsInv, NEW t \in Txs, Commit(t)
    PROVE  Atomic!Next
<1>y. PICK y \in Transaction : y = tx[t]
  BY DEF RunsInv, TypeOK
<1>1. /\ y.phase = "commit" /\ LegalInSnapshot(y)
      /\ y.events = Len(events) /\ y.run = run /\ y.steps = steps
  BY <1>y DEF RunsInv, Commit, SnapshotIsDated
<1>2. /\ run' = RunAfter(y) /\ steps' = StepsAfter(y)
      /\ events' = Append(events, NewEvent(y))
  BY <1>y DEF Commit
<1>3. y.to \in STEP_STATUSES
  BY DEF Transaction
<1>4. RowsOK
  BY DEF RunsInv, TypeOK, RowsOK
<1>5. CASE y.row \in Steps
  <2>1. y.row # RunRow /\ StepEdge(steps[y.row].status, y.to)
    BY <1>1, <1>5, RunConstants DEF LegalInSnapshot
  <2>2. events' = Append(events, [sequence |-> Len(events) + 1, row |-> y.row,
                                  from |-> steps[y.row].status, to |-> y.to,
                                  revision |-> steps[y.row].revision + 1])
    BY <1>1, <1>2, <2>1 DEF NewEvent
  <2>3. Atomic!MoveStep(y.row, y.to)
    BY <1>2, <1>5, <2>1, <2>2
       DEF Atomic!MoveStep, Atomic!Log, Atomic!StepEdge, Atomic!Moved, StepEdge, Moved, RunAfter, StepsAfter
  <2>4. QED
    BY <1>3, <1>5, <2>3 DEF Atomic!Next, Atomic!STEP_STATUSES, Atomic!RUN_STATUSES, STEP_STATUSES, RUN_STATUSES
<1>6. CASE y.row \notin Steps
  <2>1. y.row = RunRow /\ RunEdge(run.status, y.to) /\ RunMayEnd(steps, y.to)
    BY <1>1, <1>6 DEF LegalInSnapshot
  <2>2. events' = Append(events, [sequence |-> Len(events) + 1, row |-> RunRow,
                                  from |-> run.status, to |-> y.to,
                                  revision |-> run.revision + 1])
    BY <1>1, <1>2, <2>1 DEF NewEvent
  <2>3. run' = Moved(run, y.to)
    BY <1>2, <2>1 DEF RunAfter
  <2>4. CASE y.to = "cancelled"
    <3>1. steps' = [s \in Steps |-> IF s \in Swept(steps) THEN Moved(steps[s], "cancelled")
                                                         ELSE steps[s]]
      BY <1>1, <1>2, <1>6, <2>4 DEF StepsAfter
    <3>2. steps' = [s \in Steps |-> IF steps[s].status \in StepTerminal THEN steps[s]
                                    ELSE Moved(steps[s], "cancelled")]
      BY <3>1 DEF Swept
    <3>3. Atomic!Cancel
      BY <2>1, <2>2, <2>3, <2>4, <3>2
         DEF Atomic!Cancel, Atomic!Log, Atomic!RunEdge, Atomic!Moved, Atomic!StepTerminal,
             RunEdge, Moved, StepTerminal
    <3>4. QED
      BY <3>3 DEF Atomic!Next
  <2>5. CASE y.to # "cancelled"
    <3>1. steps' = steps
      BY <1>2, <1>6, <2>5 DEF StepsAfter
    <3>2. Atomic!MoveRun(y.to)
      BY <2>1, <2>2, <2>3, <2>5, <3>1
         DEF Atomic!MoveRun, Atomic!Log, Atomic!RunEdge, Atomic!RunMayEnd, Atomic!Moved,
             RunEdge, RunMayEnd, Moved
    <3>3. y.to \in RUN_STATUSES
      BY <2>1 DEF RunEdge, RUN_STATUSES
    <3>4. QED
      BY <3>2, <3>3 DEF Atomic!Next, Atomic!RUN_STATUSES, RUN_STATUSES
  <2>6. QED
    BY <2>4, <2>5
<1>7. QED
  BY <1>5, <1>6

\* What an atomic transition does, in the terms of this module.
LEMMA AtomicMoves ==
    ASSUME RowsOK, Atomic!Next
    PROVE  \/ \E s \in Steps, to \in STEP_STATUSES :
                 /\ StepEdge(steps[s].status, to) /\ run' = run
                 /\ steps' = [steps EXCEPT ![s] = Moved(steps[s], to)]
                 /\ Atomic!Log(s, steps[s], to)
           \/ \E to \in RUN_STATUSES :
                 /\ RunEdge(run.status, to) /\ run' = Moved(run, to)
                 /\ Atomic!Log(RunRow, run, to)
                 /\ \/ RunMayEnd(steps, to) /\ to # "cancelled" /\ steps' = steps
                    \/ /\ to = "cancelled"
                       /\ steps' = [s \in Steps |-> IF steps[s].status \in StepTerminal THEN steps[s]
                                                    ELSE Moved(steps[s], "cancelled")]
<1>1. ASSUME NEW s \in Steps, NEW to \in STEP_STATUSES, Atomic!MoveStep(s, to)
      PROVE  /\ StepEdge(steps[s].status, to) /\ run' = run
             /\ steps' = [steps EXCEPT ![s] = Moved(steps[s], to)]
             /\ Atomic!Log(s, steps[s], to)
  BY <1>1 DEF Atomic!MoveStep, Atomic!StepEdge, Atomic!Moved, StepEdge, Moved
<1>2. ASSUME NEW to \in RUN_STATUSES, Atomic!MoveRun(to)
      PROVE  /\ RunEdge(run.status, to) /\ run' = Moved(run, to)
             /\ Atomic!Log(RunRow, run, to)
             /\ RunMayEnd(steps, to) /\ to # "cancelled" /\ steps' = steps
  BY <1>2 DEF Atomic!MoveRun, Atomic!RunEdge, Atomic!RunMayEnd, Atomic!Moved, RunEdge, RunMayEnd, Moved
<1>3. ASSUME Atomic!Cancel
      PROVE  /\ RunEdge(run.status, "cancelled") /\ run' = Moved(run, "cancelled")
             /\ Atomic!Log(RunRow, run, "cancelled")
             /\ steps' = [s \in Steps |-> IF steps[s].status \in StepTerminal THEN steps[s]
                                          ELSE Moved(steps[s], "cancelled")]
  BY <1>3 DEF Atomic!Cancel, Atomic!RunEdge, Atomic!Moved, Atomic!StepTerminal, RunEdge, Moved, StepTerminal
<1>4. /\ Atomic!STEP_STATUSES = STEP_STATUSES /\ Atomic!RUN_STATUSES = RUN_STATUSES
      /\ "cancelled" \in RUN_STATUSES
  BY DEF Atomic!STEP_STATUSES, Atomic!RUN_STATUSES, STEP_STATUSES, RUN_STATUSES
<1>5. \/ \E s \in Steps, to \in STEP_STATUSES : Atomic!MoveStep(s, to)
      \/ \E to \in RUN_STATUSES : Atomic!MoveRun(to)
      \/ Atomic!Cancel
  BY <1>4 DEF Atomic!Next
<1>6. QED
  BY <1>1, <1>2, <1>3, <1>4, <1>5

\* An ended row stays as it is, and an ended run is not written again.
LEMMA EdgesLeaveTheTerminal ==
    ASSUME NEW from, NEW to
    PROVE  /\ StepEdge(from, to) => from \notin StepTerminal /\ to \in STEP_STATUSES
           /\ RunEdge(from, to) => /\ from \notin {"succeeded", "failed", "cancelled"}
                                   /\ to \in RUN_STATUSES
BY DEF StepEdge, RunEdge, StepTerminal, STEP_STATUSES, RUN_STATUSES

\* An atomic transition keeps the rows' types and appends one event.
LEMMA AtomicTypes ==
    ASSUME RowsOK, Atomic!Next
    PROVE  RowsOK' /\ Len(events') = Len(events) + 1
<1>1. ASSUME NEW x \in Rows, NEW row \in Row, NEW to \in STEP_STATUSES, Atomic!Log(x, row, to)
      PROVE  events' \in Seq(Event) /\ Len(events') = Len(events) + 1
  <2> DEFINE e == [sequence |-> Len(events) + 1, row |-> x, from |-> row.status, to |-> to,
                   revision |-> row.revision + 1]
  <2>1. e \in Event
    BY DEF RowsOK, Event, Row
  <2>2. events' = Append(events, e)
    BY <1>1 DEF Atomic!Log
  <2> HIDE DEF e
  <2>3. QED
    BY <2>1, <2>2 DEF RowsOK
<1>2. RUN_STATUSES \subseteq STEP_STATUSES /\ RunRow \in Rows /\ Steps \subseteq Rows
  BY DEF STEP_STATUSES, Rows
<1>3. CASE \E s \in Steps, to \in STEP_STATUSES :
             /\ StepEdge(steps[s].status, to) /\ run' = run
             /\ steps' = [steps EXCEPT ![s] = Moved(steps[s], to)]
             /\ Atomic!Log(s, steps[s], to)
  <2>1. PICK s \in Steps, to \in STEP_STATUSES :
             /\ run' = run
             /\ steps' = [steps EXCEPT ![s] = Moved(steps[s], to)]
             /\ Atomic!Log(s, steps[s], to)
    BY <1>3
  <2>2. steps[s] \in Row /\ Moved(steps[s], to) \in Row
    BY MovedRow DEF RowsOK
  <2>3. QED
    BY <1>1, <1>2, <2>1, <2>2 DEF RowsOK
<1>4. CASE \E to \in RUN_STATUSES :
             /\ run' = Moved(run, to) /\ Atomic!Log(RunRow, run, to)
             /\ \/ steps' = steps
                \/ steps' = [s \in Steps |-> IF steps[s].status \in StepTerminal THEN steps[s]
                                             ELSE Moved(steps[s], "cancelled")]
  <2>1. PICK to \in RUN_STATUSES :
             /\ run' = Moved(run, to) /\ Atomic!Log(RunRow, run, to)
             /\ \/ steps' = steps
                \/ steps' = [s \in Steps |-> IF steps[s].status \in StepTerminal THEN steps[s]
                                             ELSE Moved(steps[s], "cancelled")]
    BY <1>4
  <2>2. run' \in Row /\ run'.status \in RUN_STATUSES
    BY <1>2, <2>1, MovedRow DEF RowsOK
  <2>3. \A s \in Steps : steps[s] \in Row /\ Moved(steps[s], "cancelled") \in Row
    BY <1>2, MovedRow DEF RowsOK, RUN_STATUSES
  <2>4. steps' \in [Steps -> Row]
    BY <2>1, <2>3 DEF RowsOK
  <2>5. events' \in Seq(Event) /\ Len(events') = Len(events) + 1
    BY <1>1, <1>2, <2>1 DEF RowsOK
  <2>6. QED
    BY <2>2, <2>4, <2>5 DEF RowsOK
<1>5. QED
  BY <1>3, <1>4, AtomicMoves

\* An atomic transition keeps the run's status in agreement with its steps.
LEMMA AtomicAggregate ==
    ASSUME RowsOK, AggregateStatus, Atomic!Next
    PROVE  AggregateStatus'
<1>1. ASSUME NEW s \in Steps, NEW to \in STEP_STATUSES, StepEdge(steps[s].status, to),
             run' = run, steps' = [steps EXCEPT ![s] = Moved(steps[s], to)]
      PROVE  AggregateStatus'
  <2>1. steps[s].status \notin StepTerminal
    BY <1>1, EdgesLeaveTheTerminal
  <2>2. \A x \in Steps : x # s => steps'[x] = steps[x]
    BY <1>1 DEF RowsOK
  <2>3. run.status \notin {"succeeded", "cancelled"}
    BY <2>1 DEF AggregateStatus, StepTerminal
  <2>4. run.status = "failed" => \E x \in Steps : x # s /\ steps[x].status = "failed"
    BY <2>1 DEF AggregateStatus, StepTerminal
  <2>5. QED
    BY <1>1, <2>2, <2>3, <2>4 DEF AggregateStatus
<1>2. ASSUME NEW to \in RUN_STATUSES, run' = Moved(run, to), RunMayEnd(steps, to),
             to # "cancelled", steps' = steps
      PROVE  AggregateStatus'
  <2>1. run'.status = to
    BY <1>2 DEF Moved
  <2>2. DOMAIN steps = Steps
    BY DEF RowsOK
  <2>3. QED
    BY <1>2, <2>1, <2>2 DEF AggregateStatus, RunMayEnd
<1>3. ASSUME run' = Moved(run, "cancelled"),
             steps' = [s \in Steps |-> IF steps[s].status \in StepTerminal THEN steps[s]
                                       ELSE Moved(steps[s], "cancelled")]
      PROVE  AggregateStatus'
  <2>1. run'.status = "cancelled" /\ \A row : Moved(row, "cancelled").status = "cancelled"
    BY <1>3 DEF Moved
  <2>2. \A s \in Steps : steps'[s].status \in StepTerminal
    BY <1>3, <2>1 DEF StepTerminal
  <2>3. QED
    BY <2>1, <2>2 DEF AggregateStatus
<1>4. QED
  BY <1>1, <1>2, <1>3, AtomicMoves

\* One more event keeps what the earlier ones say of every row.
LEMMA AppendedEvent ==
    ASSUME NEW log \in Seq(Event), NEW e
    PROVE  /\ Len(Append(log, e)) = Len(log) + 1 /\ Len(log) \in Nat
           /\ \A j \in 1..Len(log) : Append(log, e)[j] = log[j]
           /\ Append(log, e)[Len(log) + 1] = e
           /\ RowsIn(log) \subseteq RowsIn(Append(log, e))
<1> DEFINE longer == Append(log, e)
<1>1. /\ Len(longer) = Len(log) + 1 /\ Len(log) \in Nat
      /\ \A j \in 1..Len(log) : longer[j] = log[j]
      /\ longer[Len(log) + 1] = e
  OBVIOUS
<1> HIDE DEF longer
<1>2. RowsIn(log) \subseteq RowsIn(longer)
  <2> SUFFICES ASSUME NEW j \in 1..Len(log) PROVE Left(log[j]) \in RowsIn(longer)
    BY DEF RowsIn
  <2>1. j \in 1..Len(longer) /\ longer[j] = log[j]
    BY <1>1
  <2>2. Left(longer[j]) \in RowsIn(longer)
    BY <2>1 DEF RowsIn
  <2>3. QED
    BY <2>1, <2>2
<1>3. QED
  BY <1>1, <1>2 DEF longer

\* A row is what the log says of it in one of the log's rows.
LEMMA AsOfIsIn ==
    ASSUME NEW log \in Seq(Event), NEW x, NEW r, AsOf(log, x, Len(log), r)
    PROVE  r \in RowsIn(log)
BY DEF AsOf, RowsIn

\* What a log says of a row it goes on saying, until an event of that row is appended.
LEMMA AsOfKept ==
    ASSUME NEW log \in Seq(Event), NEW e, NEW x, NEW r, NEW n \in 0..Len(log), AsOf(log, x, n, r)
    PROVE  /\ AsOf(Append(log, e), x, n, r)
           /\ n = Len(log) /\ e.row # x => AsOf(Append(log, e), x, n + 1, r)
<1> DEFINE longer == Append(log, e)
<1>1. /\ Len(longer) = Len(log) + 1 /\ Len(log) \in Nat
      /\ \A j \in 1..Len(log) : longer[j] = log[j]
      /\ longer[Len(log) + 1] = e
  BY AppendedEvent
<1> HIDE DEF longer
<1>2. CASE r = New /\ \A j \in 1..n : log[j].row # x
  BY <1>1, <1>2 DEF AsOf, longer
<1>3. CASE \E j \in 1..n : /\ log[j].row = x /\ r = Left(log[j])
                           /\ \A k \in (j + 1)..n : log[k].row # x
  <2>1. PICK j \in 1..n : /\ log[j].row = x /\ r = Left(log[j])
                          /\ \A k \in (j + 1)..n : log[k].row # x
    BY <1>3
  <2>2. longer[j] = log[j] /\ \A k \in (j + 1)..n : longer[k].row # x
    BY <1>1, <2>1
  <2>3. AsOf(longer, x, n, r)
    BY <2>1, <2>2 DEF AsOf
  <2>4. ASSUME n = Len(log), e.row # x PROVE AsOf(longer, x, n + 1, r)
    <3>1. \A k \in (j + 1)..(n + 1) : longer[k].row # x
      BY <1>1, <2>2, <2>4
    <3>2. j \in 1..(n + 1)
      OBVIOUS
    <3>3. QED
      BY <2>1, <2>2, <3>1, <3>2 DEF AsOf
  <2>5. QED
    BY <2>3, <2>4 DEF longer
<1>4. QED
  BY <1>2, <1>3 DEF AsOf

\* The same of the whole log.
LEMMA AsOfKeptToTheEnd ==
    ASSUME NEW log \in Seq(Event), NEW e, NEW x, NEW r, AsOf(log, x, Len(log), r), e.row # x
    PROVE  AsOf(Append(log, e), x, Len(log) + 1, r)
<1>1. PICK n : n = Len(log)
  OBVIOUS
<1>2. n \in 0..Len(log) /\ AsOf(log, x, n, r)
  BY <1>1
<1>3. QED
  BY <1>1, <1>2, AsOfKept

\* The event just appended says how it left its row.
LEMMA AsOfLogged ==
    ASSUME NEW log \in Seq(Event), NEW e
    PROVE  AsOf(Append(log, e), e.row, Len(log) + 1, Left(e))
<1>1. Len(log) \in Nat /\ Append(log, e)[Len(log) + 1] = e
  BY AppendedEvent
<1>2. /\ Len(log) + 1 \in 1..(Len(log) + 1)
      /\ \A k \in (Len(log) + 2)..(Len(log) + 1) : FALSE
  BY <1>1
<1>3. QED
  BY <1>1, <1>2 DEF AsOf

\* A log that is numbered and in which every event follows the last one of its row stays so.
LEMMA FollowsKept ==
    ASSUME NEW log \in Seq(Event), NEW e, NEW r,
           \A i \in 1..Len(log) : log[i].sequence = i /\ Follows(log, i),
           AsOf(log, e.row, Len(log), r), e.sequence = Len(log) + 1,
           e.from = r.status, e.revision = r.revision + 1
    PROVE  \A i \in 1..Len(Append(log, e)) :
              Append(log, e)[i].sequence = i /\ Follows(Append(log, e), i)
<1> DEFINE longer == Append(log, e)
<1>1. /\ Len(longer) = Len(log) + 1 /\ Len(log) \in Nat
      /\ \A j \in 1..Len(log) : longer[j] = log[j]
      /\ longer[Len(log) + 1] = e /\ RowsIn(log) \subseteq RowsIn(longer)
  BY AppendedEvent
<1>2. ASSUME NEW i \in 1..Len(log) PROVE longer[i].sequence = i /\ Follows(longer, i)
  <2>1. PICK row \in RowsIn(log) : /\ AsOf(log, log[i].row, i - 1, row)
                                   /\ log[i].from = row.status
                                   /\ log[i].revision = row.revision + 1
    BY DEF Follows
  <2>2. i - 1 \in 0..Len(log)
    BY <1>1
  <2>3. AsOf(longer, log[i].row, i - 1, row)
    BY <2>1, <2>2, AsOfKept
  <2> HIDE DEF longer
  <2>4. longer[i] = log[i] /\ row \in RowsIn(longer)
    BY <1>1
  <2>5. QED
    BY <2>1, <2>3, <2>4 DEF Follows
<1>3. longer[Len(log) + 1].sequence = Len(log) + 1 /\ Follows(longer, Len(log) + 1)
  <2>1. r \in RowsIn(longer)
    BY <1>1, AsOfIsIn
  <2>2. AsOf(longer, e.row, Len(log), r) /\ (Len(log) + 1) - 1 = Len(log)
    BY <1>1, AsOfKept
  <2> HIDE DEF longer
  <2>3. QED
    BY <1>1, <2>1, <2>2 DEF Follows
<1>4. QED
  <2> HIDE DEF longer
  <2>1. \A i \in 1..Len(longer) : i \in 1..Len(log) \/ i = Len(log) + 1
    BY <1>1
  <2>2. \A i \in 1..Len(longer) : longer[i].sequence = i /\ Follows(longer, i)
    BY <1>2, <1>3, <2>1
  <2>3. QED
    BY <2>2 DEF longer

\* A swept step stays explained until it has an event of its own.
LEMMA SweptKept ==
    ASSUME NEW log \in Seq(Event), NEW e, NEW x, NEW r, e.row # x, SweptAfter(log, x, r)
    PROVE  SweptAfter(Append(log, e), x, r)
<1>1. PICK last \in RowsIn(log) : /\ AsOf(log, x, Len(log), last)
                                  /\ last.status \notin StepTerminal
                                  /\ r = Moved(last, "cancelled")
  BY DEF SweptAfter
<1>2. /\ Len(log) \in Nat /\ Len(Append(log, e)) = Len(log) + 1
      /\ RowsIn(log) \subseteq RowsIn(Append(log, e))
  BY AppendedEvent
<1>3. AsOf(Append(log, e), x, Len(log) + 1, last)
  BY <1>1, AsOfKeptToTheEnd
<1>4. QED
  BY <1>1, <1>2, <1>3 DEF SweptAfter

\* An atomic transition appends the event that explains it.
LEMMA AtomicEvents ==
    ASSUME RowsOK, EventsExplainRows, Atomic!Next
    PROVE  EventsExplainRows'
<1>0. events \in Seq(Event) /\ Len(events) \in Nat
  BY DEF RowsOK
<1>1. ASSUME NEW s \in Steps, NEW to \in STEP_STATUSES, StepEdge(steps[s].status, to),
             run' = run, steps' = [steps EXCEPT ![s] = Moved(steps[s], to)],
             Atomic!Log(s, steps[s], to)
      PROVE  EventsExplainRows'
  <2>e. PICK e : e = [sequence |-> Len(events) + 1, row |-> s, from |-> steps[s].status,
                      to |-> to, revision |-> steps[s].revision + 1]
    OBVIOUS
  <2>1. /\ events' = Append(events, e) /\ e.row = s /\ e.sequence = Len(events) + 1
        /\ e.from = steps[s].status /\ e.revision = steps[s].revision + 1
        /\ Left(e) = Moved(steps[s], to)
    BY <1>1, <2>e DEF Atomic!Log, Left, Moved
  <2>2. Len(events') = Len(events) + 1
    BY <1>0, <2>1, AppendedEvent
  <2>3. steps[s].status # "cancelled"
    BY <1>1 DEF StepEdge
  <2>4. AsOf(events, s, Len(events), steps[s])
    <3>1. \A row : Moved(row, "cancelled").status = "cancelled"
      BY DEF Moved
    <3>2. ~SweptAfter(events, s, steps[s])
      BY <2>3, <3>1 DEF SweptAfter
    <3>3. QED
      BY <3>2 DEF EventsExplainRows
  <2>5. \A i \in 1..Len(events') : events'[i].sequence = i /\ Follows(events', i)
    BY <1>0, <2>1, <2>4, FollowsKept DEF EventsExplainRows
  <2>6. AsOf(events', RunRow, Len(events'), run')
    <3>1. AsOf(events, RunRow, Len(events), run) /\ e.row # RunRow
      BY <2>1, RunConstants DEF EventsExplainRows
    <3>2. AsOf(Append(events, e), RunRow, Len(events) + 1, run)
      BY <1>0, <3>1, AsOfKeptToTheEnd
    <3>3. QED
      BY <1>1, <2>1, <2>2, <3>2
  <2>7. ASSUME NEW x \in Steps
        PROVE  \/ AsOf(events', x, Len(events'), steps'[x])
               \/ run'.status = "cancelled" /\ SweptAfter(events', x, steps'[x])
    <3>1. CASE x = s
      <4>1. steps'[x] = Left(e)
        BY <1>1, <2>1, <3>1 DEF RowsOK
      <4>2. AsOf(Append(events, e), x, Len(events) + 1, Left(e))
        BY <1>0, <2>1, <3>1, AsOfLogged
      <4>3. QED
        BY <2>1, <2>2, <4>1, <4>2
    <3>2. CASE x # s
      <4>1. steps'[x] = steps[x] /\ e.row # x
        BY <1>1, <2>1, <3>2 DEF RowsOK
      <4>2. CASE AsOf(events, x, Len(events), steps[x])
        <5>1. AsOf(Append(events, e), x, Len(events) + 1, steps[x])
          BY <1>0, <4>1, <4>2, AsOfKeptToTheEnd
        <5>2. QED
          BY <2>1, <2>2, <4>1, <5>1
      <4>3. CASE run.status = "cancelled" /\ SweptAfter(events, x, steps[x])
        <5>1. SweptAfter(Append(events, e), x, steps[x])
          BY <1>0, <4>1, <4>3, SweptKept
        <5>2. QED
          BY <1>1, <2>1, <4>1, <4>3, <5>1
      <4>4. QED
        BY <4>2, <4>3 DEF EventsExplainRows
    <3>3. QED
      BY <3>1, <3>2
  <2>8. QED
    BY <2>5, <2>6, <2>7 DEF EventsExplainRows
<1>2. ASSUME NEW to \in RUN_STATUSES, RunEdge(run.status, to), run' = Moved(run, to),
             Atomic!Log(RunRow, run, to),
             \/ steps' = steps
             \/ /\ to = "cancelled"
                /\ steps' = [s \in Steps |-> IF steps[s].status \in StepTerminal THEN steps[s]
                                             ELSE Moved(steps[s], "cancelled")]
      PROVE  EventsExplainRows'
  <2>e. PICK e : e = [sequence |-> Len(events) + 1, row |-> RunRow, from |-> run.status,
                      to |-> to, revision |-> run.revision + 1]
    OBVIOUS
  <2>1. /\ events' = Append(events, e) /\ e.row = RunRow /\ e.sequence = Len(events) + 1
        /\ e.from = run.status /\ e.revision = run.revision + 1
        /\ Left(e) = Moved(run, to)
    BY <1>2, <2>e DEF Atomic!Log, Left, Moved
  <2>2. /\ Len(events') = Len(events) + 1 /\ RowsIn(events) \subseteq RowsIn(events')
    BY <1>0, <2>1, AppendedEvent
  <2>3. \A i \in 1..Len(events') : events'[i].sequence = i /\ Follows(events', i)
    BY <1>0, <2>1, FollowsKept DEF EventsExplainRows
  <2>4. AsOf(events', RunRow, Len(events'), run')
    <3>1. AsOf(Append(events, e), RunRow, Len(events) + 1, Left(e))
      BY <1>0, <2>1, AsOfLogged
    <3>2. QED
      BY <1>2, <2>1, <2>2, <3>1
  <2>5. ASSUME NEW x \in Steps
        PROVE  \/ AsOf(events', x, Len(events'), steps'[x])
               \/ run'.status = "cancelled" /\ SweptAfter(events', x, steps'[x])
    <3>1. run.status # "cancelled" /\ e.row # x
      BY <1>2, <2>1, RunConstants DEF RunEdge
    <3>2. AsOf(events, x, Len(events), steps[x])
      BY <3>1 DEF EventsExplainRows
    <3>3. AsOf(events', x, Len(events'), steps[x])
      <4>1. AsOf(Append(events, e), x, Len(events) + 1, steps[x])
        BY <1>0, <3>1, <3>2, AsOfKeptToTheEnd
      <4>2. QED
        BY <2>1, <2>2, <4>1
    <3>4. CASE steps'[x] = steps[x]
      BY <3>3, <3>4
    <3>5. CASE steps'[x] # steps[x]
      <4>1. /\ to = "cancelled" /\ steps[x].status \notin StepTerminal
            /\ steps'[x] = Moved(steps[x], "cancelled")
        BY <1>2, <3>5
      <4>2. run'.status = "cancelled"
        BY <1>2, <4>1 DEF Moved
      <4>3. steps[x] \in RowsIn(events')
        BY <1>0, <2>2, <3>2, AsOfIsIn
      <4>4. QED
        BY <3>3, <4>1, <4>2, <4>3 DEF SweptAfter
    <3>6. QED
      BY <3>4, <3>5
  <2>6. QED
    BY <2>3, <2>4, <2>5 DEF EventsExplainRows
<1>3. QED
  BY <1>1, <1>2, AtomicMoves

\* Commit keeps the invariant: whoever else is open has seen one event less.
LEMMA CommitInv ==
    ASSUME RunsInv, NEW t \in Txs, Commit(t)
    PROVE  RunsInv'
<1>1. RowsOK /\ AggregateStatus /\ EventsExplainRows /\ Atomic!Next
  BY CommitIsAtomic DEF RunsInv, TypeOK, RowsOK
<1>2. RowsOK' /\ AggregateStatus' /\ EventsExplainRows' /\ Len(events') = Len(events) + 1
  BY <1>1, AtomicTypes, AtomicAggregate, AtomicEvents
<1>3. Idle \in Transaction /\ Idle.phase = "idle"
  BY RunConstants DEF Idle, Transaction, STEP_STATUSES, RUN_STATUSES, New, Row
<1>4. /\ tx' = [tx EXCEPT ![t] = Idle] /\ tx \in [Txs -> Transaction]
      /\ lock \in [Rows \cup {EventLock} -> Txs \cup {None}] /\ Len(events) \in Nat
  BY DEF Commit, Ended, RunsInv, TypeOK
<1>5. tx' \in [Txs -> Transaction] /\ lock' \in [Rows \cup {EventLock} -> Txs \cup {None}]
  BY <1>3, <1>4 DEF Commit, Released
<1>6. TypeOK'
  BY <1>2, <1>5 DEF TypeOK, RowsOK
<1>7. ASSUME NEW u \in Txs, tx'[u].phase # "idle"
      PROVE  /\ u # t /\ tx'[u] = tx[u] /\ tx[u].phase # "idle" /\ tx[u].phase # "commit"
             /\ LegalInSnapshot(tx[u]) /\ tx[u].events <= Len(events) /\ tx[u].events \in Nat
  <2>1. u # t /\ tx'[u] = tx[u] /\ tx[u].phase # "idle"
    BY <1>3, <1>4, <1>7
  <2>2. tx[u].phase # "commit"
    BY <2>1 DEF Commit, RunsInv
  <2>3. LegalInSnapshot(tx[u]) /\ tx[u].events <= Len(events) /\ tx[u].events \in Nat
    BY <1>4, <2>1 DEF RunsInv, SnapshotIsDated, Transaction
  <2>4. QED
    BY <2>1, <2>2, <2>3
<1>8. (\A u \in Txs : tx[u].phase # "idle" => LegalInSnapshot(tx[u]) /\ SnapshotIsDated(tx[u]))'
  <2> SUFFICES ASSUME NEW u \in Txs, tx'[u].phase # "idle"
               PROVE  LegalInSnapshot(tx[u])' /\ SnapshotIsDated(tx[u])'
    OBVIOUS
  <2>1. LegalInSnapshot(tx[u])'
    BY <1>7 DEF LegalInSnapshot
  <2>2. SnapshotIsDated(tx[u])'
    BY <1>2, <1>4, <1>7 DEF SnapshotIsDated
  <2>3. QED
    BY <2>1, <2>2
<1>9. (\A u \in Txs : tx[u].phase = "commit" =>
          lock[EventLock] = u /\ tx[u].events = Len(events))'
  BY <1>7
<1>10. QED
  BY <1>2, <1>6, <1>8, <1>9 DEF RunsInv

\* RunsInv is an inductive invariant.
THEOREM RunsInvariant == Spec => []RunsInv
<1>1. RunsInv /\ [Next]_vars => RunsInv'
  <2> SUFFICES ASSUME RunsInv, [Next]_vars PROVE RunsInv'
    OBVIOUS
  <2>1. ASSUME NEW t \in Txs, NEW x \in Rows, NEW to \in STEP_STATUSES, Begin(t, x, to)
        PROVE  RunsInv'
    BY <2>1, BeginInv
  <2>2. ASSUME NEW t \in Txs, NEW x \in Rows, LockRow(t, x)
        PROVE  RunsInv'
    BY <2>2, LockRowInv
  <2>3. ASSUME NEW t \in Txs, AppendRunEvent(t)
        PROVE  RunsInv'
    BY <2>3, AppendRunEventInv
  <2>4. ASSUME NEW t \in Txs, Commit(t)
        PROVE  RunsInv'
    BY <2>4, CommitInv
  <2>5. ASSUME NEW t \in Txs, Rollback(t)
        PROVE  RunsInv'
    BY <2>5, AbortInv DEF Rollback
  <2>6. CASE UNCHANGED vars
    BY <2>6 DEF vars, RunsInv, TypeOK, AggregateStatus, EventsExplainRows, LegalInSnapshot,
                SnapshotIsDated
  <2>7. QED
    BY <2>1, <2>2, <2>3, <2>4, <2>5, <2>6 DEF Next
<1>2. QED
  BY <1>1, RunsInvInit, PTL DEF Spec

\* Rows, events, locks and transactions keep their shape.
THEOREM TypeCorrect == Spec => []TypeOK
<1>1. RunsInv => TypeOK
  BY DEF RunsInv
<1>2. QED
  BY <1>1, RunsInvariant, PTL

\* The status of a run agrees with the statuses of its steps, whatever was under way when it ended.
THEOREM AggregateIsRight == Spec => []AggregateStatus
<1>1. RunsInv => AggregateStatus
  BY DEF RunsInv
<1>2. QED
  BY <1>1, RunsInvariant, PTL

\* workflow_run_events explains every row of the run.
THEOREM EventLogIsComplete == Spec => []EventsExplainRows
<1>1. RunsInv => EventsExplainRows
  BY DEF RunsInv
<1>2. QED
  BY <1>1, RunsInvariant, PTL

\* Every step of the transactions is an atomic transition or leaves the tables alone.
LEMMA StepIsAtomic ==
    ASSUME RunsInv, [Next]_vars
    PROVE  Atomic!Next \/ UNCHANGED <<run, steps, events>>
<1>1. (\E t \in Txs : Commit(t)) \/ UNCHANGED <<run, steps, events>>
  BY DEF Next, vars, Begin, LockRow, AppendRunEvent, Rollback, Abort
<1>2. QED
  BY <1>1, CommitIsAtomic

\* A run that succeeded or was cancelled is over, for every transaction still under way.
THEOREM EndedRunsAreQuiet == Spec => QuietAfterEnd
<1>1. ASSUME RunsInv, [Next]_vars, run.status \in {"succeeded", "cancelled"}
      PROVE  UNCHANGED <<run, steps, events>>
  <2>1. RowsOK /\ AggregateStatus
    BY <1>1 DEF RunsInv, TypeOK, RowsOK
  <2>2. \A s \in Steps : steps[s].status \in StepTerminal
    BY <1>1, <2>1 DEF AggregateStatus, StepTerminal
  <2>3. ~Atomic!Next
    BY <1>1, <2>1, <2>2, AtomicMoves, EdgesLeaveTheTerminal
  <2>4. QED
    BY <1>1, <2>3, StepIsAtomic
<1>2. RunsInv /\ [Next]_vars =>
        [run.status \in {"succeeded", "cancelled"} => UNCHANGED <<run, steps, events>>]_vars
  BY <1>1
<1>3. QED
  BY <1>2, RunsInvariant, PTL DEF Spec, QuietAfterEnd

\* The interleaved transactions implement the atomic specification Workflow.
THEOREM RunsImplementWorkflow == Spec => ImplementsWorkflow
<1>1. Init => Atomic!Init
  BY DEF Init, Atomic!Init, New, Atomic!New
<1>2. RunsInv /\ [Next]_vars => [Atomic!Next]_(Atomic!vars)
  BY StepIsAtomic DEF Atomic!vars
<1>3. QED
  BY <1>1, <1>2, RunsInvariant, PTL DEF Spec, ImplementsWorkflow, Atomic!Spec
-----------------------------------------------------------------------------
(* No transitions wait for each other in a ring *)

\* Whoever gives its locks back holds none.
LEMMA AbortAgrees ==
    ASSUME RunsInv, LocksAgree, NEW t \in Txs,
           tx' = [tx EXCEPT ![t] = Idle], lock' = Released(t)
    PROVE  LocksAgree'
<1>1. /\ \A u \in Txs : tx'[u] = IF u = t THEN Idle ELSE tx[u]
      /\ \A x \in Rows \cup {EventLock} : lock'[x] = IF lock[x] = t THEN None ELSE lock[x]
      /\ t # None /\ Idle.phase = "idle"
  BY RunConstants DEF Released, RunsInv, TypeOK, Idle
<1>2. ASSUME NEW u \in Txs, NEW x \in Rows \cup {EventLock}, lock'[x] = u PROVE u # t /\ lock[x] = u
  BY <1>1, <1>2, RunConstants
<1>3. ASSUME NEW u \in Txs, NEW x \in Rows \cup {EventLock}, u # t, lock[x] = u PROVE lock'[x] = u
  BY <1>1, <1>3
<1>4. \A u \in Txs : \A x \in Rows : lock'[x] = u =>
         tx'[u].phase # "idle" /\ x \notin tx'[u].todo /\ tx'[u].row \notin tx'[u].todo
  BY <1>1, <1>2 DEF LocksAgree
<1>5. \A u \in Txs : tx'[u].phase # "idle" =>
         /\ tx'[u].row \in Rows
         /\ tx'[u].row \notin tx'[u].todo => lock'[tx'[u].row] = u
         /\ tx'[u].row # RunRow => tx'[u].todo \subseteq {tx'[u].row}
  BY <1>1, <1>3 DEF LocksAgree
<1>6. \A u \in Txs : lock'[EventLock] = u => tx'[u].phase = "commit"
  BY <1>1, <1>2 DEF LocksAgree
<1> QED
  BY <1>4, <1>5, <1>6 DEF LocksAgree

\* A transaction that opens has asked for nothing yet.
LEMMA BeginAgrees ==
    ASSUME RunsInv, LocksAgree, NEW t \in Txs, NEW x \in Rows, NEW to \in STEP_STATUSES, Begin(t, x, to)
    PROVE  LocksAgree'
<1>1. PICK y \in Transaction :
         /\ tx' = [tx EXCEPT ![t] = y] /\ y.phase = "rows" /\ y.row = x
         /\ x \in y.todo /\ (x # RunRow => y.todo = {x})
  <2>1. [phase |-> "rows", row |-> x, to |-> to, run |-> run, steps |-> steps, events |-> Len(events),
         todo |-> {x} \cup (IF x = RunRow /\ to = "cancelled" THEN Swept(steps) ELSE {})]
           \in Transaction
    BY DEF RunsInv, TypeOK, Transaction, Swept, Rows
  <2> QED
    BY <2>1 DEF Begin
<1>2. /\ \A u \in Txs : tx'[u] = IF u = t THEN y ELSE tx[u]
      /\ lock' = lock /\ tx[t].phase = "idle"
  BY <1>1 DEF Begin, RunsInv, TypeOK
<1>3. \A z \in Rows \cup {EventLock} : lock[z] # t
  BY <1>2 DEF LocksAgree
<1> QED
  BY <1>1, <1>2, <1>3 DEF LocksAgree

\* A transaction takes its own row first, and then the swept ones.
LEMMA LockRowAgrees ==
    ASSUME RunsInv, LocksAgree, NEW t \in Txs, NEW x \in Rows, LockRow(t, x), RowIsAsSeen(tx[t], x)
    PROVE  LocksAgree'
<1>1. PICK y \in Transaction, z \in Transaction :
         /\ y = tx[t] /\ tx' = [tx EXCEPT ![t] = z]
         /\ z.phase = "rows" /\ y.phase = "rows" /\ z.row = y.row /\ z.todo = y.todo \ {x}
         /\ x \in y.todo /\ (x # y.row => y.row \notin y.todo)
  <2>1. tx[t] \in Transaction /\ [tx[t] EXCEPT !.todo = @ \ {x}] \in Transaction
    BY ZenonT(30) DEF RunsInv, TypeOK, Transaction
  <2> QED
    BY <2>1 DEF LockRow, MayLock, Transaction
<1>2. /\ \A u \in Txs : tx'[u] = IF u = t THEN z ELSE tx[u]
      /\ \A w \in Rows \cup {EventLock} : lock'[w] = IF w = x THEN t ELSE lock[w]
      /\ lock[x] = None /\ x # EventLock
  BY <1>1, RunConstants DEF LockRow, RunsInv, TypeOK, Rows
<1>3. \A u \in Txs : \A w \in Rows : lock'[w] = u =>
         tx'[u].phase # "idle" /\ w \notin tx'[u].todo /\ tx'[u].row \notin tx'[u].todo
  BY <1>1, <1>2 DEF LocksAgree
<1>4. \A u \in Txs : tx'[u].phase # "idle" =>
         /\ tx'[u].row \in Rows
         /\ tx'[u].row \notin tx'[u].todo => lock'[tx'[u].row] = u
         /\ tx'[u].row # RunRow => tx'[u].todo \subseteq {tx'[u].row}
  <2>1. ASSUME NEW u \in Txs, u # t, tx'[u].phase # "idle", tx'[u].row \notin tx'[u].todo
        PROVE  lock'[tx'[u].row] = u
    <3>1. tx'[u] = tx[u] /\ lock[tx[u].row] = u /\ tx[u].row \in Rows
      BY <1>2, <2>1 DEF LocksAgree
    <3>2. u # None
      BY RunConstants
    <3> QED
      BY <1>2, <3>1, <3>2
  <2> QED
    BY <1>1, <1>2, <2>1 DEF LocksAgree
<1>5. \A u \in Txs : lock'[EventLock] = u => tx'[u].phase = "commit"
  BY <1>1, <1>2 DEF LocksAgree
<1> QED
  BY <1>3, <1>4, <1>5 DEF LocksAgree

\* The advisory lock comes last.
LEMMA AppendRunEventAgrees ==
    ASSUME RunsInv, LocksAgree, NEW t \in Txs, AppendRunEvent(t), ~SequenceTaken(tx[t])
    PROVE  LocksAgree'
<1>1. PICK y \in Transaction, z \in Transaction :
         /\ y = tx[t] /\ tx' = [tx EXCEPT ![t] = z]
         /\ z.phase = "commit" /\ y.phase = "rows" /\ z.row = y.row /\ z.todo = y.todo
  <2>1. tx[t] \in Transaction /\ [tx[t] EXCEPT !.phase = "commit"] \in Transaction
    BY ZenonT(30) DEF RunsInv, TypeOK, Transaction
  <2> QED
    BY <2>1 DEF AppendRunEvent, Transaction
<1>2. /\ \A u \in Txs : tx'[u] = IF u = t THEN z ELSE tx[u]
      /\ \A w \in Rows : lock'[w] = lock[w]
      /\ lock'[EventLock] = t
  BY <1>1, RunConstants DEF AppendRunEvent, RunsInv, TypeOK, Rows
<1> QED
  BY <1>1, <1>2 DEF LocksAgree

LEMMA LocksAgreeStep == RunsInv /\ LocksAgree /\ [Next]_vars => LocksAgree'
<1> SUFFICES ASSUME RunsInv, LocksAgree, [Next]_vars PROVE LocksAgree'
  OBVIOUS
<1>1. ASSUME NEW t \in Txs, NEW x \in Rows, LockRow(t, x) PROVE LocksAgree'
  BY <1>1, LockRowAgrees, AbortAgrees DEF LockRow, Abort, Ended
<1>2. ASSUME NEW t \in Txs, AppendRunEvent(t) PROVE LocksAgree'
  BY <1>2, AppendRunEventAgrees, AbortAgrees DEF AppendRunEvent, Abort, Ended
<1>3. ASSUME NEW t \in Txs, Commit(t) \/ Rollback(t) PROVE LocksAgree'
  BY <1>3, AbortAgrees DEF Commit, Rollback, Abort, Ended
<1>4. CASE UNCHANGED vars
  BY <1>4 DEF vars, LocksAgree
<1> QED
  BY <1>1, <1>2, <1>3, <1>4, BeginAgrees DEF Next

\* Among transactions there is always one that none of them makes wait: one that is about to commit,
\* else one that has its rows, else a cascade that has the row of the run, else any.
LEMMA SomeoneGoesOn ==
    ASSUME TypeOK, LocksAgree, NEW S \in SUBSET Txs, S # {}
    PROVE  \E t \in S : \A u \in S : ~WaitsFor(t, u)
<1>1. CASE \E t \in S : tx[t].phase # "rows"
  BY <1>1 DEF WaitsFor
<1>2. CASE /\ \A t \in S : tx[t].phase = "rows"
           /\ \E t \in S : tx[t].todo = {}
  BY <1>2 DEF WaitsFor, MayLock, LocksAgree
<1>3. CASE /\ \A t \in S : tx[t].phase = "rows" /\ tx[t].todo # {}
           /\ \E t \in S : tx[t].row \notin tx[t].todo
  <2>1. \A t \in S : tx[t].row \notin tx[t].todo => tx[t].row = RunRow /\ lock[RunRow] = t
    BY <1>3 DEF LocksAgree
  <2>2. PICK t \in S : tx[t].row \notin tx[t].todo
    BY <1>3
  <2>3. ASSUME NEW u \in S, NEW x \in Rows, x \in tx[t].todo, lock[x] = u PROVE FALSE
    <3>1. x \notin tx[u].todo /\ tx[u].row \notin tx[u].todo
      BY <2>3 DEF LocksAgree
    <3>2. u = t
      BY <2>1, <2>2, <3>1
    <3> QED
      BY <2>3, <3>1, <3>2
  <2>4. \A u \in S : ~WaitsFor(t, u)
    BY <1>3, <2>3 DEF WaitsFor, MayLock
  <2> QED
    BY <2>4
<1>4. CASE \A t \in S : tx[t].phase = "rows" /\ tx[t].todo # {} /\ tx[t].row \in tx[t].todo
  BY <1>4 DEF WaitsFor, LocksAgree
<1> QED
  BY <1>1, <1>2, <1>3, <1>4

\* However many transitions of a run are open, and in whatever order the cascade of a cancellation
\* updates the steps, there is no deadlock for PostgreSQL to break.
THEOREM TransitionsNeverDeadlock == Spec => []NoRingOfWaiters
<1>1. Init => LocksAgree
  BY RunConstants DEF Init, LocksAgree, Idle
<1>2. RunsInv /\ LocksAgree => NoRingOfWaiters
  BY SomeoneGoesOn DEF NoRingOfWaiters, RunsInv
<1>3. QED
  BY <1>1, <1>2, LocksAgreeStep, RunsInvariant, PTL DEF Spec
=============================================================================
