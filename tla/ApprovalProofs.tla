---------------------------- MODULE ApprovalProofs ----------------------------
(***************************************************************************)
(* Proofs about ApprovalKernel, for every number of requests, people and   *)
(* sessions and every quorum.                                              *)
(***************************************************************************)
EXTENDS ApprovalKernel, FiniteSetTheorems, TLAPS

\* The conjuncts of the invariant that speak of committed rows only.
TablesInv == ProjectionAgreesWithHistory /\ RowsAgree /\ BindingsAreExclusive

\* A step that commits nothing keeps what is said of the committed rows.
LEMMA TablesUntouched ==
    ASSUME TablesInv, UNCHANGED <<request, validity, decisions>>
    PROVE  TablesInv'
<1>1. ProjectionAgreesWithHistory'
  BY DEF TablesInv, ProjectionAgreesWithHistory, Approvals
<1>2. RowsAgree'
  BY DEF TablesInv, RowsAgree, Approvals, Voters
<1>3. BindingsAreExclusive'
  BY DEF TablesInv, BindingsAreExclusive
<1>4. QED
  BY <1>1, <1>2, <1>3 DEF TablesInv

\* The initial tables and sessions satisfy the invariant.
LEMMA KernelInvInit == Init => KernelInv
<1> SUFFICES ASSUME Init PROVE KernelInv
  OBVIOUS
<1> USE KernelConstants DEF Init
<1>1. TypeOK
  BY DEF TypeOK, RequestRow, ValidityRow, Transaction, NoRequest, NoValidity, Idle, Statuses,
         States, Steps, Ops, DECISION_VALUES
<1>2. TxShape
  BY DEF TxShape, ShapeOf, Idle
<1>3. LocksAgree
  BY DEF LocksAgree, Idle
<1>4. ReadsAreExactOrStale
  BY DEF ReadsAreExactOrStale, ExactOrStale, Idle
<1>5. \A r \in Requests : decisions[r] = {} /\ Approvals(r) = {} /\ Voters(r) = {}
  BY DEF Approvals, Voters
<1>6. ProjectionAgreesWithHistory
  <2>1. \A r \in Requests : {d.sequence : d \in decisions[r]} = 1..Cardinality(decisions[r])
    BY <1>5, FS_EmptySet
  <2>2. QED
    BY <1>5, <2>1, FS_EmptySet DEF ProjectionAgreesWithHistory, NoRequest, NoValidity
<1>7. RowsAgree
  BY <1>5, FS_EmptySet DEF RowsAgree, NoRequest, NoValidity, Ready
<1>8. BindingsAreExclusive
  BY DEF BindingsAreExclusive, NoRequest, Ready
<1>9. QED
  BY <1>1, <1>2, <1>3, <1>4, <1>6, <1>7, <1>8 DEF KernelInv

\* A session that holds no lock may forget everything.
LEMMA IdleOK == Idle \in Transaction /\ ShapeOf(Idle) /\ ExactOrStale(Idle) /\ Idle.step # "locked"
BY KernelConstants
   DEF Transaction, Idle, Steps, Ops, States, DECISION_VALUES, ShapeOf, ExactOrStale

\* A statement that only reads: session t remembers y, no row and no lock changes.
LEMMA OnlyTxMoves ==
    ASSUME KernelInv, NEW t \in Txs, NEW y \in Transaction,
           tx' = [tx EXCEPT ![t] = y], UNCHANGED <<request, validity, decisions, active, overdue, rowLock>>,
           tx[t].step # "locked", y.step # "locked", ShapeOf(y), ExactOrStale(y)
    PROVE  KernelInv'
<1> USE DEF KernelInv
<1>0. tx \in [Txs -> Transaction]
  BY DEF TypeOK
<1>1. TypeOK'
  BY <1>0 DEF TypeOK
<1>2. TxShape'
  BY <1>0 DEF TxShape, ShapeOf
<1>3. LocksAgree'
  BY <1>0, KernelConstants DEF LocksAgree, CasMatches, TypeOK
<1>4. ReadsAreExactOrStale'
  <2> SUFFICES ASSUME NEW u \in Txs PROVE ExactOrStale(tx[u])'
    BY DEF ReadsAreExactOrStale
  <2>1. tx'[u] = IF u = t THEN y ELSE tx[u]
    BY <1>0
  <2>2. ExactOrStale(tx[u])
    BY DEF ReadsAreExactOrStale
  <2>3. QED
    BY <2>1, <2>2 DEF ExactOrStale
<1>5. QED
  BY <1>1, <1>2, <1>3, <1>4, TablesUntouched DEF TablesInv

\* DecideBegin reads the clock and the role; it changes no row.
LEMMA DecideBeginInv ==
    ASSUME KernelInv, NEW t \in Txs, NEW r \in Requests, NEW a \in Assignments,
           NEW d \in DECISION_VALUES, DecideBegin(t, r, a, d)
    PROVE  KernelInv'
<1> DEFINE y == [Idle EXCEPT !.step = "resolved", !.op = "decide", !.on = r, !.actor = a,
                             !.decision = d, !.late = overdue \cap {r}]
<1>1. y \in Transaction
  BY KernelConstants DEF Transaction, Idle, Steps, Ops, States
<1>2. ShapeOf(y) /\ ExactOrStale(y) /\ y.step # "locked"
  BY DEF ShapeOf, ExactOrStale, Idle
<1>3. QED
  BY <1>1, <1>2, OnlyTxMoves DEF DecideBegin

\* DecideReadRequest copies the revision of the row it reads, so the copy is not ahead of it.
LEMMA DecideReadRequestInv ==
    ASSUME KernelInv, NEW t \in Txs, DecideReadRequest(t)
    PROVE  KernelInv'
<1> DEFINE x == tx[t]
           row == request[x.on]
           y == [x EXCEPT !.step = "checked", !.revision = row.revision]
<1>0. /\ x \in Transaction /\ x.on \in Requests /\ x.op = "decide" /\ x.actor \in Assignments
      /\ x.step = "resolved" /\ row \in RequestRow
  BY DEF KernelInv, TypeOK, TxShape, ShapeOf, DecideReadRequest
<1>1. CASE MayDecide(x, row)
  <2>1. y \in Transaction
    BY <1>0 DEF Transaction, Steps, RequestRow
  <2>2. ShapeOf(y) /\ ExactOrStale(y) /\ y.step # "locked"
    BY <1>0, <1>1 DEF ShapeOf, ExactOrStale, Transaction, RequestRow, MayDecide, Ready
  <2>3. QED
    BY <1>0, <1>1, <2>1, <2>2, OnlyTxMoves DEF DecideReadRequest
<1>2. CASE ~ MayDecide(x, row)
  BY <1>0, <1>2, IdleOK, OnlyTxMoves DEF DecideReadRequest
<1>3. QED
  BY <1>1, <1>2

\* DecideReadValidity copies the counters of the row; they are exact if its revision is still the one read.
LEMMA DecideReadValidityInv ==
    ASSUME KernelInv, NEW t \in Txs, DecideReadValidity(t)
    PROVE  KernelInv'
<1> DEFINE x == tx[t]
           v == validity[x.on]
           fresh == \A d \in decisions[x.on] : d.actor # x.actor
           y == [x EXCEPT !.step = "read", !.satisfiedQuorum = v.satisfiedQuorum,
                          !.lastDecisionSequence = v.lastDecisionSequence]
<1>0. /\ x \in Transaction /\ x.on \in Requests /\ x.op = "decide" /\ x.actor \in Assignments
      /\ x.step = "checked" /\ v \in ValidityRow /\ ExactOrStale(x)
  BY DEF KernelInv, TypeOK, TxShape, ShapeOf, ReadsAreExactOrStale, DecideReadValidity
<1>1. CASE fresh
  <2>1. y \in Transaction
    BY <1>0 DEF Transaction, Steps, ValidityRow
  <2>2. ShapeOf(y) /\ ExactOrStale(y) /\ y.step # "locked"
    BY <1>0 DEF ShapeOf, ExactOrStale, Transaction, ValidityRow
  <2>3. QED
    BY <1>0, <1>1, <2>1, <2>2, OnlyTxMoves DEF DecideReadValidity
<1>2. CASE ~ fresh
  BY <1>0, <1>2, IdleOK, OnlyTxMoves DEF DecideReadValidity
<1>3. QED
  BY <1>1, <1>2

\* The SELECT of cancel and expire copies the revision; it changes no row.
LEMMA CloseReadInv ==
    ASSUME KernelInv, NEW t \in Txs, NEW r \in Requests, NEW op \in {"cancelled", "expired"},
           CloseRead(t, r, op)
    PROVE  KernelInv'
<1> DEFINE y == [Idle EXCEPT !.step = "read", !.op = op, !.on = r, !.revision = request[r].revision]
<1>0. request[r] \in RequestRow /\ request[r].status = Ready /\ tx[t].step = "idle"
  BY DEF KernelInv, TypeOK, CloseRead
<1>1. y \in Transaction
  BY <1>0, KernelConstants DEF Transaction, Idle, Steps, Ops, States, RequestRow, DECISION_VALUES
<1>2. ShapeOf(y) /\ ExactOrStale(y) /\ y.step # "locked"
  BY <1>0 DEF ShapeOf, ExactOrStale, Idle, RequestRow, Ready
<1>3. QED
  BY <1>0, <1>1, <1>2, OnlyTxMoves DEF CloseRead

\* The SELECT of markValidityStale and revokeValidity changes no row.
LEMMA ProjectionReadInv ==
    ASSUME KernelInv, NEW t \in Txs, NEW r \in Requests, NEW op \in {"stale", "revoked"},
           ProjectionRead(t, r, op)
    PROVE  KernelInv'
<1> DEFINE y == [Idle EXCEPT !.step = "projection", !.op = op, !.on = r, !.state = validity[r].state]
<1>0. validity[r] \in ValidityRow /\ tx[t].step = "idle"
  BY DEF KernelInv, TypeOK, ProjectionRead
<1>1. y \in Transaction
  BY <1>0, KernelConstants DEF Transaction, Idle, Steps, Ops, ValidityRow, DECISION_VALUES
<1>2. ShapeOf(y) /\ ExactOrStale(y) /\ y.step # "locked"
  BY <1>0 DEF ShapeOf, ExactOrStale, Idle
<1>3. QED
  BY <1>0, <1>1, <1>2, OnlyTxMoves DEF ProjectionRead

\* Taking the row lock: the CAS matched, or the transaction is over.
LEMMA CasRequestInv ==
    ASSUME KernelInv, NEW t \in Txs, CasRequest(t)
    PROVE  KernelInv'
<1> DEFINE x == tx[t]
           r == x.on
           y == [x EXCEPT !.step = "locked"]
<1>0. /\ tx \in [Txs -> Transaction] /\ x \in Transaction /\ r \in Requests /\ x.step = "read"
      /\ ShapeOf(x) /\ ExactOrStale(x) /\ rowLock[r] = Nobody
      /\ rowLock \in [Requests -> Txs \cup {Nobody}]
  BY DEF KernelInv, TypeOK, TxShape, ShapeOf, ReadsAreExactOrStale, CasRequest
<1>1. CASE ~ CasMatches(x, request[r])
  BY <1>0, <1>1, IdleOK, OnlyTxMoves DEF CasRequest
<1>2. CASE CasMatches(x, request[r])
  <2>1. /\ tx' = [tx EXCEPT ![t] = y] /\ rowLock' = [rowLock EXCEPT ![r] = t]
        /\ UNCHANGED <<request, validity, decisions, active, overdue>>
    BY <1>2 DEF CasRequest
  <2>2. y \in Transaction /\ y.on = r /\ y.step = "locked" /\ y.revision = x.revision
    BY <1>0 DEF Transaction, Steps
  <2>3. ShapeOf(y) /\ ExactOrStale(y)
    BY <1>0 DEF ShapeOf, ExactOrStale, Transaction
  <2>4. TypeOK'
    BY <1>0, <2>1, <2>2 DEF KernelInv, TypeOK
  <2>5. TxShape'
    BY <1>0, <2>1, <2>3 DEF KernelInv, TxShape, ShapeOf
  <2>6. LocksAgree'
    BY <1>0, <1>2, <2>1, <2>2, KernelConstants DEF KernelInv, LocksAgree, CasMatches
  <2>7. ReadsAreExactOrStale'
    <3> SUFFICES ASSUME NEW u \in Txs PROVE ExactOrStale(tx[u])'
      BY DEF ReadsAreExactOrStale
    <3>1. tx'[u] = IF u = t THEN y ELSE tx[u]
      BY <1>0, <2>1
    <3>2. ExactOrStale(tx[u])
      BY DEF KernelInv, ReadsAreExactOrStale
    <3>3. QED
      BY <2>1, <2>3, <3>1, <3>2 DEF ExactOrStale
  <2>8. QED
    BY <2>1, <2>4, <2>5, <2>6, <2>7, TablesUntouched DEF KernelInv, TablesInv
<1>3. QED
  BY <1>1, <1>2

\* An abort releases the lock of its session and nothing else.
LEMMA RollbackInv ==
    ASSUME KernelInv, NEW t \in Txs, Rollback(t)
    PROVE  KernelInv'
<1>0. tx \in [Txs -> Transaction] /\ rowLock \in [Requests -> Txs \cup {Nobody}]
  BY DEF KernelInv, TypeOK
<1>1. TypeOK'
  BY <1>0, IdleOK DEF KernelInv, TypeOK, Rollback
<1>2. TxShape'
  BY <1>0, IdleOK DEF KernelInv, TxShape, ShapeOf, Rollback
<1>3. LocksAgree'
  <2>1. ASSUME NEW u \in Txs, tx'[u].step = "locked"
        PROVE  rowLock'[tx'[u].on] = u /\ CasMatches(tx'[u], request'[tx'[u].on])
    <3>1. u # t /\ tx'[u] = tx[u]
      BY <1>0, <2>1, IdleOK DEF Rollback
    <3>2. tx[u].on \in Requests
      BY <2>1, <3>1 DEF KernelInv, TxShape, ShapeOf
    <3>3. QED
      BY <1>0, <2>1, <3>1, <3>2, KernelConstants DEF KernelInv, LocksAgree, Rollback
  <2>2. ASSUME NEW r \in Requests, rowLock'[r] # Nobody
        PROVE  tx'[rowLock'[r]].step = "locked" /\ tx'[rowLock'[r]].on = r
    BY <1>0, <2>2, KernelConstants DEF KernelInv, LocksAgree, Rollback
  <2>3. QED
    BY <2>1, <2>2 DEF LocksAgree, CasMatches
<1>4. ReadsAreExactOrStale'
  <2> SUFFICES ASSUME NEW u \in Txs PROVE ExactOrStale(tx[u])'
    BY DEF ReadsAreExactOrStale
  <2>1. tx'[u] = IF u = t THEN Idle ELSE tx[u]
    BY <1>0 DEF Rollback
  <2>2. ExactOrStale(tx[u])
    BY DEF KernelInv, ReadsAreExactOrStale
  <2>3. QED
    BY <2>1, <2>2, IdleOK DEF ExactOrStale, Rollback
<1>5. QED
  BY <1>1, <1>2, <1>3, <1>4, TablesUntouched DEF KernelInv, TablesInv, Rollback

\* The sessions after a commit under the row lock: the other sessions that read the row are now
\* behind it, and none of them holds its lock.
LEMMA CommitSessions ==
    ASSUME KernelInv, NEW t \in Txs, tx[t].step = "locked",
           NEW row \in RequestRow, NEW val \in ValidityRow,
           request' = [request EXCEPT ![tx[t].on] = row],
           validity' = [validity EXCEPT ![tx[t].on] = val],
           rowLock' = [rowLock EXCEPT ![tx[t].on] = Nobody],
           tx' = [tx EXCEPT ![t] = Idle],
           row.status # "absent", row.revision = request[tx[t].on].revision + 1,
           row.requestedBy = request[tx[t].on].requestedBy
    PROVE  TxShape' /\ LocksAgree' /\ ReadsAreExactOrStale'
<1> DEFINE r == tx[t].on
<1>0. /\ tx \in [Txs -> Transaction] /\ rowLock \in [Requests -> Txs \cup {Nobody}]
      /\ request \in [Requests -> RequestRow] /\ validity \in [Requests -> ValidityRow]
      /\ r \in Requests /\ rowLock[r] = t
  BY DEF KernelInv, TypeOK, TxShape, ShapeOf, LocksAgree
<1>1. TxShape'
  BY <1>0, IdleOK DEF KernelInv, TxShape, ShapeOf
<1>2. LocksAgree'
  <2>1. ASSUME NEW u \in Txs, tx'[u].step = "locked"
        PROVE  rowLock'[tx'[u].on] = u /\ CasMatches(tx'[u], request'[tx'[u].on])
    <3>1. u # t /\ tx'[u] = tx[u]
      BY <1>0, <2>1, IdleOK
    <3>2. tx[u].on \in Requests /\ rowLock[tx[u].on] = u /\ CasMatches(tx[u], request[tx[u].on])
      BY <2>1, <3>1 DEF KernelInv, TxShape, ShapeOf, LocksAgree
    <3>3. tx[u].on # r
      BY <1>0, <3>1, <3>2
    <3>4. QED
      BY <1>0, <3>1, <3>2, <3>3 DEF CasMatches
  <2>2. ASSUME NEW s \in Requests, rowLock'[s] # Nobody
        PROVE  tx'[rowLock'[s]].step = "locked" /\ tx'[rowLock'[s]].on = s
    <3>1. s # r /\ rowLock'[s] = rowLock[s]
      BY <1>0, <2>2
    <3>2. tx[rowLock[s]].step = "locked" /\ tx[rowLock[s]].on = s /\ rowLock[s] \in Txs
      BY <1>0, <2>2, <3>1 DEF KernelInv, LocksAgree
    <3>3. rowLock[s] # t
      BY <3>1, <3>2
    <3>4. QED
      BY <1>0, <3>1, <3>2, <3>3
  <2>3. QED
    BY <2>1, <2>2 DEF LocksAgree, CasMatches
<1>3. ReadsAreExactOrStale'
  <2> SUFFICES ASSUME NEW u \in Txs PROVE ExactOrStale(tx[u])'
    BY DEF ReadsAreExactOrStale
  <2>1. tx'[u] = IF u = t THEN Idle ELSE tx[u]
    BY <1>0
  <2>2. ExactOrStale(tx[u]) /\ ShapeOf(tx[u]) /\ tx[u] \in Transaction
    BY <1>0 DEF KernelInv, ReadsAreExactOrStale, TxShape
  <2>3. request[r] \in RequestRow /\ request[r].revision \in Nat
    BY <1>0 DEF RequestRow
  <2>4. CASE u = t
    BY <2>1, <2>4 DEF ExactOrStale, Idle
  <2>5. CASE u # t /\ tx[u].on = r
    BY <1>0, <2>1, <2>2, <2>3, <2>5 DEF ExactOrStale, Transaction
  <2>6. CASE u # t /\ tx[u].on # r
    BY <1>0, <2>1, <2>2, <2>6 DEF ExactOrStale, ShapeOf
  <2>7. QED
    BY <2>4, <2>5, <2>6
<1>4. QED
  BY <1>1, <1>2, <1>3

\* What appending one decision by a new voter does to the history of its request.
LEMMA OneMoreDecision ==
    ASSUME TablesInv, NEW r \in Requests, NEW d, d.decision \in DECISION_VALUES,
           DOMAIN decisions = Requests,
           d.sequence = Cardinality(decisions[r]) + 1,
           \A e \in decisions[r] : e.sequence # d.sequence /\ e.actor # d.actor,
           decisions' = [decisions EXCEPT ![r] = @ \cup {d}]
    PROVE  /\ IsFiniteSet(decisions'[r]) /\ IsFiniteSet(Voters(r)')
           /\ Cardinality(decisions'[r]) = Cardinality(decisions[r]) + 1
           /\ {e.sequence : e \in decisions'[r]} = 1..Cardinality(decisions'[r])
           /\ Approvals(r)' = IF d.decision = "approve" THEN Approvals(r) \cup {d} ELSE Approvals(r)
           /\ Voters(r)' = IF d.decision = "approve" THEN Voters(r) \cup {d.actor} ELSE Voters(r)
           /\ Cardinality(Approvals(r)') =
                 IF d.decision = "approve" THEN Cardinality(Approvals(r)) + 1
                                           ELSE Cardinality(Approvals(r))
           /\ Cardinality(Voters(r)') = Cardinality(Approvals(r)')
           /\ Cardinality(decisions[r]) \in Nat /\ Cardinality(Approvals(r)) \in Nat
<1>0. /\ IsFiniteSet(decisions[r]) /\ IsFiniteSet(Voters(r))
      /\ Cardinality(Voters(r)) = Cardinality(Approvals(r))
      /\ {e.sequence : e \in decisions[r]} = 1..Cardinality(decisions[r])
  BY DEF TablesInv, RowsAgree, ProjectionAgreesWithHistory
<1>1. d \notin decisions[r] /\ d.actor \notin Voters(r)
  BY DEF Voters, Approvals
<1>2. decisions'[r] = decisions[r] \cup {d}
  OBVIOUS
<1>3. IsFiniteSet(decisions'[r]) /\ Cardinality(decisions'[r]) = Cardinality(decisions[r]) + 1
  BY <1>0, <1>1, <1>2, FS_AddElement
<1>4. Cardinality(decisions[r]) \in Nat
  BY <1>0, FS_CardinalityType
<1>5. {e.sequence : e \in decisions'[r]} = 1..Cardinality(decisions'[r])
  <2>1. {e.sequence : e \in decisions'[r]} = {e.sequence : e \in decisions[r]} \cup {d.sequence}
    BY <1>2
  <2>2. 1..(Cardinality(decisions[r]) + 1)
          = (1..Cardinality(decisions[r])) \cup {Cardinality(decisions[r]) + 1}
    BY <1>4
  <2>3. QED
    BY <1>0, <1>3, <2>1, <2>2
<1>6. Approvals(r)' = IF d.decision = "approve" THEN Approvals(r) \cup {d} ELSE Approvals(r)
  BY <1>2 DEF Approvals
<1>7. Voters(r)' = IF d.decision = "approve" THEN Voters(r) \cup {d.actor} ELSE Voters(r)
  BY <1>6 DEF Voters
<1>8. IsFiniteSet(Approvals(r)) /\ Cardinality(Approvals(r)) \in Nat /\ d \notin Approvals(r)
  BY <1>0, <1>1, FS_Subset, FS_CardinalityType DEF Approvals
<1>9. Cardinality(Approvals(r)') = IF d.decision = "approve" THEN Cardinality(Approvals(r)) + 1
                                                          ELSE Cardinality(Approvals(r))
  BY <1>6, <1>8, FS_AddElement
<1>10. /\ IsFiniteSet(Voters(r)')
       /\ Cardinality(Voters(r)') = IF d.decision = "approve" THEN Cardinality(Voters(r)) + 1
                                                             ELSE Cardinality(Voters(r))
  BY <1>0, <1>1, <1>7, FS_AddElement
<1>11. Cardinality(Voters(r)') = Cardinality(Approvals(r)')
  BY <1>0, <1>9, <1>10
<1>12. IsFiniteSet(Voters(r)')
  BY <1>10
<1>13. QED
  BY <1>3, <1>4, <1>5, <1>6, <1>7, <1>8, <1>9, <1>11, <1>12

\* What CAS, lock and guards have established when a decision commits.
LEMMA DecideCommitFacts ==
    ASSUME KernelInv, NEW t \in Txs, DecideCommit(t)
    PROVE  /\ tx[t] \in Transaction /\ tx[t].on \in Requests /\ tx[t].actor \in Assignments
           /\ request[tx[t].on] \in RequestRow /\ validity[tx[t].on] \in ValidityRow
           /\ request[tx[t].on].status = Ready /\ request[tx[t].on].revision = tx[t].revision
           /\ tx[t].actor # request[tx[t].on].requestedBy
           /\ tx[t].satisfiedQuorum = Cardinality(Approvals(tx[t].on))
           /\ tx[t].lastDecisionSequence = Cardinality(decisions[tx[t].on])
           /\ DecidedRequest(tx[t]) \in RequestRow /\ DecidedValidity(tx[t]) \in ValidityRow
           /\ Decision(tx[t]) \in DecisionRow
<1> DEFINE x == tx[t]
           r == x.on
<1>1. /\ x \in Transaction /\ r \in Requests /\ x.actor \in Assignments /\ x.step = "locked"
      /\ x.op = "decide" /\ request[r] \in RequestRow /\ validity[r] \in ValidityRow
  BY DEF KernelInv, TypeOK, TxShape, ShapeOf, DecideCommit
<1>2. request[r].status = Ready /\ request[r].revision = x.revision
  BY <1>1 DEF KernelInv, LocksAgree, CasMatches
<1>3. ExactOrStale(x) /\ x.actor # request[r].requestedBy
  BY <1>1 DEF KernelInv, ReadsAreExactOrStale, ExactOrStale
<1>4. /\ x.satisfiedQuorum = validity[r].satisfiedQuorum
      /\ x.lastDecisionSequence = validity[r].lastDecisionSequence
  BY <1>1, <1>2, <1>3 DEF ExactOrStale
<1>5. /\ x.satisfiedQuorum = Cardinality(Approvals(r))
      /\ x.lastDecisionSequence = Cardinality(decisions[r])
  BY <1>1, <1>4 DEF KernelInv, ProjectionAgreesWithHistory
<1>6. /\ x.revision \in Nat /\ x.satisfiedQuorum \in Nat /\ x.lastDecisionSequence \in Nat
      /\ x.decision \in DECISION_VALUES
  BY <1>1 DEF Transaction
<1>7. DecidedStatus(x, request[r].requiredQuorum) \in Statuses
  BY DEF DecidedStatus, Statuses, TERMINAL_REQUEST_STATUSES
<1>8. DecidedRequest(x) \in RequestRow
  <2> DEFINE row == request[r]
             status == DecidedStatus(x, row.requiredQuorum)
  <2>1. row \in RequestRow /\ status \in Statuses /\ x.revision + 1 \in Nat
    BY <1>1, <1>6, <1>7
  <2>2. DecidedRequest(x) = [row EXCEPT !.status = status, !.revision = x.revision + 1]
    BY DEF DecidedRequest
  <2> HIDE DEF row, status
  <2>3. QED
    BY <2>1, <2>2 DEF RequestRow
<1>9. DecidedValidity(x) \in ValidityRow
  BY <1>6 DEF DecidedValidity, DecidedState, DecidedQuorum, ValidityRow, States
<1>10. Decision(x) \in DecisionRow
  BY <1>1, <1>6 DEF Decision, DecisionRow
<1>11. QED
  BY <1>1, <1>2, <1>3, <1>5, <1>8, <1>9, <1>10

\* Committed rows other than r keep what is said of them when only r's row moves and r, if it is
\* still open, keeps its binding.
LEMMA OtherRows ==
    ASSUME KernelInv, NEW r \in Requests, NEW row \in RequestRow, NEW val \in ValidityRow,
           NEW rows \in SUBSET DecisionRow,
           request' = [request EXCEPT ![r] = row],
           validity' = [validity EXCEPT ![r] = val],
           decisions' = [decisions EXCEPT ![r] = rows],
           NEW s \in Requests, s # r
    PROVE  /\ request'[s] = request[s] /\ validity'[s] = validity[s] /\ decisions'[s] = decisions[s]
           /\ Approvals(s)' = Approvals(s) /\ Voters(s)' = Voters(s)
BY DEF KernelInv, TypeOK, Approvals, Voters

\* The row of the projection and the row of the request, one request at a time.
HistoryOf(r) ==
    /\ validity[r].requestRevision = request[r].revision
    /\ validity[r].satisfiedQuorum = Cardinality(Approvals(r))
    /\ validity[r].lastDecisionSequence = Cardinality(decisions[r])
    /\ {d.sequence : d \in decisions[r]} = 1..Cardinality(decisions[r])
RowOf(r) ==
    /\ IsFiniteSet(decisions[r]) /\ IsFiniteSet(Voters(r))
    /\ Cardinality(Voters(r)) = Cardinality(Approvals(r))
    /\ \A d \in decisions[r] : d.actor # request[r].requestedBy
    /\ request[r].status = "absent" =>
          request[r] = NoRequest /\ validity[r] = NoValidity /\ decisions[r] = {}
    /\ request[r].status # "absent" =>
          /\ request[r].requiredQuorum >= 1 /\ request[r].requestedBy \in Assignments
          /\ validity[r].state # "absent"
    /\ request[r].status = Ready =>
          /\ Approvals(r) = decisions[r]
          /\ Cardinality(decisions[r]) < request[r].requiredQuorum
          /\ validity[r].state \in {"pending", "stale"}
    /\ request[r].status = "approved" =>
          /\ Approvals(r) = decisions[r]
          /\ Cardinality(decisions[r]) = request[r].requiredQuorum
    /\ validity[r].state = "pending" => request[r].status = Ready
    /\ validity[r].state = "valid" => request[r].status = "approved"

\* A commit that changes the rows of one request, not opening it, keeps the tables' invariant if
\* the new rows agree with each other.
LEMMA OneRowCommit ==
    ASSUME KernelInv, NEW r \in Requests, NEW row \in RequestRow, NEW val \in ValidityRow,
           NEW rows \in SUBSET DecisionRow,
           request' = [request EXCEPT ![r] = row],
           validity' = [validity EXCEPT ![r] = val],
           decisions' = [decisions EXCEPT ![r] = rows],
           row.status = Ready => request[r].status = Ready /\ row.binding = request[r].binding,
           HistoryOf(r)', RowOf(r)'
    PROVE  TablesInv'
<1>1. /\ request \in [Requests -> RequestRow] /\ validity \in [Requests -> ValidityRow]
      /\ decisions \in [Requests -> SUBSET DecisionRow]
  BY DEF KernelInv, TypeOK
<1>2. ASSUME NEW s \in Requests PROVE HistoryOf(s)' /\ RowOf(s)'
  <2>1. CASE s = r
    BY <2>1
  <2>2. CASE s # r
    <3>1. HistoryOf(s) /\ RowOf(s)
      BY DEF KernelInv, ProjectionAgreesWithHistory, RowsAgree, HistoryOf, RowOf
    <3>2. /\ request'[s] = request[s] /\ validity'[s] = validity[s] /\ decisions'[s] = decisions[s]
          /\ Approvals(s)' = Approvals(s) /\ Voters(s)' = Voters(s)
      BY <2>2, OtherRows
    <3>3. HistoryOf(s)'
      BY <3>1, <3>2 DEF HistoryOf
    <3>4. RowOf(s)'
      BY <3>1, <3>2 DEF RowOf
    <3>5. QED
      BY <3>3, <3>4
  <2>3. QED
    BY <2>1, <2>2
<1>3. ProjectionAgreesWithHistory'
  BY <1>2 DEF ProjectionAgreesWithHistory, HistoryOf
<1>4. RowsAgree'
  BY <1>2 DEF RowsAgree, RowOf
<1>5. BindingsAreExclusive'
  BY <1>1 DEF KernelInv, BindingsAreExclusive
<1>6. QED
  BY <1>3, <1>4, <1>5 DEF TablesInv

\* A committed decision preserves the invariant: its counters were exact because the CAS matched.
LEMMA DecideCommitInv ==
    ASSUME KernelInv, NEW t \in Txs, DecideCommit(t)
    PROVE  KernelInv'
<1>x. PICK x : x = tx[t]
  OBVIOUS
<1>r. PICK r : r = x.on
  OBVIOUS
<1>w. PICK row, val, d : row = DecidedRequest(x) /\ val = DecidedValidity(x) /\ d = Decision(x)
  OBVIOUS
<1>n. PICK q, n : q = request[r].requiredQuorum /\ n = Cardinality(decisions[r])
  OBVIOUS
<1>1. /\ x \in Transaction /\ r \in Requests /\ x.actor \in Assignments
      /\ request[r] \in RequestRow /\ validity[r] \in ValidityRow
      /\ request[r].status = Ready /\ request[r].revision = x.revision
      /\ x.actor # request[r].requestedBy
      /\ x.satisfiedQuorum = Cardinality(Approvals(r)) /\ x.lastDecisionSequence = n
      /\ row \in RequestRow /\ val \in ValidityRow /\ d \in DecisionRow
  BY <1>x, <1>r, <1>w, <1>n, DecideCommitFacts
<1>2. /\ x.step = "locked" /\ DecisionAccepted(x)
      /\ request' = [request EXCEPT ![r] = row] /\ validity' = [validity EXCEPT ![r] = val]
      /\ decisions' = [decisions EXCEPT ![r] = @ \cup {d}]
      /\ rowLock' = [rowLock EXCEPT ![r] = Nobody] /\ tx' = [tx EXCEPT ![t] = Idle]
      /\ UNCHANGED <<active, overdue>>
  BY <1>x, <1>r, <1>w DEF DecideCommit
<1>3. /\ request \in [Requests -> RequestRow] /\ validity \in [Requests -> ValidityRow]
      /\ decisions \in [Requests -> SUBSET DecisionRow] /\ tx \in [Txs -> Transaction]
      /\ rowLock \in [Requests -> Txs \cup {Nobody}]
  BY DEF KernelInv, TypeOK
<1>4. /\ row.status = DecidedStatus(x, q) /\ row.revision = x.revision + 1
      /\ row.requiredQuorum = q /\ row.binding = request[r].binding
      /\ row.requestedBy = request[r].requestedBy
      /\ val.state = DecidedState(x, q) /\ val.requestRevision = x.revision + 1
      /\ val.satisfiedQuorum = DecidedQuorum(x) /\ val.lastDecisionSequence = n + 1
      /\ d.sequence = n + 1 /\ d.actor = x.actor /\ d.decision = x.decision
      /\ x.decision \in DECISION_VALUES
  BY <1>r, <1>w, <1>n, <1>1 DEF DecidedRequest, DecidedValidity, Decision, RequestRow, Transaction
<1>5. \A e \in decisions[r] : e.sequence # d.sequence /\ e.actor # d.actor
  BY <1>r, <1>w, <1>2 DEF DecisionAccepted, DecisionGuard
<1>6. TablesInv
  BY DEF KernelInv, TablesInv
<1>7. /\ IsFiniteSet(decisions'[r]) /\ IsFiniteSet(Voters(r)')
      /\ Cardinality(decisions'[r]) = n + 1
      /\ {e.sequence : e \in decisions'[r]} = 1..Cardinality(decisions'[r])
      /\ Approvals(r)' = IF d.decision = "approve" THEN Approvals(r) \cup {d} ELSE Approvals(r)
      /\ Cardinality(Approvals(r)') = IF d.decision = "approve" THEN Cardinality(Approvals(r)) + 1
                                                               ELSE Cardinality(Approvals(r))
      /\ Cardinality(Voters(r)') = Cardinality(Approvals(r)')
      /\ n \in Nat /\ Cardinality(Approvals(r)) \in Nat
  <2>1. /\ d.decision \in DECISION_VALUES /\ DOMAIN decisions = Requests
        /\ d.sequence = Cardinality(decisions[r]) + 1
        /\ decisions' = [decisions EXCEPT ![r] = @ \cup {d}]
    BY <1>n, <1>2, <1>3, <1>4
  <2>2. QED
    BY <1>n, <1>1, <1>5, <1>6, <2>1, OneMoreDecision
<1>8. /\ request'[r] = row /\ validity'[r] = val /\ decisions'[r] = decisions[r] \cup {d}
  BY <1>1, <1>2, <1>3
<1>9. PICK rows \in SUBSET DecisionRow : rows = decisions[r] \cup {d}
  BY <1>1, <1>3
<1>10. RowOf(r)
  BY <1>1 DEF KernelInv, RowsAgree, RowOf
<1>11. n < q /\ Approvals(r) = decisions[r] /\ q \in Nat /\ q >= 1
  BY <1>n, <1>1, <1>10 DEF RowOf, RequestRow, Ready
<1>12. HistoryOf(r)'
  <2>1. val.satisfiedQuorum = Cardinality(Approvals(r)')
    BY <1>1, <1>4, <1>7 DEF DecidedQuorum, DECISION_VALUES
  <2>2. QED
    BY <1>4, <1>7, <1>8, <2>1 DEF HistoryOf
<1>13. RowOf(r)'
  <2>1. \A e \in decisions'[r] : e.actor # request'[r].requestedBy
    BY <1>1, <1>4, <1>8, <1>10 DEF RowOf
  <2>2. row.status # "absent" /\ val.state # "absent"
    BY <1>4 DEF DecidedStatus, DecidedState, Ready
  <2>0. /\ x.decision \in {"approve", "reject"} /\ n \in Nat /\ q \in Nat
        /\ x.decision = "approve" => DecidedQuorum(x) = n + 1
        /\ Final(x, q) <=> DecidedQuorum(x) >= q
    BY <1>n, <1>1, <1>4, <1>7, <1>11 DEF DecidedQuorum, DECISION_VALUES, Final
  <2>3. row.status = Ready =>
           /\ x.decision = "approve" /\ n + 1 < q /\ val.state = "pending"
    BY <1>4, <2>0 DEF DecidedStatus, DecidedState, Ready
  <2>4. row.status = "approved" => x.decision = "approve" /\ n + 1 = q
    BY <1>4, <1>11, <2>0 DEF DecidedStatus, Ready
  <2>5. /\ val.state = "pending" => row.status = Ready
        /\ val.state = "valid" => row.status = "approved"
    BY <1>4 DEF DecidedStatus, DecidedState
  <2>6. x.decision = "approve" => Approvals(r)' = decisions'[r]
    BY <1>4, <1>7, <1>8, <1>11
  <2>7. request'[r].requestedBy \in Assignments /\ request'[r].requiredQuorum >= 1
    BY <1>1, <1>4, <1>8, <1>10, <1>11 DEF RowOf, Ready
  <2>8. QED
    BY <1>4, <1>7, <1>8, <2>1, <2>2, <2>3, <2>4, <2>5, <2>6, <2>7 DEF RowOf
<1>14. TablesInv'
  <2>1. decisions' = [decisions EXCEPT ![r] = rows]
    BY <1>2, <1>9
  <2>2. row.status = Ready => request[r].status = Ready /\ row.binding = request[r].binding
    BY <1>1, <1>4
  <2>3. QED
    BY <1>1, <1>2, <1>9, <1>12, <1>13, <2>1, <2>2, OneRowCommit
<1>15. TxShape' /\ LocksAgree' /\ ReadsAreExactOrStale'
  <2>1. row.status # "absent"
    BY <1>4 DEF DecidedStatus, Ready
  <2>0. tx[t].on = r /\ tx[t].step = "locked"
    BY <1>x, <1>r, <1>2
  <2>2. /\ request' = [request EXCEPT ![tx[t].on] = row]
        /\ validity' = [validity EXCEPT ![tx[t].on] = val]
        /\ rowLock' = [rowLock EXCEPT ![tx[t].on] = Nobody] /\ tx' = [tx EXCEPT ![t] = Idle]
    BY <2>0, <1>2
  <2>3. row.revision = request[tx[t].on].revision + 1 /\ row.requestedBy = request[tx[t].on].requestedBy
    BY <1>x, <1>r, <1>1, <1>4
  <2>4. QED
    BY <1>1, <2>0, <2>1, <2>2, <2>3, CommitSessions
<1>16. TypeOK'
  BY <1>1, <1>2, <1>3, <1>9, IdleOK DEF KernelInv, TypeOK
<1>17. QED
  BY <1>14, <1>15, <1>16 DEF KernelInv, TablesInv

\* Cancellation and expiry: the row ends and the projection with it, or the guard refuses.
LEMMA CloseCommitInv ==
    ASSUME KernelInv, NEW t \in Txs, CloseCommit(t)
    PROVE  KernelInv'
<1>x. PICK x : x = tx[t]
  OBVIOUS
<1>r. PICK r : r = x.on
  OBVIOUS
<1>w. PICK row, val : row = ClosedRequest(x) /\ val = ClosedValidity(x)
  OBVIOUS
<1>1. /\ request \in [Requests -> RequestRow] /\ validity \in [Requests -> ValidityRow]
      /\ decisions \in [Requests -> SUBSET DecisionRow] /\ tx \in [Txs -> Transaction]
      /\ rowLock \in [Requests -> Txs \cup {Nobody}]
  BY DEF KernelInv, TypeOK
<1>2. /\ x.step = "locked" /\ x.op \in {"cancelled", "expired"} /\ CloseAccepted(x)
      /\ request' = [request EXCEPT ![r] = row] /\ validity' = [validity EXCEPT ![r] = val]
      /\ rowLock' = [rowLock EXCEPT ![r] = Nobody] /\ tx' = [tx EXCEPT ![t] = Idle]
      /\ UNCHANGED <<decisions, active, overdue>>
  BY <1>x, <1>r, <1>w DEF CloseCommit
<1>3. /\ x \in Transaction /\ r \in Requests /\ request[r] \in RequestRow
      /\ validity[r] \in ValidityRow
      /\ request[r].status = Ready /\ request[r].revision = x.revision
  BY <1>x, <1>r, <1>1, <1>2 DEF KernelInv, TxShape, ShapeOf, LocksAgree, CasMatches
<1>4. /\ row \in RequestRow /\ row.status = x.op /\ row.revision = x.revision + 1
      /\ row.requiredQuorum = request[r].requiredQuorum
      /\ row.requestedBy = request[r].requestedBy
  <2>1. x.op \in Statuses /\ x.revision + 1 \in Nat
    BY <1>2, <1>3 DEF Transaction, Statuses, TERMINAL_REQUEST_STATUSES
  <2>2. row = [request[r] EXCEPT !.status = x.op, !.revision = x.revision + 1]
    BY <1>r, <1>w DEF ClosedRequest
  <2>3. QED
    BY <1>3, <2>1, <2>2 DEF RequestRow
<1>5. /\ val \in ValidityRow /\ val.state \in {"invalid", "expired"}
      /\ val.requestRevision = x.revision + 1
      /\ val.satisfiedQuorum = validity[r].satisfiedQuorum
      /\ val.lastDecisionSequence = validity[r].lastDecisionSequence
  <2>1. PICK state \in {"invalid", "expired"} :
           val = [validity[r] EXCEPT !.state = state, !.requestRevision = x.revision + 1]
    BY <1>r, <1>w DEF ClosedValidity
  <2>2. x.revision + 1 \in Nat /\ state \in States
    BY <1>3 DEF Transaction, States
  <2>3. QED
    BY <1>3, <2>1, <2>2 DEF ValidityRow
<1>6. /\ request'[r] = row /\ validity'[r] = val /\ decisions'[r] = decisions[r]
      /\ Approvals(r)' = Approvals(r) /\ Voters(r)' = Voters(r)
  BY <1>1, <1>2, <1>3 DEF Approvals, Voters
<1>7. HistoryOf(r) /\ RowOf(r)
  BY <1>3 DEF KernelInv, ProjectionAgreesWithHistory, RowsAgree, HistoryOf, RowOf
<1>8. HistoryOf(r)'
  BY <1>3, <1>4, <1>5, <1>6, <1>7 DEF HistoryOf
<1>9. row.status # "absent" /\ row.status # Ready /\ row.status # "approved"
  BY <1>2, <1>4 DEF Ready
<1>10. RowOf(r)'
  BY <1>3, <1>4, <1>5, <1>6, <1>7, <1>9 DEF RowOf, Ready
<1>11. TablesInv'
  <2>1. PICK rows \in SUBSET DecisionRow : rows = decisions[r]
    BY <1>1, <1>3
  <2>2. decisions' = [decisions EXCEPT ![r] = rows]
    BY <1>1, <1>2, <2>1
  <2>3. QED
    BY <1>2, <1>3, <1>4, <1>5, <1>8, <1>9, <1>10, <2>1, <2>2, OneRowCommit
<1>12. TxShape' /\ LocksAgree' /\ ReadsAreExactOrStale'
  <2>1. tx[t].step = "locked" /\ tx[t].on = r
    BY <1>x, <1>r, <1>2
  <2>2. row.revision = request[r].revision + 1
    BY <1>3, <1>4
  <2>3. QED
    BY <1>2, <1>4, <1>5, <1>9, <2>1, <2>2, CommitSessions
<1>13. TypeOK'
  BY <1>1, <1>2, <1>4, <1>5, IdleOK DEF KernelInv, TypeOK
<1>14. QED
  BY <1>11, <1>12, <1>13 DEF KernelInv, TablesInv

\* Staleness and revocation move the state of the projection and nothing else.
LEMMA ProjectionCasInv ==
    ASSUME KernelInv, NEW t \in Txs, ProjectionCas(t)
    PROVE  KernelInv'
<1>x. PICK x : x = tx[t]
  OBVIOUS
<1>r. PICK r : r = x.on
  OBVIOUS
<1>w. PICK val : val = [validity[r] EXCEPT !.state = x.op]
  OBVIOUS
<1>1. /\ request \in [Requests -> RequestRow] /\ validity \in [Requests -> ValidityRow]
      /\ decisions \in [Requests -> SUBSET DecisionRow] /\ tx \in [Txs -> Transaction]
      /\ rowLock \in [Requests -> Txs \cup {Nobody}]
  BY DEF KernelInv, TypeOK
<1>2. /\ x.step = "projection" /\ x.op \in {"stale", "revoked"} /\ r \in Requests
      /\ tx' = [tx EXCEPT ![t] = Idle]
      /\ UNCHANGED <<request, decisions, active, overdue, rowLock>>
  BY <1>x, <1>r DEF KernelInv, TxShape, ShapeOf, ProjectionCas
<1>3. CASE UNCHANGED validity
  BY <1>x, <1>2, <1>3, IdleOK, OnlyTxMoves
<1>4. CASE validity' # validity
  <2>1. validity' = [validity EXCEPT ![r] = val] /\ ValidityGuard(request[r], validity[r], val)
    BY <1>4, <1>x, <1>r, <1>w DEF ProjectionCas
  <2>2. /\ val \in ValidityRow /\ val.state = x.op
        /\ val.requestRevision = validity[r].requestRevision
        /\ val.satisfiedQuorum = validity[r].satisfiedQuorum
        /\ val.lastDecisionSequence = validity[r].lastDecisionSequence
    BY <1>1, <1>2, <1>w DEF ValidityRow, States
  <2>3. ValidityEdge(validity[r].state, x.op)
    BY <2>1, <2>2 DEF ValidityGuard
  <2>4. HistoryOf(r) /\ RowOf(r)
    BY <1>2 DEF KernelInv, ProjectionAgreesWithHistory, RowsAgree, HistoryOf, RowOf
  <2>5. /\ request'[r] = request[r] /\ validity'[r] = val /\ decisions'[r] = decisions[r]
        /\ Approvals(r)' = Approvals(r) /\ Voters(r)' = Voters(r)
    BY <1>1, <1>2, <2>1 DEF Approvals, Voters
  <2>6. HistoryOf(r)'
    BY <2>2, <2>4, <2>5 DEF HistoryOf
  <2>7. request[r].status = "absent" => FALSE
    BY <1>2, <2>3, <2>4 DEF RowOf, NoValidity, ValidityEdge
  <2>8. request[r].status = Ready => x.op = "stale"
    BY <1>2, <2>3, <2>4 DEF RowOf, ValidityEdge, Ready
  <2>9. RowOf(r)'
    BY <1>2, <2>2, <2>4, <2>5, <2>7, <2>8 DEF RowOf
  <2>10. TablesInv'
    <3>1. PICK rows \in SUBSET DecisionRow : rows = decisions[r]
      BY <1>1, <1>2
    <3>2. PICK row \in RequestRow : row = request[r]
      BY <1>1, <1>2
    <3>3. decisions' = [decisions EXCEPT ![r] = rows] /\ request' = [request EXCEPT ![r] = row]
      BY <1>1, <1>2, <3>1, <3>2
    <3>4. QED
      BY <1>2, <2>1, <2>2, <2>6, <2>9, <3>1, <3>2, <3>3, OneRowCommit
  <2>11. TypeOK'
    BY <1>1, <1>2, <2>1, <2>2, IdleOK DEF KernelInv, TypeOK
  <2>12. TxShape'
    BY <1>1, <1>2, IdleOK DEF KernelInv, TxShape, ShapeOf
  <2>13. LocksAgree'
    BY <1>x, <1>1, <1>2, IdleOK, KernelConstants DEF KernelInv, LocksAgree, CasMatches
  <2>14. ReadsAreExactOrStale'
    <3> SUFFICES ASSUME NEW u \in Txs PROVE ExactOrStale(tx[u])'
      BY DEF ReadsAreExactOrStale
    <3>1. tx'[u] = IF u = t THEN Idle ELSE tx[u]
      BY <1>1, <1>2
    <3>2. ExactOrStale(tx[u]) /\ ShapeOf(tx[u])
      BY DEF KernelInv, ReadsAreExactOrStale, TxShape
    <3>3. \A s \in Requests : /\ validity'[s].satisfiedQuorum = validity[s].satisfiedQuorum
                              /\ validity'[s].lastDecisionSequence = validity[s].lastDecisionSequence
      BY <1>1, <1>2, <2>1, <2>2
    <3>4. CASE u = t
      BY <3>1, <3>4 DEF ExactOrStale, Idle
    <3>5. CASE u # t
      BY <1>2, <3>1, <3>2, <3>3, <3>5 DEF ExactOrStale, ShapeOf
    <3>6. QED
      BY <3>4, <3>5
  <2>15. QED
    BY <2>10, <2>11, <2>12, <2>13, <2>14 DEF KernelInv, TablesInv
<1>5. QED
  BY <1>3, <1>4

\* A new request starts with an empty history and a binding no open request has.
LEMMA SubmitInv ==
    ASSUME KernelInv, NEW r \in Requests, NEW a \in Assignments, NEW b \in Bindings,
           NEW q \in 1..MaxQuorum, submitApprovalRequest(r, a, b, q)
    PROVE  KernelInv'
<1>w. PICK row, val :
         /\ row = [status |-> Ready, revision |-> 1, requiredQuorum |-> q, binding |-> b,
                   requestedBy |-> a, owner |-> a]
         /\ val = [state |-> "pending", requestRevision |-> 1, satisfiedQuorum |-> 0,
                   lastDecisionSequence |-> 0]
  OBVIOUS
<1>1. /\ request \in [Requests -> RequestRow] /\ validity \in [Requests -> ValidityRow]
      /\ decisions \in [Requests -> SUBSET DecisionRow] /\ tx \in [Txs -> Transaction]
      /\ rowLock \in [Requests -> Txs \cup {Nobody}]
  BY DEF KernelInv, TypeOK
<1>2. /\ request[r].status = "absent" /\ OpenUnique(b)
      /\ request' = [request EXCEPT ![r] = row] /\ validity' = [validity EXCEPT ![r] = val]
      /\ UNCHANGED <<decisions, active, overdue, rowLock, tx>>
  BY <1>w DEF submitApprovalRequest
<1>3. row \in RequestRow /\ val \in ValidityRow
  BY <1>w, KernelConstants DEF RequestRow, ValidityRow, Statuses, States
<1>4. HistoryOf(r) /\ RowOf(r)
  BY DEF KernelInv, ProjectionAgreesWithHistory, RowsAgree, HistoryOf, RowOf
<1>5. /\ request[r] = NoRequest /\ validity[r] = NoValidity /\ decisions[r] = {}
  BY <1>2, <1>4 DEF RowOf
<1>6. /\ request'[r] = row /\ validity'[r] = val /\ decisions'[r] = {}
      /\ Approvals(r)' = {} /\ Voters(r)' = {}
  BY <1>1, <1>2, <1>5 DEF Approvals, Voters
<1>7. HistoryOf(r)'
  <2>1. {d.sequence : d \in {}} = 1..0
    OBVIOUS
  <2>2. QED
    BY <1>w, <1>6, <2>1, FS_EmptySet DEF HistoryOf
<1>8. RowOf(r)'
  <2>1. q \in Nat /\ q >= 1
    BY KernelConstants
  <2>2. QED
    BY <1>w, <1>6, <2>1, FS_EmptySet DEF RowOf, Ready
<1>9. ASSUME NEW s \in Requests PROVE HistoryOf(s)' /\ RowOf(s)'
  <2>1. CASE s = r
    BY <1>7, <1>8, <2>1
  <2>2. CASE s # r
    <3>1. HistoryOf(s) /\ RowOf(s)
      BY DEF KernelInv, ProjectionAgreesWithHistory, RowsAgree, HistoryOf, RowOf
    <3>2. /\ request'[s] = request[s] /\ validity'[s] = validity[s]
          /\ decisions'[s] = decisions[s]
          /\ Approvals(s)' = Approvals(s) /\ Voters(s)' = Voters(s)
      BY <1>1, <1>2, <2>2 DEF Approvals, Voters
    <3>3. HistoryOf(s)'
      BY <3>1, <3>2 DEF HistoryOf
    <3>4. RowOf(s)'
      BY <3>1, <3>2 DEF RowOf
    <3>5. QED
      BY <3>3, <3>4
  <2>3. QED
    BY <2>1, <2>2
<1>10. ProjectionAgreesWithHistory' /\ RowsAgree'
  BY <1>9 DEF ProjectionAgreesWithHistory, RowsAgree, HistoryOf, RowOf
<1>11. BindingsAreExclusive'
  BY <1>1, <1>2, <1>w DEF KernelInv, BindingsAreExclusive, OpenUnique
<1>12. TypeOK'
  BY <1>1, <1>2, <1>3 DEF KernelInv, TypeOK
<1>13. TxShape'
  BY <1>2 DEF KernelInv, TxShape
<1>14. LocksAgree'
  <2>1. \A t \in Txs : tx[t].step = "locked" => tx[t].on # r /\ tx[t].on \in Requests
    BY <1>2 DEF KernelInv, LocksAgree, CasMatches, TxShape, ShapeOf, Ready
  <2>2. QED
    BY <1>1, <1>2, <2>1 DEF KernelInv, LocksAgree, CasMatches
<1>15. ReadsAreExactOrStale'
  <2> SUFFICES ASSUME NEW u \in Txs PROVE ExactOrStale(tx[u])'
    BY DEF ReadsAreExactOrStale
  <2>1. ExactOrStale(tx[u]) /\ ShapeOf(tx[u]) /\ tx'[u] = tx[u]
    BY <1>2 DEF KernelInv, ReadsAreExactOrStale, TxShape
  <2>2. QED
    BY <1>1, <1>2, <2>1 DEF ExactOrStale, ShapeOf
<1>16. QED
  BY <1>10, <1>11, <1>12, <1>13, <1>14, <1>15 DEF KernelInv

\* Time and role changes touch neither rows nor sessions.
LEMMA EnvironmentInv ==
    ASSUME KernelInv,
           \/ \E r \in Requests : BecomeOverdue(r)
           \/ \E a \in Assignments : RoleLapse(a)
           \/ UNCHANGED vars
    PROVE  KernelInv'
<1>1. UNCHANGED <<request, validity, decisions, rowLock, tx>>
  BY DEF BecomeOverdue, RoleLapse, vars
<1>2. TypeOK'
  <2>1. active' \subseteq Assignments /\ overdue' \subseteq Requests
    BY DEF KernelInv, TypeOK, BecomeOverdue, RoleLapse, vars
  <2>2. QED
    BY <1>1, <2>1 DEF KernelInv, TypeOK
<1>3. TxShape' /\ LocksAgree' /\ ReadsAreExactOrStale'
  BY <1>1 DEF KernelInv, TxShape, ShapeOf, LocksAgree, CasMatches, ReadsAreExactOrStale, ExactOrStale
<1>4. QED
  BY <1>1, <1>2, <1>3, TablesUntouched DEF KernelInv, TablesInv

\* Every step preserves the invariant, one case for each action.
LEMMA KernelInvStep == KernelInv /\ [Next]_vars => KernelInv'
<1> SUFFICES ASSUME KernelInv, [Next]_vars PROVE KernelInv'
  OBVIOUS
<1>1. CASE \E r \in Requests, a \in Assignments, b \in Bindings, q \in 1..MaxQuorum :
             submitApprovalRequest(r, a, b, q)
  BY <1>1, SubmitInv
<1>2. CASE \E t \in Txs, r \in Requests : Call(t, r)
  BY <1>2, DecideBeginInv, CloseReadInv, ProjectionReadInv DEF Call
<1>3. CASE \E t \in Txs : TxStep(t)
  BY <1>3, DecideReadRequestInv, DecideReadValidityInv, CasRequestInv, DecideCommitInv,
     CloseCommitInv, ProjectionCasInv, RollbackInv DEF TxStep
<1>4. QED
  BY <1>1, <1>2, <1>3, EnvironmentInv DEF Next

\* KernelInv holds in every reachable state: the strengthening the other theorems rest on.
THEOREM KernelInvariant == Spec => []KernelInv
<1>1. QED
  BY KernelInvInit, KernelInvStep, PTL DEF Spec

\* Rows and transactions always have their declared shape.
THEOREM TypeCorrect == Spec => []TypeOK
<1>1. KernelInv => TypeOK
  BY DEF KernelInv
<1>2. QED
  BY <1>1, KernelInvariant, PTL

\* The projection written by decide, from counters it read without a lock, always summarises the
\* decision history exactly.
THEOREM ProjectionIsExact == Spec => []ProjectionAgreesWithHistory
<1>1. KernelInv => ProjectionAgreesWithHistory
  BY DEF KernelInv
<1>2. QED
  BY <1>1, KernelInvariant, PTL

\* An approved request has exactly its quorum of distinct approvers other than the requester.
THEOREM QuorumIsDistinct == Spec => []QuorumOfDistinctApprovers
<1>1. KernelInv => QuorumOfDistinctApprovers
  <2> SUFFICES ASSUME KernelInv, NEW r \in Requests
               PROVE  /\ request[r].status = "approved" =>
                            /\ Cardinality(Voters(r)) = request[r].requiredQuorum
                            /\ request[r].requestedBy \notin Voters(r)
                            /\ Approvals(r) = decisions[r]
                      /\ validity[r].state = "valid" => request[r].status = "approved"
    BY DEF QuorumOfDistinctApprovers
  <2>1. RowOf(r)
    BY DEF KernelInv, RowsAgree, RowOf
  <2>2. request[r].requestedBy \notin Voters(r)
    BY <2>1 DEF RowOf, Voters, Approvals
  <2>3. QED
    BY <2>1, <2>2 DEF RowOf
<1>2. QED
  BY <1>1, KernelInvariant, PTL

\* No two open requests share a binding, and an open request is undecided.
THEOREM OpenIsUndecided == Spec => []OpenRequestsAreUndecided
<1>1. KernelInv => OpenRequestsAreUndecided
  <2> SUFFICES ASSUME KernelInv PROVE OpenRequestsAreUndecided
    OBVIOUS
  <2>1. \A r \in Requests : RowOf(r)
    BY DEF KernelInv, RowsAgree, RowOf
  <2>2. QED
    BY <2>1 DEF KernelInv, BindingsAreExclusive, OpenRequestsAreUndecided, RowOf
<1>2. QED
  BY <1>1, KernelInvariant, PTL

\* A step leaves a row alone, or is one of the four commits, which happen under these conditions.
LEMMA RowEffects ==
    ASSUME KernelInv, [Next]_vars, NEW r \in Requests
    PROVE  /\ ValidityEdge(validity[r].state, validity'[r].state) \/ request[r].status = "absent"
           /\ \/ request[r].status = "absent" \/ request[r].status = Ready
              \/ /\ request'[r].status = request[r].status
                 /\ request'[r].revision = request[r].revision
           /\ decisions[r] \subseteq decisions'[r]
           /\ request'[r].status # request[r].status =>
                 \/ request[r].status = "absent"
                 \/ validity[r].state = "pending"
<1>0. /\ request \in [Requests -> RequestRow] /\ validity \in [Requests -> ValidityRow]
      /\ decisions \in [Requests -> SUBSET DecisionRow]
  BY DEF KernelInv, TypeOK
<1>1. CASE UNCHANGED <<request, validity, decisions>>
  BY <1>1 DEF ValidityEdge
<1>2. ASSUME NEW s \in Requests, NEW a \in Assignments, NEW b \in Bindings,
             NEW q \in 1..MaxQuorum, submitApprovalRequest(s, a, b, q)
      PROVE  \/ request[r].status = "absent" /\ decisions'[r] = decisions[r]
             \/ request'[r] = request[r] /\ validity'[r] = validity[r] /\ decisions'[r] = decisions[r]
  BY <1>0, <1>2 DEF submitApprovalRequest
<1>3. ASSUME NEW t \in Txs, DecideCommit(t), tx[t].on = r
      PROVE  /\ ValidityEdge(validity[r].state, validity'[r].state)
             /\ request[r].status = Ready /\ decisions[r] \subseteq decisions'[r]
             /\ request'[r].status # Ready => validity[r].state = "pending"
  <2>1. /\ request[r].status = Ready /\ tx[t] \in Transaction
        /\ request' = [request EXCEPT ![r] = DecidedRequest(tx[t])]
        /\ validity' = [validity EXCEPT ![r] = DecidedValidity(tx[t])]
        /\ decisions' = [decisions EXCEPT ![r] = @ \cup {Decision(tx[t])}]
    BY <1>3, DecideCommitFacts DEF DecideCommit
  <2>2. ValidityGuard(DecidedRequest(tx[t]), validity[r], DecidedValidity(tx[t]))
    BY <1>3 DEF DecideCommit, DecisionAccepted
  <2>3. validity[r].state \in {"pending", "stale"}
    BY <2>1 DEF KernelInv, RowsAgree
  <2>4. validity'[r].state \in {"pending", "valid", "invalid"}
    BY <1>0, <2>1 DEF DecidedValidity, DecidedState
  <2>5. ValidityEdge(validity[r].state, validity'[r].state)
    BY <1>0, <2>1, <2>2 DEF ValidityGuard
  <2>6. validity[r].state = "pending"
    BY <2>3, <2>4, <2>5 DEF ValidityEdge
  <2>7. decisions[r] \subseteq decisions'[r]
    BY <1>0, <2>1
  <2>8. QED
    BY <2>1, <2>5, <2>6, <2>7
<1>4. ASSUME NEW t \in Txs, CloseCommit(t), tx[t].on = r
      PROVE  /\ ValidityEdge(validity[r].state, validity'[r].state)
             /\ request[r].status = Ready /\ decisions[r] = decisions'[r]
             /\ validity[r].state = "pending"
  <2>1. /\ request[r].status = Ready
        /\ validity' = [validity EXCEPT ![r] = ClosedValidity(tx[t])]
        /\ decisions' = decisions
    BY <1>4 DEF KernelInv, LocksAgree, CasMatches, CloseCommit
  <2>2. ValidityGuard(ClosedRequest(tx[t]), validity[r], ClosedValidity(tx[t]))
    BY <1>4 DEF CloseCommit, CloseAccepted
  <2>3. validity[r].state \in {"pending", "stale"}
    BY <2>1 DEF KernelInv, RowsAgree
  <2>4. validity'[r].state \in {"invalid", "expired"}
    BY <1>0, <1>4, <2>1 DEF ClosedValidity, ValidityRow
  <2>5. ValidityEdge(validity[r].state, validity'[r].state)
    BY <1>0, <2>1, <2>2 DEF ValidityGuard
  <2>6. validity[r].state = "pending"
    BY <2>3, <2>4, <2>5 DEF ValidityEdge
  <2>7. QED
    BY <2>1, <2>5, <2>6
<1>5. ASSUME NEW t \in Txs, ProjectionCas(t)
      PROVE  /\ ValidityEdge(validity[r].state, validity'[r].state)
             /\ request' = request /\ decisions' = decisions
  BY <1>0, <1>5 DEF ProjectionCas, ValidityGuard, ValidityEdge
<1>6. ASSUME NEW t \in Txs, DecideCommit(t) \/ CloseCommit(t), tx[t].on # r
      PROVE  request'[r] = request[r] /\ validity'[r] = validity[r] /\ decisions'[r] = decisions[r]
  BY <1>0, <1>6 DEF DecideCommit, CloseCommit
<1>7. CASE \E t \in Txs : TxStep(t)
  BY <1>1, <1>3, <1>4, <1>5, <1>6, <1>7
     DEF TxStep, DecideReadRequest, DecideReadValidity, CasRequest, Rollback, ValidityEdge
<1>8. CASE ~ \E t \in Txs : TxStep(t)
  BY <1>1, <1>2, <1>8
     DEF Next, vars, Call, DecideBegin, CloseRead, ProjectionRead, BecomeOverdue, RoleLapse,
         ValidityEdge
<1>9. QED
  BY <1>7, <1>8

\* Dead projections, terminal requests and recorded decisions never change again.
THEOREM NothingResurrects == Spec => NoResurrection
<1>1. KernelInv /\ [Next]_vars =>
        [\A r \in Requests :
          /\ validity[r].state \in DeadStates => validity'[r].state = validity[r].state
          /\ request[r].status \in TERMINAL_REQUEST_STATUSES =>
                request'[r].status = request[r].status /\ request'[r].revision = request[r].revision
          /\ decisions[r] \subseteq decisions'[r]]_vars
  <2> SUFFICES ASSUME KernelInv, [Next]_vars, NEW r \in Requests
               PROVE  /\ validity[r].state \in DeadStates => validity'[r].state = validity[r].state
                      /\ request[r].status \in TERMINAL_REQUEST_STATUSES =>
                            /\ request'[r].status = request[r].status
                            /\ request'[r].revision = request[r].revision
                      /\ decisions[r] \subseteq decisions'[r]
    OBVIOUS
  <2>1. request[r].status = "absent" => validity[r].state = "absent"
    BY DEF KernelInv, RowsAgree, NoValidity
  <2>2. QED
    BY <2>1, RowEffects DEF ValidityEdge, DeadStates, TERMINAL_REQUEST_STATUSES, Ready
<1>2. QED
  BY <1>1, KernelInvariant, PTL DEF Spec, NoResurrection

\* A request that went stale while it was open stays open, and stale, for ever.
THEOREM StaleStaysOpen == Spec => StaleRequestNeverCloses
<1>1. KernelInv /\ [Next]_vars =>
        [\A r \in Requests :
          request[r].status = Ready /\ validity[r].state = "stale" =>
             request'[r].status = Ready /\ validity'[r].state = "stale"]_vars
  BY RowEffects DEF ValidityEdge, Ready
<1>2. QED
  BY <1>1, KernelInvariant, PTL DEF Spec, StaleRequestNeverCloses

-----------------------------------------------------------------------------
(* The kernel implements Approval *)

\* The abstract values of one request.
PhaseOf(r) == IF request[r].status = Ready THEN "open" ELSE request[r].status
StandingOf(r) == IF validity[r].state \in DeadStates THEN "dead" ELSE validity[r].state
RequesterOf(r) == {request[r].requestedBy} \ {Nobody}

\* A step that keeps the abstract values of every request is a stutter of the abstract kernel.
LEMMA AbstractStutter ==
    ASSUME \A r \in Requests :
              /\ PhaseOf(r)' = PhaseOf(r) /\ StandingOf(r)' = StandingOf(r)
              /\ request'[r].requiredQuorum = request[r].requiredQuorum
              /\ RequesterOf(r)' = RequesterOf(r) /\ Voters(r)' = Voters(r)
    PROVE  UNCHANGED Abstract!vars
BY DEF Abstract!vars, PhaseOf, StandingOf, RequesterOf

\* Committed rows of every request other than r are as before.
OnlyMoves(r) ==
    \A s \in Requests \ {r} :
        request'[s] = request[s] /\ validity'[s] = validity[s] /\ decisions'[s] = decisions[s]

\* When only request r moves, every other request looks the same to the specification.
LEMMA OthersKeepAbstraction ==
    ASSUME NEW r \in Requests, OnlyMoves(r), NEW s \in Requests, s # r
    PROVE  /\ PhaseOf(s)' = PhaseOf(s) /\ StandingOf(s)' = StandingOf(s)
           /\ request'[s].requiredQuorum = request[s].requiredQuorum
           /\ RequesterOf(s)' = RequesterOf(s) /\ Voters(s)' = Voters(s)
BY DEF OnlyMoves, PhaseOf, StandingOf, RequesterOf, Voters, Approvals

\* A submission is the atomic Submit.
LEMMA SubmitImplements ==
    ASSUME KernelInv, NEW r \in Requests, NEW a \in Assignments, NEW b \in Bindings,
           NEW q \in 1..MaxQuorum, submitApprovalRequest(r, a, b, q)
    PROVE  Abstract!Submit(r, a, q)
<1>1. /\ request[r].status = "absent"
      /\ request' = [request EXCEPT ![r] =
            [status |-> Ready, revision |-> 1, requiredQuorum |-> q, binding |-> b,
             requestedBy |-> a, owner |-> a]]
      /\ validity' = [validity EXCEPT ![r] =
            [state |-> "pending", requestRevision |-> 1, satisfiedQuorum |-> 0,
             lastDecisionSequence |-> 0]]
      /\ decisions' = decisions
      /\ request \in [Requests -> RequestRow] /\ validity \in [Requests -> ValidityRow]
  BY DEF submitApprovalRequest, KernelInv, TypeOK
<1>2. OnlyMoves(r)
  BY <1>1 DEF OnlyMoves
<1>3. /\ PhaseOf(r) = "absent" /\ PhaseOf(r)' = "open" /\ StandingOf(r)' = "pending"
      /\ request'[r].requiredQuorum = q /\ RequesterOf(r)' = {a}
  BY <1>1, KernelConstants DEF PhaseOf, StandingOf, RequesterOf, DeadStates, Ready
<1>4. \A s \in Requests : Voters(s)' = Voters(s)
  BY <1>1 DEF Voters, Approvals
<1>5. \A s \in Requests : s # r =>
         /\ PhaseOf(s)' = PhaseOf(s) /\ StandingOf(s)' = StandingOf(s)
         /\ request'[s].requiredQuorum = request[s].requiredQuorum
         /\ RequesterOf(s)' = RequesterOf(s)
  BY <1>2, OthersKeepAbstraction
<1>6. QED
  BY <1>3, <1>4, <1>5 DEF Abstract!Submit, PhaseOf, StandingOf, RequesterOf

\* The specification counts votes the way this module does.
LEMMA SameCardinality ==
    ASSUME NEW S PROVE Abstract!Cardinality(S) = Cardinality(S)
BY DEF Abstract!Cardinality, Cardinality

\* A committed decision is one atomic vote or one atomic rejection.
LEMMA DecideImplements ==
    ASSUME KernelInv, NEW t \in Txs, DecideCommit(t)
    PROVE  \E r \in Requests :
              \/ \E a \in Assignments : Abstract!Support(r, a) \/ Abstract!Approve(r, a)
              \/ Abstract!End(r, "rejected")
<1>x. PICK x : x = tx[t]
  OBVIOUS
<1>r. PICK r \in Requests : r = x.on
  BY <1>x, DecideCommitFacts
<1>w. PICK row, val, d : row = DecidedRequest(x) /\ val = DecidedValidity(x) /\ d = Decision(x)
  OBVIOUS
<1>n. PICK q, n : q = request[r].requiredQuorum /\ n = Cardinality(decisions[r])
  OBVIOUS
<1>1. /\ x \in Transaction /\ x.actor \in Assignments /\ request[r] \in RequestRow
      /\ request[r].status = Ready /\ x.actor # request[r].requestedBy
      /\ x.satisfiedQuorum = Cardinality(Approvals(r)) /\ x.lastDecisionSequence = n
  BY <1>x, <1>r, <1>n, DecideCommitFacts
<1>2. /\ DecisionAccepted(x) /\ request' = [request EXCEPT ![r] = row]
      /\ validity' = [validity EXCEPT ![r] = val] /\ decisions' = [decisions EXCEPT ![r] = @ \cup {d}]
  BY <1>x, <1>r, <1>w DEF DecideCommit
<1>3. /\ request \in [Requests -> RequestRow] /\ validity \in [Requests -> ValidityRow]
      /\ decisions \in [Requests -> SUBSET DecisionRow]
  BY DEF KernelInv, TypeOK
<1>4. /\ row.status = DecidedStatus(x, q) /\ row.requiredQuorum = q
      /\ row.requestedBy = request[r].requestedBy
      /\ val.state = DecidedState(x, q)
      /\ d.sequence = n + 1 /\ d.actor = x.actor /\ d.decision = x.decision
      /\ x.decision \in {"approve", "reject"}
  BY <1>1, <1>r, <1>w, <1>n
     DEF DecidedRequest, DecidedValidity, Decision, RequestRow, Transaction, DECISION_VALUES
<1>5. RowOf(r) /\ TablesInv
  BY DEF KernelInv, RowsAgree, RowOf, TablesInv
<1>6. /\ q \in Nat /\ n < q /\ Approvals(r) = decisions[r] /\ validity[r].state \in {"pending", "stale"}
      /\ Cardinality(Voters(r)) = n
  BY <1>n, <1>1, <1>5 DEF RowOf, RequestRow
<1>7. \A e \in decisions[r] : e.sequence # d.sequence /\ e.actor # d.actor
  BY <1>2, <1>r, <1>w DEF DecisionAccepted, DecisionGuard
<1>8. /\ Voters(r)' = IF d.decision = "approve" THEN Voters(r) \cup {d.actor} ELSE Voters(r)
      /\ n \in Nat
  <2>1. /\ d.decision \in DECISION_VALUES /\ DOMAIN decisions = Requests
        /\ d.sequence = Cardinality(decisions[r]) + 1
        /\ decisions' = [decisions EXCEPT ![r] = @ \cup {d}]
    BY <1>n, <1>2, <1>3, <1>4 DEF DECISION_VALUES
  <2>2. QED
    BY <1>n, <1>5, <1>7, <2>1, OneMoreDecision
<1>9. validity[r].state = "pending"
  <2>1. ValidityEdge(validity[r].state, val.state)
    BY <1>2, <1>r, <1>w DEF DecisionAccepted, ValidityGuard
  <2>2. QED
    BY <1>4, <1>6, <2>1 DEF ValidityEdge, DecidedState
<1>10. request'[r] = row /\ validity'[r] = val /\ OnlyMoves(r)
  BY <1>2, <1>3 DEF OnlyMoves
<1>11. \A s \in Requests : s # r =>
         /\ PhaseOf(s)' = PhaseOf(s) /\ StandingOf(s)' = StandingOf(s)
         /\ request'[s].requiredQuorum = request[s].requiredQuorum
         /\ RequesterOf(s)' = RequesterOf(s) /\ Voters(s)' = Voters(s)
  BY <1>10, OthersKeepAbstraction
<1>12. /\ PhaseOf(r) = "open" /\ StandingOf(r) = "pending"
       /\ request[r].requiredQuorum = q /\ request'[r].requiredQuorum = q
       /\ RequesterOf(r)' = RequesterOf(r) /\ RequesterOf(r) \subseteq {request[r].requestedBy}
  BY <1>n, <1>1, <1>4, <1>9, <1>10 DEF PhaseOf, StandingOf, RequesterOf, DeadStates
<1>13. CASE x.decision = "reject"
  <2>1. /\ PhaseOf(r)' = "rejected" /\ StandingOf(r)' = "dead" /\ Voters(r)' = Voters(r)
    BY <1>4, <1>8, <1>10, <1>13
       DEF PhaseOf, StandingOf, DecidedStatus, DecidedState, DeadStates, Ready
  <2>2. Abstract!End(r, "rejected")
    <3>1. [s \in Requests |-> PhaseOf(s)]'
            = [[s \in Requests |-> PhaseOf(s)] EXCEPT ![r] = "rejected"]
      BY <1>11, <2>1
    <3>2. [s \in Requests |-> StandingOf(s)]'
            = [[s \in Requests |-> StandingOf(s)] EXCEPT ![r] = "dead"]
      BY <1>11, <2>1
    <3>3. /\ [s \in Requests |-> request[s].requiredQuorum]'
               = [s \in Requests |-> request[s].requiredQuorum]
          /\ [s \in Requests |-> RequesterOf(s)]' = [s \in Requests |-> RequesterOf(s)]
          /\ [s \in Requests |-> Voters(s)]' = [s \in Requests |-> Voters(s)]
      BY <1>11, <1>12, <2>1
    <3>4. QED
      BY <1>12, <3>1, <3>2, <3>3 DEF Abstract!End, PhaseOf, StandingOf, RequesterOf
  <2>3. QED
    BY <2>2
<1>14. CASE x.decision = "approve"
  <2>1. Final(x, q) <=> n + 1 = q
    BY <1>1, <1>6, <1>8, <1>14, <1>n DEF Final, DecidedQuorum
  <2>2. /\ PhaseOf(r)' = IF n + 1 = q THEN "approved" ELSE "open"
        /\ StandingOf(r)' = IF n + 1 = q THEN "valid" ELSE "pending"
    BY <1>4, <1>10, <1>14, <2>1
       DEF PhaseOf, StandingOf, DecidedStatus, DecidedState, DeadStates, Ready
  <2>3. Voters(r)' = Voters(r) \cup {x.actor} /\ x.actor \notin Voters(r)
    BY <1>4, <1>7, <1>8, <1>14 DEF Voters, Approvals
  <2>4. x.actor \notin RequesterOf(r)
    BY <1>1, <1>12
  <2>5. Cardinality(Voters(r)) + 1 = request[r].requiredQuorum <=> n + 1 = q
    BY <1>6, <1>12
  <2>6. Abstract!Vote(r, x.actor)
    <3>1. [s \in Requests |-> Voters(s)]'
            = [[s \in Requests |-> Voters(s)] EXCEPT ![r] = @ \cup {x.actor}]
      BY <1>11, <2>3
    <3>2. /\ [s \in Requests |-> request[s].requiredQuorum]'
               = [s \in Requests |-> request[s].requiredQuorum]
          /\ [s \in Requests |-> RequesterOf(s)]' = [s \in Requests |-> RequesterOf(s)]
      BY <1>11, <1>12
    <3>3. QED
      BY <1>12, <2>3, <2>4, <3>1, <3>2 DEF Abstract!Vote, PhaseOf, StandingOf, RequesterOf
  <2>7. CASE n + 1 = q
    <3>1. PhaseOf(r)' = "approved" /\ StandingOf(r)' = "valid"
      BY <2>2, <2>7
    <3>2. [s \in Requests |-> PhaseOf(s)]' = [[s \in Requests |-> PhaseOf(s)] EXCEPT ![r] = "approved"]
      BY <1>11, <3>1
    <3>3. [s \in Requests |-> StandingOf(s)]'
            = [[s \in Requests |-> StandingOf(s)] EXCEPT ![r] = "valid"]
      BY <1>11, <3>1
    <3>4. Abstract!Approve(r, x.actor)
      BY <2>5, <2>6, <2>7, <3>2, <3>3, SameCardinality DEF Abstract!Approve, PhaseOf, StandingOf
    <3>5. QED
      BY <1>1, <3>4
  <2>8. CASE n + 1 # q
    <3>1. PhaseOf(r)' = "open" /\ StandingOf(r)' = "pending"
      BY <2>2, <2>8
    <3>2. /\ [s \in Requests |-> PhaseOf(s)]' = [s \in Requests |-> PhaseOf(s)]
          /\ [s \in Requests |-> StandingOf(s)]' = [s \in Requests |-> StandingOf(s)]
      BY <1>11, <1>12, <3>1
    <3>3. Abstract!Support(r, x.actor)
      BY <2>5, <2>6, <2>8, <3>2, SameCardinality DEF Abstract!Support, PhaseOf, StandingOf
    <3>4. QED
      BY <1>1, <3>3
  <2>9. QED
    BY <2>7, <2>8
<1>15. QED
  BY <1>4, <1>13, <1>14

\* A committed cancellation or expiry is one atomic end.
LEMMA CloseImplements ==
    ASSUME KernelInv, NEW t \in Txs, CloseCommit(t)
    PROVE  \E r \in Requests, how \in {"cancelled", "expired"} : Abstract!End(r, how)
<1>x. PICK x : x = tx[t]
  OBVIOUS
<1>1. /\ x \in Transaction /\ x.on \in Requests /\ x.op \in {"cancelled", "expired"}
      /\ request[x.on].status = Ready
  BY <1>x DEF KernelInv, TypeOK, TxShape, ShapeOf, LocksAgree, CasMatches, CloseCommit
<1>r. PICK r \in Requests : r = x.on
  BY <1>1
<1>w. PICK row, val : row = ClosedRequest(x) /\ val = ClosedValidity(x)
  OBVIOUS
<1>2. /\ CloseAccepted(x) /\ request' = [request EXCEPT ![r] = row]
      /\ validity' = [validity EXCEPT ![r] = val] /\ decisions' = decisions
  BY <1>x, <1>r, <1>w DEF CloseCommit
<1>3. /\ request \in [Requests -> RequestRow] /\ validity \in [Requests -> ValidityRow]
      /\ request[r] \in RequestRow /\ validity[r] \in ValidityRow
  BY DEF KernelInv, TypeOK
<1>4. /\ row.status = x.op /\ row.requiredQuorum = request[r].requiredQuorum
      /\ row.requestedBy = request[r].requestedBy
  BY <1>3, <1>r, <1>w DEF ClosedRequest, RequestRow
<1>5. val.state \in {"invalid", "expired"}
  BY <1>3, <1>r, <1>w DEF ClosedValidity, ValidityRow
<1>6. validity[r].state = "pending"
  <2>1. ValidityEdge(validity[r].state, val.state)
    BY <1>2, <1>r, <1>w DEF CloseAccepted, ValidityGuard
  <2>2. validity[r].state \in {"pending", "stale"}
    BY <1>1, <1>r DEF KernelInv, RowsAgree
  <2>3. QED
    BY <1>5, <2>1, <2>2 DEF ValidityEdge
<1>7. /\ request'[r] = row /\ validity'[r] = val /\ OnlyMoves(r)
      /\ \A s \in Requests : Voters(s)' = Voters(s)
  BY <1>2, <1>3 DEF OnlyMoves, Voters, Approvals
<1>8. \A s \in Requests : s # r =>
         /\ PhaseOf(s)' = PhaseOf(s) /\ StandingOf(s)' = StandingOf(s)
         /\ request'[s].requiredQuorum = request[s].requiredQuorum
         /\ RequesterOf(s)' = RequesterOf(s)
  BY <1>7, OthersKeepAbstraction
<1>9. /\ PhaseOf(r) = "open" /\ StandingOf(r) = "pending"
      /\ PhaseOf(r)' = x.op /\ StandingOf(r)' = "dead"
      /\ request'[r].requiredQuorum = request[r].requiredQuorum
      /\ RequesterOf(r)' = RequesterOf(r)
  BY <1>1, <1>r, <1>4, <1>5, <1>6, <1>7 DEF PhaseOf, StandingOf, RequesterOf, DeadStates, Ready
<1>10. Abstract!End(r, x.op)
  BY <1>7, <1>8, <1>9 DEF Abstract!End, PhaseOf, StandingOf, RequesterOf
<1>11. QED
  BY <1>1, <1>10

\* markValidityStale and revokeValidity end a standing, or lose their race and do nothing.
LEMMA ProjectionImplements ==
    ASSUME KernelInv, NEW t \in Txs, ProjectionCas(t)
    PROVE  (\E r \in Requests : Abstract!Invalidate(r)) \/ UNCHANGED Abstract!vars
<1>x. PICK x : x = tx[t]
  OBVIOUS
<1>1. /\ x.on \in Requests /\ x.op \in {"stale", "revoked"} /\ request' = request
      /\ decisions' = decisions /\ validity \in [Requests -> ValidityRow]
  BY <1>x DEF KernelInv, TypeOK, TxShape, ShapeOf, ProjectionCas
<1>r. PICK r \in Requests : r = x.on
  BY <1>1
<1>2. \A s \in Requests : Voters(s)' = Voters(s)
  BY <1>1 DEF Voters, Approvals
<1>3. CASE validity' = validity
  <2>1. \A s \in Requests : PhaseOf(s)' = PhaseOf(s) /\ StandingOf(s)' = StandingOf(s)
                            /\ RequesterOf(s)' = RequesterOf(s)
    BY <1>1, <1>3 DEF PhaseOf, StandingOf, RequesterOf
  <2>2. QED
    BY <1>1, <1>2, <2>1, AbstractStutter
<1>4. CASE validity' # validity
  <2>w. PICK val : val = [validity[r] EXCEPT !.state = x.op]
    OBVIOUS
  <2>1. validity' = [validity EXCEPT ![r] = val] /\ ValidityGuard(request[r], validity[r], val)
    BY <1>4, <1>x, <1>r, <2>w DEF ProjectionCas
  <2>2. val.state = x.op /\ val # validity[r]
    BY <1>1, <1>4, <2>w, <2>1 DEF ValidityRow
  <2>3. ValidityEdge(validity[r].state, x.op) /\ validity[r].state # x.op
    BY <1>1, <2>w, <2>1, <2>2 DEF ValidityGuard, ValidityRow
  <2>4. validity[r].state \in {"pending", "valid"}
    BY <1>1, <2>3 DEF ValidityEdge
  <2>5. /\ validity'[r] = val /\ OnlyMoves(r)
    BY <1>1, <2>1 DEF OnlyMoves
  <2>6. /\ StandingOf(r) \in {"pending", "valid"} /\ StandingOf(r)' = "dead"
    BY <1>1, <2>2, <2>4, <2>5 DEF StandingOf, DeadStates
  <2>7. \A s \in Requests : PhaseOf(s)' = PhaseOf(s) /\ RequesterOf(s)' = RequesterOf(s)
    BY <1>1 DEF PhaseOf, RequesterOf
  <2>8. \A s \in Requests : s # r => StandingOf(s)' = StandingOf(s)
    BY <2>5, OthersKeepAbstraction
  <2>9. Abstract!Invalidate(r)
    BY <1>1, <1>2, <2>6, <2>7, <2>8 DEF Abstract!Invalidate, PhaseOf, StandingOf, RequesterOf
  <2>10. QED
    BY <2>9
<1>5. QED
  BY <1>3, <1>4

\* Every behaviour of the statement-level kernel is, through the mapping, a behaviour of the atomic
\* specification: concurrent decisions are linearised at their commits.
THEOREM KernelImplementsApproval == Spec => ImplementsApproval
<1>1. Init => Abstract!Init
  <2> SUFFICES ASSUME Init PROVE Abstract!Init
    OBVIOUS
  <2>1. \A r \in Requests : Voters(r) = {}
    BY DEF Init, Voters, Approvals
  <2>2. QED
    BY <2>1 DEF Init, Abstract!Init, NoRequest, NoValidity, Ready, DeadStates
<1>2. KernelInv /\ [Next]_vars => [Abstract!Next]_(Abstract!vars)
  <2> SUFFICES ASSUME KernelInv, [Next]_vars PROVE Abstract!Next \/ UNCHANGED Abstract!vars
    OBVIOUS
  <2>1. CASE \E r \in Requests, a \in Assignments, b \in Bindings, q \in 1..MaxQuorum :
               submitApprovalRequest(r, a, b, q)
    BY <2>1, SubmitImplements DEF Abstract!Next
  <2>2. CASE \E t \in Txs : DecideCommit(t)
    BY <2>2, DecideImplements DEF Abstract!Next
  <2>3. CASE \E t \in Txs : CloseCommit(t)
    BY <2>3, CloseImplements DEF Abstract!Next
  <2>4. CASE \E t \in Txs : ProjectionCas(t)
    BY <2>4, ProjectionImplements DEF Abstract!Next
  <2>5. CASE UNCHANGED <<request, validity, decisions>>
    BY <2>5, AbstractStutter DEF PhaseOf, StandingOf, RequesterOf, Voters, Approvals
  <2>6. QED
    BY <2>1, <2>2, <2>3, <2>4, <2>5
       DEF Next, vars, Call, TxStep, DecideBegin, DecideReadRequest, DecideReadValidity, CasRequest,
           CloseRead, ProjectionRead, Rollback, BecomeOverdue, RoleLapse
<1>3. QED
  BY <1>1, <1>2, KernelInvariant, PTL DEF Spec, ImplementsApproval, Abstract!Spec
-----------------------------------------------------------------------------
(* To the release gate the kernel is an ApprovalStanding *)

\* A step that moves one request's standing, and no time, in one of the two ways the gate expects.
LEMMA OneStandingMoves ==
    ASSUME NEW r \in Requests, UNCHANGED overdue,
           \A s \in Requests \ {r} : GateStanding(s)' = GateStanding(s),
           \/ GateStanding(r)' = GateStanding(r)
           \/ GateStanding(r) = "open" /\ GateStanding(r)' = "approved"
           \/ GateStanding(r) = "approved" /\ GateStanding(r)' = "withdrawn"
    PROVE  [Gate!Next]_<<[s \in Requests |-> GateStanding(s)], overdue>>
<1>1. CASE GateStanding(r)' = GateStanding(r)
  <2>1. [s \in Requests |-> GateStanding(s)]' = [s \in Requests |-> GateStanding(s)]
    BY <1>1
  <2> QED
    BY <2>1
<1>2. CASE GateStanding(r) = "open" /\ GateStanding(r)' = "approved"
  <2>1. Gate!Approve(r)
    <3>1. \A s \in Requests : GateStanding(s)' = IF s = r THEN "approved" ELSE GateStanding(s)
      BY <1>2
    <3> QED
      BY <1>2, <3>1 DEF Gate!Approve
  <2> QED
    BY <2>1 DEF Gate!Next
<1>3. CASE GateStanding(r) = "approved" /\ GateStanding(r)' = "withdrawn"
  <2>1. Gate!Withdraw(r)
    BY <1>3 DEF Gate!Withdraw
  <2> QED
    BY <2>1 DEF Gate!Next
<1> QED
  BY <1>1, <1>2, <1>3

\* An approval becomes releasable only by the decision that approves it, and a projection that
\* stops being valid never is again.
LEMMA StandingStep ==
    ASSUME KernelInv, [Next]_vars
    PROVE  [Gate!Next]_<<[r \in Requests |-> GateStanding(r)], overdue>>
<1>0. request \in [Requests -> RequestRow] /\ validity \in [Requests -> ValidityRow]
  BY DEF KernelInv, TypeOK
<1>1. CASE UNCHANGED <<request, validity, overdue>>
  BY <1>1 DEF GateStanding
<1>2. ASSUME NEW r \in Requests, NEW a \in Assignments, NEW b \in Bindings,
             NEW q \in 1..MaxQuorum, submitApprovalRequest(r, a, b, q)
      PROVE  [Gate!Next]_<<[s \in Requests |-> GateStanding(s)], overdue>>
  <2>1. /\ UNCHANGED overdue
        /\ \A s \in Requests : GateStanding(s)' = GateStanding(s)
    BY <1>0, <1>2 DEF submitApprovalRequest, GateStanding, Ready
  <2> QED
    BY <2>1, OneStandingMoves
<1>3. ASSUME NEW t \in Txs, DecideCommit(t)
      PROVE  [Gate!Next]_<<[s \in Requests |-> GateStanding(s)], overdue>>
  <2>1. PICK r \in Requests, x \in Transaction : x = tx[t] /\ r = x.on /\ request[r].status = Ready
    BY <1>3, DecideCommitFacts
  <2>2. /\ UNCHANGED overdue
        /\ request' = [request EXCEPT ![r] = DecidedRequest(x)]
        /\ validity' = [validity EXCEPT ![r] = DecidedValidity(x)]
    BY <1>3, <2>1 DEF DecideCommit
  <2>3. \A s \in Requests \ {r} : GateStanding(s)' = GateStanding(s)
    BY <1>0, <2>2 DEF GateStanding
  <2>4. request'[r].status = "approved" => validity'[r].state = "valid"
    BY <1>0, <2>1, <2>2 DEF DecidedRequest, DecidedValidity, DecidedStatus, DecidedState, RequestRow, Ready
  <2>5. GateStanding(r) = "open" /\ GateStanding(r)' \in {"open", "approved"}
    BY <2>1, <2>4 DEF GateStanding, Ready
  <2> QED
    BY <2>2, <2>3, <2>5, OneStandingMoves
<1>4. ASSUME NEW t \in Txs, CloseCommit(t)
      PROVE  [Gate!Next]_<<[s \in Requests |-> GateStanding(s)], overdue>>
  <2>1. PICK r \in Requests, x \in Transaction : x = tx[t] /\ r = x.on /\ request[r].status = Ready
    BY <1>4 DEF CloseCommit, KernelInv, TypeOK, TxShape, ShapeOf, LocksAgree, CasMatches
  <2>2. /\ UNCHANGED overdue /\ x.op \in {"cancelled", "expired"}
        /\ request' = [request EXCEPT ![r] = ClosedRequest(x)]
        /\ validity' = [validity EXCEPT ![r] = ClosedValidity(x)]
    BY <1>4, <2>1 DEF CloseCommit
  <2>3. \A s \in Requests \ {r} : GateStanding(s)' = GateStanding(s)
    BY <1>0, <2>2 DEF GateStanding
  <2>4. request'[r].status \in {"cancelled", "expired"}
    BY <1>0, <2>1, <2>2 DEF ClosedRequest, RequestRow
  <2>5. GateStanding(r) = "open" /\ GateStanding(r)' = "open"
    BY <2>1, <2>4 DEF GateStanding, Ready
  <2> QED
    BY <2>2, <2>3, <2>5, OneStandingMoves
<1>5. ASSUME NEW t \in Txs, ProjectionCas(t)
      PROVE  [Gate!Next]_<<[s \in Requests |-> GateStanding(s)], overdue>>
  <2>1. PICK r \in Requests : r = tx[t].on
    BY <1>5 DEF ProjectionCas, KernelInv, TxShape, ShapeOf
  <2>2. /\ UNCHANGED <<request, overdue>>
        /\ \A s \in Requests \ {r} : validity'[s] = validity[s]
    BY <1>0, <1>5, <2>1 DEF ProjectionCas
  <2>3. \A s \in Requests \ {r} : GateStanding(s)' = GateStanding(s)
    BY <2>2 DEF GateStanding
  <2>4. request[r].status = "approved" /\ validity'[r].state = "valid" => validity[r].state = "valid"
    <3>1. request[r].status = "approved" => validity[r].state \notin {"absent", "pending"}
      BY DEF KernelInv, RowsAgree, Ready
    <3>2. request[r].status = "approved" => ValidityEdge(validity[r].state, validity'[r].state)
      BY RowEffects
    <3> QED
      BY <3>1, <3>2 DEF ValidityEdge
  <2> QED
    BY <2>2, <2>3, <2>4, OneStandingMoves DEF GateStanding
<1>6. ASSUME NEW r \in Requests, BecomeOverdue(r)
      PROVE  [Gate!Next]_<<[s \in Requests |-> GateStanding(s)], overdue>>
  BY <1>6 DEF BecomeOverdue, Gate!Next, Gate!BecomeOverdue, GateStanding
<1> QED
  BY <1>1, <1>2, <1>3, <1>4, <1>5, <1>6
     DEF Next, vars, Call, TxStep, DecideBegin, CloseRead, ProjectionRead, DecideReadRequest,
         DecideReadValidity, CasRequest, Rollback, RoleLapse

\* Whatever the kernel's sessions do, an approval is given once, and one that was withdrawn never
\* comes back: the release gate of ExternalRelease rests on no more than that.
THEOREM KernelKeepsStandings == Spec => ImplementsStanding
<1>1. Init => Gate!Init
  BY DEF Init, Gate!Init, GateStanding, NoRequest
<1>2. KernelInv /\ [Next]_vars => [Gate!Next]_<<[r \in Requests |-> GateStanding(r)], overdue>>
  BY StandingStep
<1>3. QED
  BY <1>1, <1>2, KernelInvariant, PTL DEF Spec, ImplementsStanding, Gate!Spec
=============================================================================
