---------------------------- MODULE ApprovalKernel ----------------------------
(***************************************************************************)
(* The canonical approval kernel                                           *)
(* (packages/business/src/governance/approval-kernel.ts) over the tables   *)
(* and triggers of migration 20260715180000_version_bound_approval.        *)
(*                                                                         *)
(* Every kernel entrypoint is a PostgreSQL transaction at READ COMMITTED:  *)
(* each statement sees the rows committed when that statement starts, an   *)
(* UPDATE takes the row lock until the transaction ends, and a blocked     *)
(* UPDATE re-evaluates its WHERE clause once the lock is free.  One action *)
(* below is one statement (or a run of statements that nobody else can     *)
(* tell apart).  A transaction's writes become visible at its commit.      *)
(*                                                                         *)
(* Left out: tenant/company scope and legacy_unbound rows (a caller only   *)
(* ever reaches rows of its own scope), MFA age and input validation (they *)
(* refuse a call before it reads a row), content hashes, reason codes and  *)
(* the returned records.  expectedRevision is an arbitrary client input; a *)
(* call whose value differs from the row it reads is refused, so the model *)
(* follows the calls whose value matches.                                  *)
(***************************************************************************)
EXTENDS Integers, FiniteSets

CONSTANTS
    Requests,      \* approval_requests ids
    Assignments,   \* user_company_roles ids
    Bindings,      \* (artifact version, action, policy hash) triples
    Txs,           \* concurrent database sessions running kernel calls
    MaxQuorum,     \* bound on requiredQuorum
    Nobody         \* SQL NULL / no holder

ASSUME KernelConstants ==
    /\ MaxQuorum \in Nat \ {0}
    /\ Nobody \notin Assignments
    /\ Nobody \notin Txs
    /\ Nobody \notin Bindings
    /\ Nobody \notin Requests

VARIABLES
    request,    \* approval_requests: committed rows
    validity,   \* approval_current_validity: committed rows
    decisions,  \* approval_decisions: committed rows of each request
    active,     \* assignments that resolveActiveCompanyRole accepts now
    overdue,    \* requests whose expiresAt is not in the future
    rowLock,    \* holder of the row lock of each approval_requests row
    tx          \* what each session's open transaction has read so far

vars == <<request, validity, decisions, active, overdue, rowLock, tx>>

Ready == "ready_for_human_approval"
TERMINAL_REQUEST_STATUSES == {"approved", "rejected", "cancelled", "expired"}
Statuses == {"absent", Ready} \cup TERMINAL_REQUEST_STATUSES
States == {"absent", "pending", "valid", "invalid", "stale", "expired", "revoked"}
DeadStates == {"invalid", "stale", "expired", "revoked"}
DECISION_VALUES == {"approve", "reject"}

RequestRow == [status : Statuses, revision : Nat, requiredQuorum : 0..MaxQuorum,
               binding : Bindings \cup {Nobody},
               requestedBy : Assignments \cup {Nobody},
               owner : Assignments \cup {Nobody}]

\* requiredQuorum is copied into the projection when the request becomes ready and the guard keeps
\* the two equal, so the model keeps the request's copy only.
ValidityRow == [state : States, requestRevision : Nat, satisfiedQuorum : Nat,
                lastDecisionSequence : Nat]

DecisionRow == [sequence : Nat, requestRevision : Nat, actor : Assignments,
                decision : DECISION_VALUES]

NoRequest == [status |-> "absent", revision |-> 0, requiredQuorum |-> 0,
              binding |-> Nobody, requestedBy |-> Nobody, owner |-> Nobody]
NoValidity == [state |-> "absent", requestRevision |-> 0, satisfiedQuorum |-> 0,
               lastDecisionSequence |-> 0]

Ops == {"none", "decide", "cancelled", "expired", "stale", "revoked"}
Steps == {"idle", "resolved", "checked", "read", "locked", "projection"}

Transaction == [step : Steps, op : Ops, on : Requests \cup {Nobody},
                actor : Assignments \cup {Nobody}, decision : DECISION_VALUES,
                late : SUBSET Requests, revision : Nat, state : States,
                satisfiedQuorum : Nat, lastDecisionSequence : Nat]

Idle == [step |-> "idle", op |-> "none", on |-> Nobody, actor |-> Nobody,
         decision |-> "approve", late |-> {}, revision |-> 0, state |-> "absent",
         satisfiedQuorum |-> 0, lastDecisionSequence |-> 0]

Init ==
    /\ request = [r \in Requests |-> NoRequest]
    /\ validity = [r \in Requests |-> NoValidity]
    /\ decisions = [r \in Requests |-> {}]
    /\ active = Assignments
    /\ overdue = {}
    /\ rowLock = [r \in Requests |-> Nobody]
    /\ tx = [t \in Txs |-> Idle]

-----------------------------------------------------------------------------
(* The database's own rules *)

\* Slip: the partial unique index is missing.
OpenUniqueMissing(b) == TRUE

\* approval_requests_open_unique_idx: one open request for each binding.
OpenUnique(b) == \A r \in Requests : ~ (request[r].status = Ready /\ request[r].binding = b)

\* sangfor_approval_requests_status_graph_guard, for the rows that are visible to others.
StatusEdge(from, to) ==
    from = to \/ (from = Ready /\ to \in TERMINAL_REQUEST_STATUSES)

\* Slip: the trigger forgets that dead states have no successor.
ValidityEdgeAny(from, to) == from # "absent"

\* The projection graph of sangfor_approval_current_validity_guard.
ValidityEdge(from, to) ==
    \/ from = to
    \/ from = "pending" /\ to \in {"valid", "invalid", "stale", "expired"}
    \/ from = "valid" /\ to \in {"stale", "expired", "revoked"}

\* sangfor_approval_current_validity_guard and the CHECKs of the table: may old become new while
\* the parent row, as the writing transaction sees it, is parent?  (The guard also lets an approved
\* request's projection expire after validUntil; no code writes that.)
ValidityGuard(parent, old, new) ==
    /\ new.requestRevision = parent.revision
    /\ ValidityEdge(old.state, new.state)
    /\ new.state = "valid" => /\ parent.status = "approved"
                              /\ new.satisfiedQuorum >= parent.requiredQuorum
                              /\ new.satisfiedQuorum >= 1
    /\ new.state = "invalid" => parent.status \in {"rejected", "cancelled"}
    /\ new.state = "expired" => parent.status = "expired"
    /\ new.satisfiedQuorum <= parent.requiredQuorum
    /\ new.lastDecisionSequence >= new.satisfiedQuorum

\* sangfor_approval_decision_guard and the two unique indexes of approval_decisions.
DecisionGuard(parent, rows, new) ==
    /\ new.requestRevision = parent.revision
    /\ \A d \in rows : d.sequence # new.sequence /\ d.actor # new.actor

-----------------------------------------------------------------------------
(* Submission: create pending@0, CAS it to ready@1 and insert the          *)
(* projection, in one transaction, so that pending is never visible.       *)

\* Slip: the requester is counted into the stored quorum.
submitWithExtraQuorum(r, a, b, q) ==
    /\ request[r].status = "absent"
    /\ a \in active
    /\ OpenUnique(b)
    /\ request' = [request EXCEPT ![r] =
          [status |-> Ready, revision |-> 1, requiredQuorum |-> q + 1, binding |-> b,
           requestedBy |-> a, owner |-> a]]
    /\ validity' = [validity EXCEPT ![r] = [NoValidity EXCEPT !.state = "pending",
                                                              !.requestRevision = 1]]
    /\ UNCHANGED <<decisions, active, overdue, rowLock, tx>>

submitApprovalRequest(r, a, b, q) ==
    /\ request[r].status = "absent"
    /\ a \in active
    /\ OpenUnique(b)
    /\ request' = [request EXCEPT ![r] =
          [status |-> Ready, revision |-> 1, requiredQuorum |-> q, binding |-> b,
           requestedBy |-> a, owner |-> a]]
    /\ validity' = [validity EXCEPT ![r] =
          [state |-> "pending", requestRevision |-> 1, satisfiedQuorum |-> 0,
           lastDecisionSequence |-> 0]]
    /\ UNCHANGED <<decisions, active, overdue, rowLock, tx>>

-----------------------------------------------------------------------------
(* decideApproval, statement by statement *)

\* now = new Date(), then resolveActor reads user_company_roles.
DecideBegin(t, r, a, d) ==
    /\ tx[t].step = "idle"
    /\ a \in active
    /\ tx' = [tx EXCEPT ![t] = [Idle EXCEPT !.step = "resolved", !.op = "decide", !.on = r,
                                            !.actor = a, !.decision = d,
                                            !.late = overdue \cap {r}]]
    /\ UNCHANGED <<request, validity, decisions, active, overdue, rowLock>>

\* Slip: SELF_APPROVAL is not checked.
MayDecideAnyone(x, row) == row.status = Ready /\ x.late = {}

\* The preconditions on the row that was read; late compares with the now of DecideBegin.  Requester
\* and owner stay the same person: the one writer of owner_assignment_id, a completed ownership
\* transfer, is refused by ownership_transfers_shape_chk.
MayDecide(x, row) ==
    /\ row.status = Ready
    /\ x.late = {}
    /\ x.actor # row.requestedBy
    /\ x.actor # row.owner

\* SELECT the request and check it.
DecideReadRequest(t) ==
    LET row == request[tx[t].on] IN
    /\ tx[t].step = "resolved"
    /\ tx' = [tx EXCEPT ![t] = IF MayDecide(tx[t], row)
                               THEN [tx[t] EXCEPT !.step = "checked", !.revision = row.revision]
                               ELSE Idle]
    /\ UNCHANGED <<request, validity, decisions, active, overdue, rowLock>>

\* SELECT this approver's earlier decision, then SELECT the projection.  Its state is not checked.
DecideReadValidity(t) ==
    LET v == validity[tx[t].on] IN
    /\ tx[t].step = "checked"
    /\ tx' = [tx EXCEPT ![t] =
          IF \A d \in decisions[tx[t].on] : d.actor # tx[t].actor
          THEN [tx[t] EXCEPT !.step = "read", !.satisfiedQuorum = v.satisfiedQuorum,
                             !.lastDecisionSequence = v.lastDecisionSequence]
          ELSE Idle]
    /\ UNCHANGED <<request, validity, decisions, active, overdue, rowLock>>

\* The row lock is free, or this UPDATE waits for it.
CasMatches(x, row) == row.revision = x.revision /\ row.status = Ready

\* UPDATE approval_requests ... WHERE revision and status, shared by decide, cancel and expire:
\* no row means STALE_REVISION (or, for expireIfDue, nothing to do), and the transaction ends.
CasRequest(t) ==
    LET r == tx[t].on IN
    /\ tx[t].step = "read"
    /\ rowLock[r] = Nobody
    /\ IF CasMatches(tx[t], request[r])
       THEN /\ rowLock' = [rowLock EXCEPT ![r] = t]
            /\ tx' = [tx EXCEPT ![t] = [tx[t] EXCEPT !.step = "locked"]]
       ELSE /\ UNCHANGED rowLock
            /\ tx' = [tx EXCEPT ![t] = Idle]
    /\ UNCHANGED <<request, validity, decisions, active, overdue>>

\* Slip: every decision counts towards the quorum.
DecidedQuorumAlways(x) == x.satisfiedQuorum + 1

\* Reject is terminal and leaves the quorum alone; approve counts, and the last one is final.
DecidedQuorum(x) ==
    IF x.decision = "reject" THEN x.satisfiedQuorum ELSE x.satisfiedQuorum + 1
Final(x, q) == DecidedQuorum(x) >= q
DecidedStatus(x, q) ==
    IF x.decision = "reject" THEN "rejected" ELSE IF Final(x, q) THEN "approved" ELSE Ready
DecidedState(x, q) ==
    IF x.decision = "reject" THEN "invalid" ELSE IF Final(x, q) THEN "valid" ELSE "pending"

DecidedRequest(x) ==
    [request[x.on] EXCEPT !.status = DecidedStatus(x, request[x.on].requiredQuorum),
                          !.revision = x.revision + 1]
DecidedValidity(x) ==
    [state |-> DecidedState(x, request[x.on].requiredQuorum),
     requestRevision |-> x.revision + 1,
     satisfiedQuorum |-> DecidedQuorum(x),
     lastDecisionSequence |-> x.lastDecisionSequence + 1]
Decision(x) ==
    [sequence |-> x.lastDecisionSequence + 1, requestRevision |-> x.revision + 1,
     actor |-> x.actor, decision |-> x.decision]

\* Would the triggers accept every write of this decision?
DecisionAccepted(x) ==
    /\ StatusEdge(request[x.on].status, DecidedRequest(x).status)
    /\ DecisionGuard(DecidedRequest(x), decisions[x.on], Decision(x))
    /\ ValidityGuard(DecidedRequest(x), validity[x.on], DecidedValidity(x))

\* INSERT the decision, UPDATE the projection, audit, outbox, commit.  The validity row is locked
\* only within this step; another session's UPDATE of it happens before or after.
DecideCommit(t) ==
    LET x == tx[t] IN
    /\ x.step = "locked" /\ x.op = "decide"
    /\ DecisionAccepted(x)
    /\ request' = [request EXCEPT ![x.on] = DecidedRequest(x)]
    /\ validity' = [validity EXCEPT ![x.on] = DecidedValidity(x)]
    /\ decisions' = [decisions EXCEPT ![x.on] = @ \cup {Decision(x)}]
    /\ rowLock' = [rowLock EXCEPT ![x.on] = Nobody]
    /\ tx' = [tx EXCEPT ![t] = Idle]
    /\ UNCHANGED <<active, overdue>>

-----------------------------------------------------------------------------
(* cancelApprovalRequest and expireIfDue *)

\* SELECT the request: cancel refuses a terminal one, expireIfDue returns it unless it is due.
CloseRead(t, r, op) ==
    /\ tx[t].step = "idle"
    /\ request[r].status = Ready
    /\ op = "expired" => r \in overdue
    /\ tx' = [tx EXCEPT ![t] = [Idle EXCEPT !.step = "read", !.op = op, !.on = r,
                                            !.revision = request[r].revision]]
    /\ UNCHANGED <<request, validity, decisions, active, overdue, rowLock>>

ClosedRequest(x) == [request[x.on] EXCEPT !.status = x.op, !.revision = x.revision + 1]
\* Slip (or repair): closing leaves a projection that is already dead as it is.
ClosedValidityKeepsDead(x) ==
    [validity[x.on] EXCEPT !.state = IF @ \in DeadStates THEN @
                                     ELSE IF x.op = "cancelled" THEN "invalid" ELSE "expired",
                           !.requestRevision = x.revision + 1]
\* Slip: closing advances the projection's revision and forgets its state.
ClosedValidityStillPending(x) == [validity[x.on] EXCEPT !.requestRevision = x.revision + 1]
ClosedValidity(x) ==
    [validity[x.on] EXCEPT !.state = (IF x.op = "cancelled" THEN "invalid" ELSE "expired"),
                           !.requestRevision = x.revision + 1]
CloseAccepted(x) ==
    /\ StatusEdge(request[x.on].status, ClosedRequest(x).status)
    /\ ValidityGuard(ClosedRequest(x), validity[x.on], ClosedValidity(x))

\* After the CAS: UPDATE the projection and commit.
CloseCommit(t) ==
    LET x == tx[t] IN
    /\ x.step = "locked" /\ x.op \in {"cancelled", "expired"}
    /\ CloseAccepted(x)
    /\ request' = [request EXCEPT ![x.on] = ClosedRequest(x)]
    /\ validity' = [validity EXCEPT ![x.on] = ClosedValidity(x)]
    /\ rowLock' = [rowLock EXCEPT ![x.on] = Nobody]
    /\ tx' = [tx EXCEPT ![t] = Idle]
    /\ UNCHANGED <<decisions, active, overdue>>

-----------------------------------------------------------------------------
(* markValidityStale and revokeValidity write the projection only *)

\* SELECT the projection and check its state.
ProjectionRead(t, r, op) ==
    /\ tx[t].step = "idle"
    /\ validity[r].state \in (IF op = "stale" THEN {"pending", "valid"} ELSE {"valid"})
    /\ tx' = [tx EXCEPT ![t] = [Idle EXCEPT !.step = "projection", !.op = op, !.on = r,
                                            !.state = validity[r].state]]
    /\ UNCHANGED <<request, validity, decisions, active, overdue, rowLock>>

\* UPDATE approval_current_validity ... WHERE state is still the one read, commit.
ProjectionCas(t) ==
    LET x == tx[t]
        new == [validity[x.on] EXCEPT !.state = x.op]
    IN
    /\ x.step = "projection"
    /\ IF /\ validity[x.on].state = x.state
          /\ ValidityGuard(request[x.on], validity[x.on], new)
       THEN validity' = [validity EXCEPT ![x.on] = new]
       ELSE UNCHANGED validity
    /\ tx' = [tx EXCEPT ![t] = Idle]
    /\ UNCHANGED <<request, decisions, active, overdue, rowLock>>

-----------------------------------------------------------------------------
(* Failure, and what happens around the kernel *)

\* A trigger, the audit append, the outbox insert, a timeout or a lost connection aborts the
\* transaction: none of its writes was visible, and its lock is released.
Rollback(t) ==
    /\ tx[t].step # "idle"
    /\ rowLock' = [r \in Requests |-> IF rowLock[r] = t THEN Nobody ELSE rowLock[r]]
    /\ tx' = [tx EXCEPT ![t] = Idle]
    /\ UNCHANGED <<request, validity, decisions, active, overdue>>

\* expiresAt passes.
BecomeOverdue(r) ==
    /\ request[r].status # "absent"
    /\ overdue' = overdue \cup {r}
    /\ UNCHANGED <<request, validity, decisions, active, rowLock, tx>>

\* An assignment is revoked, suspended or expires.
RoleLapse(a) ==
    /\ a \in active
    /\ active' = active \ {a}
    /\ UNCHANGED <<request, validity, decisions, overdue, rowLock, tx>>

-----------------------------------------------------------------------------
TxStep(t) ==
    \/ DecideReadRequest(t)
    \/ DecideReadValidity(t)
    \/ CasRequest(t)
    \/ DecideCommit(t)
    \/ CloseCommit(t)
    \/ ProjectionCas(t)
    \/ Rollback(t)

Call(t, r) ==
    \/ \E a \in Assignments, d \in DECISION_VALUES : DecideBegin(t, r, a, d)
    \/ \E op \in {"cancelled", "expired"} : CloseRead(t, r, op)
    \/ \E op \in {"stale", "revoked"} : ProjectionRead(t, r, op)

Next ==
    \/ \E r \in Requests, a \in Assignments, b \in Bindings, q \in 1..MaxQuorum :
          submitApprovalRequest(r, a, b, q)
    \/ \E t \in Txs, r \in Requests : Call(t, r)
    \/ \E t \in Txs : TxStep(t)
    \/ \E r \in Requests : BecomeOverdue(r)
    \/ \E a \in Assignments : RoleLapse(a)

Spec == Init /\ [][Next]_vars
-----------------------------------------------------------------------------
(* Properties *)

Approvals(r) == {d \in decisions[r] : d.decision = "approve"}
Voters(r) == {d.actor : d \in Approvals(r)}

\* Every row and every transaction has its declared shape.
TypeOK ==
    /\ request \in [Requests -> RequestRow]
    /\ validity \in [Requests -> ValidityRow]
    /\ decisions \in [Requests -> SUBSET DecisionRow]
    /\ active \subseteq Assignments
    /\ overdue \subseteq Requests
    /\ rowLock \in [Requests -> Txs \cup {Nobody}]
    /\ tx \in [Txs -> Transaction]

\* The projection is a summary of the decision history: decide computes its counters from a SELECT
\* made before it holds any lock, and writes them unconditionally, yet no decision is lost or
\* counted twice, the sequence has no gap and the two revisions move in lockstep.
ProjectionAgreesWithHistory ==
    \A r \in Requests :
        /\ validity[r].requestRevision = request[r].revision
        /\ validity[r].satisfiedQuorum = Cardinality(Approvals(r))
        /\ validity[r].lastDecisionSequence = Cardinality(decisions[r])
        /\ {d.sequence : d \in decisions[r]} = 1..Cardinality(decisions[r])

\* An approved request was approved by exactly its quorum of different assignments, none of them
\* its requester's, and nobody rejected it; a usable projection belongs to an approved request.
QuorumOfDistinctApprovers ==
    \A r \in Requests :
        /\ request[r].status = "approved" =>
              /\ Cardinality(Voters(r)) = request[r].requiredQuorum
              /\ request[r].requestedBy \notin Voters(r)
              /\ Approvals(r) = decisions[r]
        /\ validity[r].state = "valid" => request[r].status = "approved"

\* Two sessions never leave two open requests for one binding, and a request that is still open has
\* neither a rejection nor a full quorum among its decisions.
OpenRequestsAreUndecided ==
    /\ \A r, s \in Requests : /\ request[r].status = Ready /\ request[s].status = Ready
                              /\ request[r].binding = request[s].binding
                              => r = s
    /\ \A r \in Requests : request[r].status = Ready =>
          /\ Approvals(r) = decisions[r]
          /\ Cardinality(decisions[r]) < request[r].requiredQuorum

\* Nothing that ended comes back: a dead projection keeps its state, a terminal request its status
\* and revision, and recorded decisions are never dropped or rewritten.
NoResurrection ==
    [][\A r \in Requests :
          /\ validity[r].state \in DeadStates => validity'[r].state = validity[r].state
          /\ request[r].status \in TERMINAL_REQUEST_STATUSES =>
                request'[r].status = request[r].status /\ request'[r].revision = request[r].revision
          /\ decisions[r] \subseteq decisions'[r]]_vars

\* Once markValidityStale hits an undecided request, the request stays open for good: decide, cancel
\* and expire pass their CAS and are then refused by the validity guard.
StaleRequestNeverCloses ==
    [][\A r \in Requests :
          request[r].status = Ready /\ validity[r].state = "stale" =>
             request'[r].status = Ready /\ validity'[r].state = "stale"]_vars

\* The kernel implements the atomic approval specification.
Abstract == INSTANCE Approval WITH
    phase <- [r \in Requests |-> IF request[r].status = Ready THEN "open" ELSE request[r].status],
    standing <- [r \in Requests |-> IF validity[r].state \in DeadStates THEN "dead"
                                    ELSE validity[r].state],
    quorum <- [r \in Requests |-> request[r].requiredQuorum],
    requester <- [r \in Requests |-> {request[r].requestedBy} \ {Nobody}],
    votes <- [r \in Requests |-> Voters(r)]
ImplementsApproval == Abstract!Spec

\* What the release gate makes of a request and its projection.
GateStanding(r) ==
    IF request[r].status # "approved" THEN "open"
    ELSE IF validity[r].state = "valid" THEN "approved" ELSE "withdrawn"

\* To the gate the kernel is an ApprovalStanding, which ExternalRelease is built on.
Gate == INSTANCE ApprovalStanding WITH standing <- [r \in Requests |-> GateStanding(r)]
ImplementsStanding == Gate!Spec

-----------------------------------------------------------------------------
(* What a comment of the kernel says, and the interleavings above do not keep *)

\* "a concurrently revoked role/session can never be used to decide": a decision is recorded only
\* while its actor's assignment is active.
RevokedRoleNeverDecides ==
    [][\A r \in Requests : \A d \in decisions'[r] \ decisions[r] : d.actor \in active]_vars
-----------------------------------------------------------------------------
(* The inductive invariant behind the theorems of ApprovalProofs *)

\* What a transaction carries at each of its steps.
ShapeOf(x) ==
    /\ x.step # "idle" => x.on \in Requests
    /\ x.step \in {"resolved", "checked"} => x.op = "decide"
    /\ x.step \in {"read", "locked"} => x.op \in {"decide", "cancelled", "expired"}
    /\ x.step = "projection" => x.op \in {"stale", "revoked"}
    /\ x.op = "decide" => x.actor \in Assignments
TxShape == \A t \in Txs : ShapeOf(tx[t])

\* A row lock and the transaction that holds it agree, and a locked row does not move: only its
\* holder changes status, revision and decisions.
LocksAgree ==
    /\ \A t \in Txs : tx[t].step = "locked" => /\ rowLock[tx[t].on] = t
                                               /\ CasMatches(tx[t], request[tx[t].on])
    /\ \A r \in Requests : rowLock[r] # Nobody => /\ tx[rowLock[r]].step = "locked"
                                                  /\ tx[rowLock[r]].on = r

\* What a transaction read is never ahead of the row, and its copy of the counters is exact as long
\* as the row still has the revision it read.  This is why the CAS on the revision suffices.
ExactOrStale(x) ==
    /\ x.step \in {"checked", "read", "locked"} =>
          /\ request[x.on].status # "absent"
          /\ x.revision <= request[x.on].revision
          /\ x.op = "decide" => x.actor # request[x.on].requestedBy
    /\ /\ x.step \in {"read", "locked"} /\ x.op = "decide"
       /\ x.revision = request[x.on].revision
       => /\ x.satisfiedQuorum = validity[x.on].satisfiedQuorum
          /\ x.lastDecisionSequence = validity[x.on].lastDecisionSequence
ReadsAreExactOrStale == \A t \in Txs : ExactOrStale(tx[t])

\* How far a request has come, its decisions and its projection agree.
RowsAgree ==
    \A r \in Requests :
        /\ IsFiniteSet(decisions[r]) /\ IsFiniteSet(Voters(r))
        /\ Cardinality(Voters(r)) = Cardinality(Approvals(r))
        /\ \A d \in decisions[r] : d.actor # request[r].requestedBy
        /\ request[r].status = "absent" =>
              request[r] = NoRequest /\ validity[r] = NoValidity /\ decisions[r] = {}
        /\ request[r].status # "absent" =>
              /\ request[r].requiredQuorum >= 1 /\ request[r].requestedBy \in Assignments
              /\ validity[r].state # "absent"
        /\ request[r].status = Ready =>
              /\ Approvals(r) = decisions[r]
              /\ Cardinality(decisions[r]) < request[r].requiredQuorum
              /\ validity[r].state \in {"pending", "stale"}
        /\ request[r].status = "approved" =>
              /\ Approvals(r) = decisions[r]
              /\ Cardinality(decisions[r]) = request[r].requiredQuorum
        /\ validity[r].state = "pending" => request[r].status = Ready
        /\ validity[r].state = "valid" => request[r].status = "approved"

\* Two open requests never share a binding.
BindingsAreExclusive ==
    \A r, s \in Requests : /\ request[r].status = Ready /\ request[s].status = Ready
                           /\ request[r].binding = request[s].binding
                           => r = s

KernelInv ==
    /\ TypeOK
    /\ TxShape
    /\ LocksAgree
    /\ ReadsAreExactOrStale
    /\ ProjectionAgreesWithHistory
    /\ RowsAgree
    /\ BindingsAreExclusive
=============================================================================
