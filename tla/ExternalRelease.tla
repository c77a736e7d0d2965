--------------------------- MODULE ExternalRelease ----------------------------
(***************************************************************************)
(* Releasing an external action: issueExternalActionRelease and            *)
(* consumeExternalActionRelease                                            *)
(* (packages/business/src/governance/external-action-release.ts), the gate *)
(* both evaluate (artifact-release.ts), and what moves under them: new     *)
(* versions of the artifact (artifact-service.ts), decisions of the        *)
(* approval kernel, and time.                                              *)
(*                                                                         *)
(* Each call is a transaction at READ COMMITTED: every read sees what is   *)
(* committed when it is made.  Its rows go into the audit chain of the     *)
(* project, whose advisory lock it takes at its first append and keeps to  *)
(* its end; AuditChain models that append statement by statement.  The     *)
(* writers of versions and decisions append to the same chain, so none of  *)
(* them commits while a call holds the lock.                               *)
(*                                                                         *)
(* A receipt is a bearer token: once handed out it may be presented any    *)
(* number of times, by several sessions, or late.  Answers may be lost.    *)
(*                                                                         *)
(* Left out: signature, scope and hashes of a receipt (one that does not   *)
(* verify is refused before anything is read), the caller's role and the   *)
(* actor's assignment (a refusal is a Rollback), the policy hash and the   *)
(* revision of the approval (an approved request keeps both), and the      *)
(* nonce, which is fresh exactly when the jti is.                          *)
(***************************************************************************)
EXTENDS Integers

CONSTANTS
    Keys,       \* idempotency keys of the clients
    Approvals,  \* approval requests, each for one version of the artifact
    VersionOf,  \* the version an approval names
    Receipts,   \* jti values
    Txs,        \* database sessions
    MaxVersion, \* bound on the versions of the artifact
    None        \* no approval, no receipt, no key, no holder

ASSUME ReleaseConstants ==
    /\ VersionOf \in [Approvals -> 1..MaxVersion]
    /\ MaxVersion \in Nat \ {0}
    /\ None \notin Keys /\ None \notin Approvals /\ None \notin Receipts /\ None \notin Txs

VARIABLES
    current,    \* artifact.currentRevision, the number of the current version
    standing,   \* status and projection of each approval
    overdue,    \* approvals whose expiresAt has passed
    inForce,    \* history: approvals that were releasable at some moment
    issued,     \* audit rows external-action.issue:K
    lapsed,     \* receipts whose exp has passed
    claimed,    \* audit rows external-action.consume:KIND:VALUE
    handed,     \* receipts that reached a client, with the input it asked for
    acts,       \* answers by which an executor was told to act, for each key
    lock,       \* holder of the advisory lock of the audit chain
    tx          \* the open transaction of each session

world == <<current, standing, overdue, inForce>>
ledger == <<issued, lapsed, claimed, handed, acts>>
vars == <<current, standing, overdue, inForce, issued, lapsed, claimed, handed, acts, lock, tx>>

Standings == {"open", "approved", "withdrawn"}
Steps == {"idle", "begun", "gated", "released", "waiting", "locked"}
Ops == {"none", "issue", "consume"}

Record == [approval : Approvals \cup {None}, jti : Receipts \cup {None}]
NoRecord == [approval |-> None, jti |-> None]
Receipt == [key : Keys, approval : Approvals, jti : Receipts]
Handle == ({"jti"} \X Receipts) \cup ({"idempotency"} \X Keys)

Transaction == [step : Steps, op : Ops, key : Keys \cup {None},
                approval : Approvals \cup {None}, jti : Receipts \cup {None}]
Idle == [step |-> "idle", op |-> "none", key |-> None, approval |-> None, jti |-> None]

Init ==
    /\ current = 1
    /\ standing = [a \in Approvals |-> "open"]
    /\ overdue = {}
    /\ inForce = {}
    /\ issued = [k \in Keys |-> NoRecord]
    /\ lapsed = {}
    /\ claimed = {}
    /\ handed = {}
    /\ acts = [k \in Keys |-> 0]
    /\ lock = None
    /\ tx = [t \in Txs |-> Idle]

-----------------------------------------------------------------------------
(* What moves under a call *)

\* The approvals as the kernel lets them move; ApprovalKernel is shown to move them so.
Kernel == INSTANCE ApprovalStanding WITH Requests <- Approvals

\* createArtifactVersion: a CAS of the current pointer and its audit row, in one commit.
AppendVersion ==
    /\ lock = None
    /\ current < MaxVersion
    /\ current' = current + 1
    /\ UNCHANGED <<standing, overdue, inForce, lock, tx>>
    /\ UNCHANGED ledger

\* The last decision on an open request whose version exists, current or not.  ApprovalKernel models
\* how it comes about; it compares expiresAt with the time at which the decision began, so that an
\* approval may be overdue when it commits.
Approve(a) ==
    /\ lock = None
    /\ VersionOf[a] <= current
    /\ Kernel!Approve(a)
    /\ inForce' = IF VersionOf[a] = current /\ a \notin overdue THEN inForce \cup {a} ELSE inForce
    /\ UNCHANGED <<current, lock, tx>>
    /\ UNCHANGED ledger

\* markValidityStale and revokeValidity move the projection alone and append no audit row.
Withdraw(a) ==
    /\ Kernel!Withdraw(a)
    /\ UNCHANGED <<current, inForce, lock, tx>>
    /\ UNCHANGED ledger

\* expiresAt of a request passes.
BecomeOverdue(a) ==
    /\ Kernel!BecomeOverdue(a)
    /\ UNCHANGED <<current, inForce, lock, tx>>
    /\ UNCHANGED ledger

\* exp of a receipt passes, 60 seconds after it was signed.
Lapse(k) ==
    /\ issued[k] # NoRecord
    /\ lapsed' = lapsed \cup {issued[k].jti}
    /\ UNCHANGED <<issued, claimed, handed, acts, lock, tx>>
    /\ UNCHANGED world

-----------------------------------------------------------------------------
(* The gate, evaluateArtifactRelease *)

Open(t, step, op, k, a, j) ==
    tx' = [tx EXCEPT ![t] = [step |-> step, op |-> op, key |-> k, approval |-> a, jti |-> j]]

\* The call fails or has nothing to write; a transaction that has appended nothing holds no lock.
End(t) == tx' = [tx EXCEPT ![t] = Idle]

VersionIsCurrent(a) == VersionOf[a] = current

\* The version and the current pointer of its artifact.
GateVersion(t) ==
    LET x == tx[t] IN
    /\ x.step = "begun"
    /\ IF VersionIsCurrent(x.approval) THEN Open(t, "gated", x.op, x.key, x.approval, x.jti)
                                       ELSE End(t)
    /\ UNCHANGED <<lock>>
    /\ UNCHANGED world /\ UNCHANGED ledger

\* Slip: a request that is still open passes.
InGoodStandingWhileOpen(a) == standing[a] # "withdrawn" /\ a \notin overdue

InGoodStanding(a) == standing[a] = "approved" /\ a \notin overdue

\* Later, the request and its projection.  (An approved request stays approved, so that reading
\* the two at different moments makes no difference.)  A consuming call then finds the approval's
\* revision and the version's number unchanged and goes on to the audit chain.
GateApproval(t) ==
    LET x == tx[t] IN
    /\ x.step = "gated"
    /\ IF InGoodStanding(x.approval)
       THEN Open(t, IF x.op = "issue" THEN "released" ELSE "waiting",
                 x.op, x.key, x.approval, x.jti)
       ELSE End(t)
    /\ UNCHANGED <<lock>>
    /\ UNCHANGED world /\ UNCHANGED ledger

-----------------------------------------------------------------------------
(* issueExternalActionRelease *)

IssueBegin(t, k, a) ==
    /\ tx[t].step = "idle"
    /\ Open(t, "begun", "issue", k, a, None)
    /\ UNCHANGED <<lock>>
    /\ UNCHANGED world /\ UNCHANGED ledger

\* Slip: exp is not looked at.
VerifiesForEver(j) == TRUE

\* verifyExternalActionReceipt, of a receipt that was signed here.
Verifies(j) == j \notin lapsed

\* A random jti is one that nobody has.
Fresh(j) ==
    /\ \A k \in Keys : issued[k].jti # j
    /\ \A u \in Txs : tx[u].jti # j

\* Slip: the stored input hash is not compared.
SameInputUnchecked(x) == issued[x.key] # NoRecord

SameInput(x) == issued[x.key].approval = x.approval

HandOut(k, a, j) == handed' = handed \cup {[key |-> k, approval |-> a, jti |-> j]}

\* The lookup of an earlier issue: its receipt again if the input is the same and the receipt
\* still verifies, otherwise a refusal; without one, a receipt is signed.
LookUp(t) ==
    LET x == tx[t] IN
    /\ x.step = "released"
    /\ \/ /\ issued[x.key] = NoRecord
          /\ \E j \in Receipts : Fresh(j) /\ Open(t, "waiting", "issue", x.key, x.approval, j)
          /\ UNCHANGED handed
       \/ /\ issued[x.key] # NoRecord
          /\ End(t)
          /\ IF SameInput(x) /\ Verifies(issued[x.key].jti)
             THEN HandOut(x.key, x.approval, issued[x.key].jti) \/ UNCHANGED handed
             ELSE UNCHANGED handed
    /\ UNCHANGED <<issued, lapsed, claimed, acts, lock>>
    /\ UNCHANGED world

-----------------------------------------------------------------------------
(* consumeExternalActionRelease *)

\* Whoever presents a receipt that still verifies.
ConsumeBegin(t, r) ==
    /\ tx[t].step = "idle"
    /\ r \in handed /\ Verifies(r.jti)
    /\ Open(t, "begun", "consume", r.key, r.approval, r.jti)
    /\ UNCHANGED <<lock>>
    /\ UNCHANGED world /\ UNCHANGED ledger

-----------------------------------------------------------------------------
(* The audit rows of either call *)

\* Slip: the keys of the audit rows do not say which kind of value they claim.
HandlesWithoutKind(x) == {x.jti, x.key}

Handles(x) == {<<"jti", x.jti>>, <<"idempotency", x.key>>}

\* Slip: an append that finds its key returns the row, and nobody looks at that.
KeysAreFreeAssumed(x) == TRUE

\* appended.idempotent of the append: the key is taken by a committed row.
KeysAreFree(x) ==
    IF x.op = "issue" THEN issued[x.key] = NoRecord ELSE Handles(x) \cap claimed = {}

\* pg_advisory_xact_lock, then the appends; a taken key fails the call and gives the lock back.
AppendAudit(t) ==
    LET x == tx[t] IN
    /\ x.step = "waiting"
    /\ lock = None
    /\ IF KeysAreFree(x)
       THEN lock' = t /\ Open(t, "locked", x.op, x.key, x.approval, x.jti)
       ELSE UNCHANGED lock /\ End(t)
    /\ UNCHANGED world /\ UNCHANGED ledger

\* COMMIT makes the rows visible and gives the lock back; the answer may be lost afterwards.
CommitIssue(t) ==
    LET x == tx[t] IN
    /\ x.step = "locked" /\ x.op = "issue"
    /\ issued' = [issued EXCEPT ![x.key] = [approval |-> x.approval, jti |-> x.jti]]
    /\ HandOut(x.key, x.approval, x.jti) \/ UNCHANGED handed
    /\ lock' = None
    /\ End(t)
    /\ UNCHANGED <<lapsed, claimed, acts>>
    /\ UNCHANGED world

CommitConsume(t) ==
    LET x == tx[t] IN
    /\ x.step = "locked" /\ x.op = "consume"
    /\ claimed' = claimed \cup Handles(x)
    /\ \/ acts' = [acts EXCEPT ![x.key] = @ + 1]
       \/ UNCHANGED acts
    /\ lock' = None
    /\ End(t)
    /\ UNCHANGED <<issued, lapsed, handed>>
    /\ UNCHANGED world

\* Slip: the lock belongs to the session and outlives the transaction.
LockKept(t) == lock

LockAfter(t) == IF lock = t THEN None ELSE lock

\* A denied role, a failed statement, a timeout or a lost connection.
Rollback(t) ==
    /\ tx[t].step # "idle"
    /\ lock' = LockAfter(t)
    /\ End(t)
    /\ UNCHANGED world /\ UNCHANGED ledger

-----------------------------------------------------------------------------
Proceeds(t) ==
    \/ GateVersion(t)
    \/ GateApproval(t)
    \/ LookUp(t)
    \/ AppendAudit(t)
    \/ CommitIssue(t)
    \/ CommitConsume(t)

Begin(t) ==
    \/ \E k \in Keys, a \in Approvals : IssueBegin(t, k, a)
    \/ \E r \in handed : ConsumeBegin(t, r)

Environment ==
    \/ AppendVersion
    \/ \E a \in Approvals : Approve(a) \/ Withdraw(a) \/ BecomeOverdue(a)
    \/ \E k \in Keys : Lapse(k)

Next ==
    \/ Environment
    \/ \E t \in Txs : Begin(t) \/ Proceeds(t) \/ Rollback(t)

\* A statement that can run is run, and a waiter for the advisory lock gets its turn.
Fairness == \A t \in Txs : SF_vars(Proceeds(t))

Spec == Init /\ [][Next]_vars
FairSpec == Spec /\ Fairness
-----------------------------------------------------------------------------
(* Properties *)

\* Rows, receipts, the lock and open calls have their declared shape.
TypeOK ==
    /\ current \in 1..MaxVersion
    /\ standing \in [Approvals -> Standings]
    /\ overdue \subseteq Approvals
    /\ inForce \subseteq Approvals
    /\ issued \in [Keys -> Record]
    /\ lapsed \subseteq Receipts
    /\ claimed \subseteq Handle
    /\ handed \subseteq Receipt
    /\ acts \in [Keys -> Nat]
    /\ lock \in Txs \cup {None}
    /\ tx \in [Txs -> Transaction]

Spent(k) == <<"idempotency", k>> \in claimed

\* Whatever the races, retries and lost answers of issuing, the receipts that clients hold for a key
\* are one receipt: the one on record, for the input its holder asked for.
HandedReceiptsAreOnRecord ==
    \A r \in handed : issued[r.key] = [approval |-> r.approval, jti |-> r.jti]

\* However often and by however many sessions its receipt is presented, an executor is told to act
\* at most once for a key, and only if the key's consumption is on record.
ActsAtMostOnce == \A k \in Keys : acts[k] <= 1 /\ (acts[k] = 1 => Spent(k))

\* What is spent was releasable at some moment: its approval was approved, and neither withdrawn nor
\* overdue, while its version was the current one.  Neither gate reads the two together; the order
\* of the reads of the two gates makes it so.
SpentWasInForce == \A k \in Keys : Spent(k) => issued[k].approval \in inForce

\* A granted key whose receipt has lapsed unspent, with no consumption of it under way.
Dead(k) ==
    /\ issued[k] # NoRecord /\ issued[k].jti \in lapsed
    /\ ~ Spent(k)
    /\ \A t \in Txs : tx[t].op = "consume" => tx[t].key # k

\* Nothing revives such a key: no retry, no other session and no late answer gets a receipt for it
\* again, and its action is never released.  A client that has missed the minute needs another key.
DeadKeysStayDead ==
    [][\A k \in Keys : Dead(k) => Dead(k)' /\ \A r \in handed' \ handed : r.key # k]_vars

\* Every call of the release authority ends: the chain's lock is never left behind.
EveryCallEnds == \A t \in Txs : (tx[t].step # "idle") ~> (tx[t].step = "idle")

\* The two calls implement the release of an external action as one decision.
Abstract == INSTANCE ReleaseOnce WITH
    granted <- [k \in Keys |-> issued[k].approval],
    spent <- {k \in Keys : Spent(k)}
ImplementsReleaseOnce == Abstract!Spec
-----------------------------------------------------------------------------
(* The inductive invariant behind the theorems of ExternalReleaseProofs *)

\* An approval that has left "open" names an existing version, and was in force if that version is
\* still the current one.
Kept(a) ==
    /\ standing[a] # "open"
    /\ VersionOf[a] <= current
    /\ VersionOf[a] = current => a \in inForce

\* So it is with every approval that did not come too late.
InForceIsKept == \A a \in Approvals : standing[a] # "open" => a \in overdue \/ Kept(a)

\* What a call carries.  A consuming call has a receipt that was handed out, and once past the first
\* read of its gate, one whose approval has been in force; an issuing call past its gate has an
\* approval that did not come too late.
CallIsSound(x) ==
    /\ x.step # "idle" => x.op \in {"issue", "consume"} /\ x.key \in Keys /\ x.approval \in Approvals
    /\ x.step # "idle" /\ x.op = "consume" =>
          /\ [key |-> x.key, approval |-> x.approval, jti |-> x.jti] \in handed
          /\ x.step # "released"
          /\ x.step # "begun" => x.approval \in inForce
    /\ x.step \in {"released", "waiting", "locked"} /\ x.op = "issue" =>
          Kept(x.approval)
    /\ x.step \in {"waiting", "locked"} => x.jti \in Receipts
    /\ x.step = "locked" => KeysAreFree(x)
CallsAreSound == \A t \in Txs : CallIsSound(tx[t])

\* The lock belongs to the one call that has appended.
LockAgrees == \A t \in Txs : tx[t].step = "locked" <=> lock = t

\* What is on record was approved, and only what is on record is spent.
RecordsAreSound ==
    \A k \in Keys :
        /\ issued[k] # NoRecord => /\ issued[k].approval \in Approvals /\ issued[k].jti \in Receipts
                                   /\ Kept(issued[k].approval)
        /\ Spent(k) => issued[k] # NoRecord

ReleaseInv ==
    /\ TypeOK
    /\ CallsAreSound
    /\ LockAgrees
    /\ InForceIsKept
    /\ RecordsAreSound
    /\ HandedReceiptsAreOnRecord
    /\ SpentWasInForce
    /\ ActsAtMostOnce
=============================================================================
