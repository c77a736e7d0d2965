------------------------ MODULE ExternalReleaseProofs -------------------------
(***************************************************************************)
(* Proofs about ExternalRelease for every set of keys, approvals, receipts *)
(* and sessions and any number of versions.                                *)
(***************************************************************************)
EXTENDS ExternalRelease, TLAPS

\* What the constants give: the marker None is none of the things it stands in for.
LEMMA NoneIsNothing ==
    /\ None \notin Keys /\ None \notin Approvals /\ None \notin Receipts /\ None \notin Txs
    /\ VersionOf \in [Approvals -> 1..MaxVersion] /\ MaxVersion \in Nat \ {0}
BY ReleaseConstants

LEMMA InvInit == Init => ReleaseInv
<1> SUFFICES ASSUME Init PROVE ReleaseInv
  OBVIOUS
<1> USE NoneIsNothing
<1>1. TypeOK
  BY DEF Init, TypeOK, Standings, Record, NoRecord, Transaction, Idle, Steps, Ops
<1>2. CallsAreSound
  BY DEF Init, CallsAreSound, CallIsSound, Idle
<1>3. LockAgrees
  BY DEF Init, LockAgrees, Idle
<1>4. InForceIsKept
  BY DEF Init, InForceIsKept
<1>5. RecordsAreSound /\ SpentWasInForce /\ HandedReceiptsAreOnRecord /\ ActsAtMostOnce
  BY DEF Init, RecordsAreSound, Kept, SpentWasInForce, HandedReceiptsAreOnRecord, ActsAtMostOnce, Spent
<1> QED
  BY <1>1, <1>2, <1>3, <1>4, <1>5 DEF ReleaseInv

-----------------------------------------------------------------------------
(* The world and the sessions move apart *)

\* An approval that was in force in its time stays one, whatever the world does.
LEMMA KeptStays ==
    ASSUME ReleaseInv, NEW a \in Approvals, Kept(a),
           \/ AppendVersion
           \/ \E b \in Approvals : Approve(b) \/ Withdraw(b) \/ BecomeOverdue(b)
    PROVE  Kept(a)'
<1> USE NoneIsNothing
<1>1. standing'[a] # "open" /\ inForce \subseteq inForce'
  BY DEF AppendVersion, Approve, Withdraw, BecomeOverdue,
         Kernel!Approve, Kernel!Withdraw, Kernel!BecomeOverdue, ReleaseInv, TypeOK, Kept
<1>2. current' = current \/ current' = current + 1
  BY DEF AppendVersion, Approve, Withdraw, BecomeOverdue,
         Kernel!Approve, Kernel!Withdraw, Kernel!BecomeOverdue
<1>3. VersionOf[a] \in Nat /\ current \in Nat
  BY DEF ReleaseInv, TypeOK
<1> QED
  BY <1>1, <1>2, <1>3 DEF Kept

\* The world moves on under the calls: approvals leave "open" and never come back, and what was in
\* force stays so.
LEMMA WorldMoves ==
    ASSUME ReleaseInv,
           \/ AppendVersion
           \/ \E a \in Approvals : Approve(a) \/ Withdraw(a) \/ BecomeOverdue(a)
    PROVE  ReleaseInv'
<1> USE NoneIsNothing
<1>1. /\ UNCHANGED <<issued, lapsed, claimed, handed, acts, lock, tx>>
      /\ inForce \subseteq inForce'
  BY DEF AppendVersion, Approve, Withdraw, BecomeOverdue,
         Kernel!Approve, Kernel!Withdraw, Kernel!BecomeOverdue, ledger, ReleaseInv, TypeOK
<1>2. TypeOK'
  BY DEF ReleaseInv, TypeOK, AppendVersion, Approve, Withdraw, BecomeOverdue, Kernel!Approve,
         Kernel!Withdraw, Kernel!BecomeOverdue, ledger, Standings
<1>3. CallsAreSound'
  <2> SUFFICES ASSUME NEW u \in Txs PROVE CallIsSound(tx[u])'
    BY DEF CallsAreSound
  <2>1. PICK x : x = tx[u] /\ tx'[u] = x
    BY <1>1
  <2>2. CallIsSound(x) /\ (Kept(x.approval) /\ x.step # "idle" => Kept(x.approval)')
    BY <2>1, KeptStays DEF ReleaseInv, CallsAreSound, CallIsSound
  <2> QED
    BY <1>1, <2>1, <2>2 DEF CallIsSound, Kept, KeysAreFree, Handles
<1>4. LockAgrees'
  BY <1>1 DEF ReleaseInv, LockAgrees
<1>5. InForceIsKept'
  <2>1. ASSUME NEW a \in Approvals, standing'[a] # "open", standing[a] # "open"
        PROVE  a \in overdue' \/ Kept(a)'
    <3>1. a \in overdue \/ Kept(a)
      BY <2>1 DEF ReleaseInv, InForceIsKept
    <3>2. overdue \subseteq overdue'
      BY DEF AppendVersion, Approve, Withdraw, BecomeOverdue,
         Kernel!Approve, Kernel!Withdraw, Kernel!BecomeOverdue
    <3> QED
      BY <3>1, <3>2, KeptStays
  <2>2. ASSUME NEW a \in Approvals, standing'[a] # "open", standing[a] = "open"
        PROVE  a \in overdue' \/ Kept(a)'
    <3>1. Approve(a)
      BY <2>2 DEF AppendVersion, Approve, Withdraw, BecomeOverdue,
         Kernel!Approve, Kernel!Withdraw, Kernel!BecomeOverdue, ReleaseInv, TypeOK
    <3> QED
      BY <2>2, <3>1 DEF Approve, Kernel!Approve, Kept
  <2> QED
    BY <2>1, <2>2 DEF InForceIsKept
<1>6. RecordsAreSound' /\ SpentWasInForce'
  <2>1. RecordsAreSound'
    <3>1. ASSUME NEW k \in Keys, issued[k] # NoRecord
          PROVE  issued[k].approval \in Approvals /\ issued[k].jti \in Receipts /\ Kept(issued[k].approval)'
      <4>1. PICK a \in Approvals : a = issued[k].approval /\ Kept(a) /\ issued'[k].approval = a
        BY <1>1, <3>1 DEF ReleaseInv, RecordsAreSound
      <4>2. Kept(a)'
        BY <4>1, KeptStays
      <4> QED
        BY <3>1, <4>1, <4>2 DEF ReleaseInv, RecordsAreSound, Kept
    <3> QED
      BY <1>1, <3>1 DEF ReleaseInv, RecordsAreSound, Spent
  <2> QED
    BY <1>1, <2>1 DEF ReleaseInv, SpentWasInForce, Spent
<1>7. HandedReceiptsAreOnRecord' /\ ActsAtMostOnce'
  BY <1>1 DEF ReleaseInv, HandedReceiptsAreOnRecord, ActsAtMostOnce, Spent
<1> QED
  BY <1>2, <1>3, <1>4, <1>5, <1>6, <1>7 DEF ReleaseInv

LEMMA LapseInv == ASSUME ReleaseInv, NEW k \in Keys, Lapse(k) PROVE ReleaseInv'
<1>1. UNCHANGED <<current, standing, overdue, inForce, issued, claimed, handed, acts, lock, tx>>
  BY DEF Lapse, world
<1>2. TypeOK'
  BY <1>1 DEF ReleaseInv, TypeOK, Lapse, RecordsAreSound
<1>3. CallsAreSound' /\ LockAgrees' /\ InForceIsKept'
  BY <1>1 DEF ReleaseInv, CallsAreSound, CallIsSound, Kept, KeysAreFree, Handles, LockAgrees, InForceIsKept, Kept
<1>4. RecordsAreSound' /\ SpentWasInForce' /\ HandedReceiptsAreOnRecord' /\ ActsAtMostOnce'
  BY <1>1 DEF ReleaseInv, RecordsAreSound, Kept, SpentWasInForce, HandedReceiptsAreOnRecord,
              ActsAtMostOnce, Spent
<1> QED
  BY <1>2, <1>3, <1>4 DEF ReleaseInv

\* A step of one session that writes no row keeps the invariant if the session's new state is
\* sound and the lock still agrees.
LEMMA CallMoves ==
    ASSUME ReleaseInv, NEW t \in Txs, NEW y \in Transaction,
           tx' = [tx EXCEPT ![t] = y],
           UNCHANGED world, UNCHANGED ledger,
           CallIsSound(y),
           \/ lock' = lock /\ (lock = t <=> y.step = "locked")
           \/ lock' = None /\ lock = t /\ y.step # "locked"
           \/ lock' = t /\ lock = None /\ y.step = "locked"
    PROVE  ReleaseInv'
<1> USE NoneIsNothing
<1>1. /\ UNCHANGED <<current, standing, overdue, inForce, issued, lapsed, claimed, handed, acts>>
      /\ \A u \in Txs : tx'[u] = IF u = t THEN y ELSE tx[u]
  BY DEF world, ledger, ReleaseInv, TypeOK
<1>2. TypeOK'
  BY <1>1 DEF ReleaseInv, TypeOK
<1>3. CallsAreSound'
  <2> SUFFICES ASSUME NEW u \in Txs PROVE CallIsSound(tx[u])'
    BY DEF CallsAreSound
  <2> QED
    BY <1>1 DEF ReleaseInv, CallsAreSound, CallIsSound, Kept, KeysAreFree, Handles
<1>4. LockAgrees'
  BY <1>1 DEF ReleaseInv, LockAgrees
<1>5. InForceIsKept' /\ RecordsAreSound' /\ SpentWasInForce'
  BY <1>1 DEF ReleaseInv, InForceIsKept, RecordsAreSound, Kept, SpentWasInForce, Spent
<1>6. HandedReceiptsAreOnRecord' /\ ActsAtMostOnce'
  BY <1>1 DEF ReleaseInv, HandedReceiptsAreOnRecord, ActsAtMostOnce, Spent
<1> QED
  BY <1>2, <1>3, <1>4, <1>5, <1>6 DEF ReleaseInv

-----------------------------------------------------------------------------
(* The calls *)

LEMMA BeginInv ==
    ASSUME ReleaseInv, NEW t \in Txs, Begin(t)
    PROVE  ReleaseInv'
<1>1. CASE \E k \in Keys, a \in Approvals : IssueBegin(t, k, a)
  <2>1. PICK k \in Keys, a \in Approvals : IssueBegin(t, k, a)
    BY <1>1
  <2>2. PICK y \in Transaction :
           y = [step |-> "begun", op |-> "issue", key |-> k, approval |-> a, jti |-> None]
    BY DEF Transaction, Steps, Ops
  <2>3. CallIsSound(y)
    BY <2>2 DEF CallIsSound
  <2>4. lock # t
    BY <2>1 DEF IssueBegin, ReleaseInv, LockAgrees
  <2> QED
    BY <2>1, <2>2, <2>3, <2>4, CallMoves DEF IssueBegin, Open
<1>2. CASE \E r \in handed : ConsumeBegin(t, r)
  <2>1. PICK r \in handed : ConsumeBegin(t, r)
    BY <1>2
  <2>2. r \in Receipt
    BY DEF ReleaseInv, TypeOK
  <2>3. PICK y \in Transaction :
           y = [step |-> "begun", op |-> "consume", key |-> r.key, approval |-> r.approval,
                jti |-> r.jti]
    BY <2>2 DEF Transaction, Steps, Ops, Receipt
  <2>4. CallIsSound(y)
    BY <2>2, <2>3 DEF CallIsSound, Receipt
  <2>5. lock # t
    BY <2>1 DEF ConsumeBegin, ReleaseInv, LockAgrees
  <2> QED
    BY <2>1, <2>3, <2>4, <2>5, CallMoves DEF ConsumeBegin, Open
<1> QED
  BY <1>1, <1>2 DEF Begin

\* Ending a call writes nothing and leaves nothing locked.
LEMMA EndInv ==
    ASSUME ReleaseInv, NEW t \in Txs, End(t), UNCHANGED world, UNCHANGED ledger,
           \/ lock' = lock /\ lock # t
           \/ lock' = None /\ lock = t
    PROVE  ReleaseInv'
<1>1. PICK y \in Transaction : y = Idle
  BY DEF Transaction, Idle, Steps, Ops
<1>2. CallIsSound(y) /\ y.step # "locked"
  BY <1>1 DEF CallIsSound, Idle
<1> QED
  BY <1>1, <1>2, CallMoves DEF End

LEMMA GateInv ==
    ASSUME ReleaseInv, NEW t \in Txs, GateVersion(t) \/ GateApproval(t)
    PROVE  ReleaseInv'
<1>1. /\ tx[t] \in Transaction /\ CallIsSound(tx[t]) /\ lock # t
      /\ tx[t].step \in {"begun", "gated"}
      /\ UNCHANGED world /\ UNCHANGED ledger /\ UNCHANGED lock
  BY DEF GateVersion, GateApproval, ReleaseInv, TypeOK, CallsAreSound, LockAgrees
<1>2. PICK x : x = tx[t]
  OBVIOUS
<1>3. CASE End(t)
  BY <1>1, <1>3, EndInv
<1>4. CASE GateVersion(t) /\ ~ End(t)
  <2>1. PICK y \in Transaction :
           y = [step |-> "gated", op |-> x.op, key |-> x.key, approval |-> x.approval,
                jti |-> x.jti]
    BY <1>1, <1>2 DEF Transaction, Steps
  <2>2. x.step = "begun" /\ VersionOf[x.approval] = current /\ tx' = [tx EXCEPT ![t] = y]
    BY <1>2, <1>4, <2>1 DEF GateVersion, VersionIsCurrent, Open
  <2>3. ASSUME x.op = "consume" PROVE x.approval \in inForce
    <3>1. /\ [key |-> x.key, approval |-> x.approval, jti |-> x.jti] \in handed
          /\ x.key \in Keys /\ x.approval \in Approvals
      BY <1>1, <1>2, <2>2, <2>3 DEF CallIsSound
    <3>2. issued[x.key] = [approval |-> x.approval, jti |-> x.jti]
      BY <3>1 DEF ReleaseInv, HandedReceiptsAreOnRecord
    <3>3. Kept(x.approval)
      BY <3>1, <3>2, NoneIsNothing DEF ReleaseInv, RecordsAreSound, NoRecord
    <3> QED
      BY <2>2, <3>3 DEF Kept
  <2>4. CallIsSound(y)
    BY <1>1, <1>2, <2>1, <2>2, <2>3 DEF CallIsSound
  <2> QED
    BY <1>1, <2>1, <2>2, <2>4, CallMoves
<1>5. CASE GateApproval(t) /\ ~ End(t)
  <2>1. PICK y \in Transaction :
           y = [step |-> IF x.op = "issue" THEN "released" ELSE "waiting", op |-> x.op,
                key |-> x.key, approval |-> x.approval, jti |-> x.jti]
    BY <1>1, <1>2 DEF Transaction, Steps
  <2>2. /\ x.step = "gated" /\ standing[x.approval] = "approved" /\ x.approval \notin overdue
        /\ tx' = [tx EXCEPT ![t] = y]
    BY <1>2, <1>5, <2>1 DEF GateApproval, InGoodStanding, Open
  <2>3. ASSUME x.op = "consume" PROVE x.jti \in Receipts
    BY <1>1, <1>2, <2>2, <2>3 DEF CallIsSound, ReleaseInv, TypeOK, Receipt
  <2>4. x.approval \in Approvals /\ Kept(x.approval)
    BY <1>1, <1>2, <2>2 DEF CallIsSound, ReleaseInv, InForceIsKept
  <2>5. CallIsSound(y)
    BY <1>1, <1>2, <2>1, <2>2, <2>3, <2>4 DEF CallIsSound
  <2> QED
    BY <1>1, <2>1, <2>2, <2>5, CallMoves
<1> QED
  BY <1>3, <1>4, <1>5

\* Handing the recorded receipt to one more client, whose input is the recorded one.
LEMMA HandOutInv ==
    ASSUME ReleaseInv, NEW k \in Keys, issued[k] # NoRecord,
           UNCHANGED <<current, standing, overdue, inForce, issued, lapsed, claimed, acts>>,
           handed' = handed \cup {[key |-> k, approval |-> issued[k].approval,
                                   jti |-> issued[k].jti]},
           lock' = lock,
           NEW t \in Txs, tx[t].step = "released", tx' = [tx EXCEPT ![t] = Idle]
    PROVE  ReleaseInv'
<1>1. \A u \in Txs : tx'[u] = IF u = t THEN Idle ELSE tx[u]
  BY DEF ReleaseInv, TypeOK
<1>2. TypeOK'
  BY DEF ReleaseInv, TypeOK, RecordsAreSound, Receipt, Transaction, Idle, Steps, Ops
<1>3. CallsAreSound'
  <2> SUFFICES ASSUME NEW u \in Txs PROVE CallIsSound(tx[u])'
    BY DEF CallsAreSound
  <2> QED
    BY <1>1 DEF ReleaseInv, CallsAreSound, CallIsSound, Kept, KeysAreFree, Handles, Idle
<1>4. LockAgrees'
  BY <1>1 DEF ReleaseInv, LockAgrees, Idle
<1>5. InForceIsKept' /\ RecordsAreSound' /\ SpentWasInForce' /\ ActsAtMostOnce'
  BY DEF ReleaseInv, InForceIsKept, RecordsAreSound, Kept, SpentWasInForce, ActsAtMostOnce, Spent
<1>6. HandedReceiptsAreOnRecord'
  <2> SUFFICES ASSUME NEW r \in handed'
               PROVE  issued[r.key] = [approval |-> r.approval, jti |-> r.jti]
    BY DEF HandedReceiptsAreOnRecord
  <2>1. issued[k] = [approval |-> issued[k].approval, jti |-> issued[k].jti]
    BY DEF ReleaseInv, TypeOK, Record
  <2>2. r \in handed
        \/ r = [key |-> k, approval |-> issued[k].approval, jti |-> issued[k].jti]
    OBVIOUS
  <2> QED
    BY <2>1, <2>2 DEF ReleaseInv, HandedReceiptsAreOnRecord
<1> QED
  BY <1>2, <1>3, <1>4, <1>5, <1>6 DEF ReleaseInv

LEMMA LookUpInv == ASSUME ReleaseInv, NEW t \in Txs, LookUp(t) PROVE ReleaseInv'
<1>1. /\ tx[t] \in Transaction /\ CallIsSound(tx[t]) /\ lock # t /\ tx[t].step = "released"
      /\ UNCHANGED world /\ UNCHANGED lock /\ UNCHANGED <<issued, lapsed, claimed, acts>>
  BY DEF LookUp, ReleaseInv, TypeOK, CallsAreSound, LockAgrees
<1>2. PICK x : x = tx[t]
  OBVIOUS
<1>3. /\ x.step = "released" /\ x.op = "issue" /\ x.key \in Keys /\ x.approval \in Approvals
      /\ Kept(x.approval)
  BY <1>1, <1>2 DEF CallIsSound
<1>4. CASE /\ \E j \in Receipts : Open(t, "waiting", "issue", x.key, x.approval, j)
           /\ UNCHANGED handed
  <2>1. PICK j \in Receipts : Open(t, "waiting", "issue", x.key, x.approval, j)
    BY <1>4
  <2>2. PICK y \in Transaction :
           y = [step |-> "waiting", op |-> "issue", key |-> x.key, approval |-> x.approval,
                jti |-> j]
    BY <1>3 DEF Transaction, Steps, Ops
  <2>3. CallIsSound(y)
    BY <1>3, <2>2 DEF CallIsSound
  <2> QED
    BY <1>1, <1>4, <2>1, <2>2, <2>3, CallMoves DEF Open, ledger
<1>5. CASE End(t) /\ UNCHANGED handed
  BY <1>1, <1>5, EndInv DEF ledger
<1>6. CASE /\ End(t) /\ issued[x.key] # NoRecord /\ SameInput(x)
           /\ HandOut(x.key, x.approval, issued[x.key].jti)
  BY <1>1, <1>2, <1>3, <1>6, HandOutInv DEF End, SameInput, HandOut, world
<1> QED
  BY <1>2, <1>4, <1>5, <1>6 DEF LookUp

LEMMA AppendAuditInv == ASSUME ReleaseInv, NEW t \in Txs, AppendAudit(t) PROVE ReleaseInv'
<1>1. /\ tx[t] \in Transaction /\ CallIsSound(tx[t]) /\ lock = None
      /\ tx[t].step = "waiting" /\ UNCHANGED world /\ UNCHANGED ledger
  BY DEF AppendAudit, ReleaseInv, TypeOK, CallsAreSound
<1>2. PICK x : x = tx[t]
  OBVIOUS
<1>3. CASE End(t) /\ UNCHANGED lock
  BY <1>1, <1>3, EndInv, NoneIsNothing
<1>4. CASE KeysAreFree(x) /\ lock' = t /\ Open(t, "locked", x.op, x.key, x.approval, x.jti)
  <2>1. PICK y \in Transaction :
           y = [step |-> "locked", op |-> x.op, key |-> x.key, approval |-> x.approval,
                jti |-> x.jti]
    BY <1>1, <1>2 DEF Transaction, Steps
  <2>2. CallIsSound(y)
    BY <1>1, <1>2, <1>4, <2>1 DEF CallIsSound, Kept, KeysAreFree, Handles
  <2> QED
    BY <1>1, <1>4, <2>1, <2>2, CallMoves DEF Open
<1> QED
  BY <1>2, <1>3, <1>4 DEF AppendAudit

\* What holding the lock gives the committing call: nobody else is past its own appends.
LEMMA AloneWhenLocked ==
    ASSUME ReleaseInv, NEW t \in Txs, tx[t].step = "locked"
    PROVE  lock = t /\ \A u \in Txs \ {t} : tx[u].step # "locked"
BY DEF ReleaseInv, LockAgrees

LEMMA CommitIssueInv == ASSUME ReleaseInv, NEW t \in Txs, CommitIssue(t) PROVE ReleaseInv'
<1>1. PICK x \in Transaction : x = tx[t]
  BY DEF ReleaseInv, TypeOK
<1>2. /\ x.step = "locked" /\ x.op = "issue" /\ CallIsSound(x)
      /\ lock = t /\ \A u \in Txs \ {t} : tx[u].step # "locked"
  BY <1>1, AloneWhenLocked DEF CommitIssue, ReleaseInv, CallsAreSound
<1>3. /\ x.key \in Keys /\ x.approval \in Approvals /\ x.jti \in Receipts
      /\ Kept(x.approval) /\ issued[x.key] = NoRecord
  BY <1>2 DEF CallIsSound, Kept, KeysAreFree
<1>4. /\ issued' = [issued EXCEPT ![x.key] = [approval |-> x.approval, jti |-> x.jti]]
      /\ handed \subseteq handed'
      /\ \A r \in handed' :
            r \in handed \/ r = [key |-> x.key, approval |-> x.approval, jti |-> x.jti]
      /\ lock' = None /\ tx' = [tx EXCEPT ![t] = Idle]
      /\ UNCHANGED <<current, standing, overdue, inForce, lapsed, claimed, acts>>
  BY <1>1 DEF CommitIssue, HandOut, End, world
<1>5. /\ \A k \in Keys : issued'[k] = IF k = x.key THEN [approval |-> x.approval, jti |-> x.jti]
                                      ELSE issued[k]
      /\ \A u \in Txs : tx'[u] = IF u = t THEN Idle ELSE tx[u]
  BY <1>4 DEF ReleaseInv, TypeOK
<1>6. TypeOK'
  <2>1. issued' \in [Keys -> Record] /\ handed' \subseteq Receipt
    BY <1>3, <1>4 DEF ReleaseInv, TypeOK, Record, Receipt
  <2> QED
    BY <1>4, <2>1 DEF ReleaseInv, TypeOK, Transaction, Idle, Steps, Ops
<1>7. CallsAreSound'
  <2> SUFFICES ASSUME NEW u \in Txs PROVE CallIsSound(tx[u])'
    BY DEF CallsAreSound
  <2>1. CASE u = t
    BY <1>5, <2>1 DEF CallIsSound, Idle
  <2>2. CASE u # t
    BY <1>2, <1>4, <1>5, <2>2 DEF ReleaseInv, CallsAreSound, CallIsSound, Kept
  <2> QED
    BY <2>1, <2>2
<1>8. LockAgrees'
  BY <1>2, <1>4, <1>5, NoneIsNothing DEF LockAgrees, Idle
<1>9. RecordsAreSound' /\ SpentWasInForce'
  BY <1>3, <1>4, <1>5, NoneIsNothing
     DEF ReleaseInv, RecordsAreSound, Kept, SpentWasInForce, Spent, NoRecord
<1>10. HandedReceiptsAreOnRecord'
  <2> SUFFICES ASSUME NEW r \in handed'
               PROVE  issued'[r.key] = [approval |-> r.approval, jti |-> r.jti]
    BY DEF HandedReceiptsAreOnRecord
  <2>1. CASE r \in handed
    <3>1. /\ r \in Receipt /\ r.key \in Keys /\ r.approval \in Approvals
          /\ issued[r.key] = [approval |-> r.approval, jti |-> r.jti]
      BY <2>1 DEF ReleaseInv, TypeOK, HandedReceiptsAreOnRecord, Receipt
    <3>2. r.key # x.key
      BY <1>3, <3>1, NoneIsNothing DEF NoRecord
    <3> QED
      BY <1>5, <3>1, <3>2
  <2>2. CASE r = [key |-> x.key, approval |-> x.approval, jti |-> x.jti]
    BY <1>3, <1>5, <2>2
  <2> QED
    BY <1>4, <2>1, <2>2
<1>11. InForceIsKept' /\ ActsAtMostOnce'
  BY <1>4 DEF ReleaseInv, InForceIsKept, Kept, ActsAtMostOnce, Spent
<1> QED
  BY <1>6, <1>7, <1>8, <1>9, <1>10, <1>11 DEF ReleaseInv

LEMMA CommitConsumeInv == ASSUME ReleaseInv, NEW t \in Txs, CommitConsume(t) PROVE ReleaseInv'
<1>1. PICK x \in Transaction : x = tx[t]
  BY DEF ReleaseInv, TypeOK
<1>2. /\ x.step = "locked" /\ x.op = "consume" /\ CallIsSound(x)
      /\ lock = t /\ \A u \in Txs \ {t} : tx[u].step # "locked"
  BY <1>1, AloneWhenLocked DEF CommitConsume, ReleaseInv, CallsAreSound
<1>3. /\ x.key \in Keys /\ x.approval \in Approvals /\ x.jti \in Receipts
      /\ x.approval \in inForce /\ ~ Spent(x.key)
      /\ [key |-> x.key, approval |-> x.approval, jti |-> x.jti] \in handed
  BY <1>2 DEF CallIsSound, Kept, KeysAreFree, Handles, Spent
<1>4. issued[x.key] = [approval |-> x.approval, jti |-> x.jti]
  BY <1>3 DEF ReleaseInv, HandedReceiptsAreOnRecord
<1>5. /\ claimed' = claimed \cup Handles(x)
      /\ acts' = [acts EXCEPT ![x.key] = @ + 1] \/ acts' = acts
      /\ lock' = None /\ tx' = [tx EXCEPT ![t] = Idle]
      /\ UNCHANGED <<current, standing, overdue, inForce, issued, lapsed, handed>>
  BY <1>1 DEF CommitConsume, End, world
<1>6. /\ \A u \in Txs : tx'[u] = IF u = t THEN Idle ELSE tx[u]
      /\ \A k \in Keys : Spent(k)' <=> Spent(k) \/ k = x.key
  BY <1>3, <1>5 DEF ReleaseInv, TypeOK, Spent, Handles
<1>7. TypeOK'
  <2>1. Handles(x) \subseteq Handle
    BY <1>3 DEF Handles, Handle
  <2>2. acts' \in [Keys -> Nat]
    BY <1>3, <1>5 DEF ReleaseInv, TypeOK
  <2> QED
    BY <1>5, <2>1, <2>2 DEF ReleaseInv, TypeOK, Transaction, Idle, Steps, Ops
<1>8. CallsAreSound'
  <2> SUFFICES ASSUME NEW u \in Txs PROVE CallIsSound(tx[u])'
    BY DEF CallsAreSound
  <2>1. CASE u = t
    BY <1>6, <2>1 DEF CallIsSound, Idle
  <2>2. CASE u # t
    BY <1>2, <1>5, <1>6, <2>2 DEF ReleaseInv, CallsAreSound, CallIsSound, Kept
  <2> QED
    BY <2>1, <2>2
<1>9. LockAgrees'
  BY <1>2, <1>5, <1>6, NoneIsNothing DEF LockAgrees, Idle
<1>10. RecordsAreSound' /\ SpentWasInForce'
  BY <1>3, <1>4, <1>5, <1>6, NoneIsNothing DEF ReleaseInv, RecordsAreSound, Kept, SpentWasInForce, NoRecord
<1>11. ActsAtMostOnce'
  <2>1. acts[x.key] = 0 /\ acts \in [Keys -> Nat]
    BY <1>3 DEF ReleaseInv, ActsAtMostOnce, TypeOK
  <2>2. \A k \in Keys : acts'[k] = acts[k] \/ (k = x.key /\ acts'[k] = 1)
    BY <1>3, <1>5, <2>1
  <2> QED
    BY <1>6, <2>2 DEF ReleaseInv, ActsAtMostOnce
<1>12. InForceIsKept' /\ HandedReceiptsAreOnRecord'
  BY <1>5 DEF ReleaseInv, InForceIsKept, Kept, HandedReceiptsAreOnRecord
<1> QED
  BY <1>7, <1>8, <1>9, <1>10, <1>11, <1>12 DEF ReleaseInv

LEMMA RollbackInv == ASSUME ReleaseInv, NEW t \in Txs, Rollback(t) PROVE ReleaseInv'
BY EndInv, NoneIsNothing DEF Rollback, LockAfter

-----------------------------------------------------------------------------
(* The theorems *)

LEMMA InvStep == ReleaseInv /\ [Next]_vars => ReleaseInv'
<1> SUFFICES ASSUME ReleaseInv, [Next]_vars PROVE ReleaseInv'
  OBVIOUS
<1>1. CASE Environment
  BY <1>1, WorldMoves, LapseInv DEF Environment
<1>2. ASSUME NEW t \in Txs, Begin(t) \/ Rollback(t) PROVE ReleaseInv'
  BY <1>2, BeginInv, RollbackInv
<1>3. ASSUME NEW t \in Txs, Proceeds(t) PROVE ReleaseInv'
  BY <1>3, GateInv, LookUpInv, AppendAuditInv, CommitIssueInv, CommitConsumeInv DEF Proceeds
<1>4. CASE UNCHANGED vars
  BY <1>4 DEF vars, ReleaseInv, TypeOK, CallsAreSound, CallIsSound, Kept, KeysAreFree, Handles, LockAgrees,
              InForceIsKept, RecordsAreSound, HandedReceiptsAreOnRecord, SpentWasInForce,
              ActsAtMostOnce, Spent
<1> QED
  BY <1>1, <1>2, <1>3, <1>4 DEF Next

\* ReleaseInv, which ties every call under way to what is on record, holds in every reachable state.
THEOREM ReleaseInvariant == Spec => []ReleaseInv
BY InvInit, InvStep, PTL DEF Spec

\* Rows, receipts and open calls keep their shape, and every claim says which value it claims.
THEOREM TypeCorrect == Spec => []TypeOK
<1>1. ReleaseInv => TypeOK
  BY DEF ReleaseInv
<1> QED
  BY <1>1, ReleaseInvariant, PTL

\* However issuing is raced, retried or left unanswered, the clients of a key hold one receipt.
THEOREM HandedAreRecorded == Spec => []HandedReceiptsAreOnRecord
<1>1. ReleaseInv => HandedReceiptsAreOnRecord
  BY DEF ReleaseInv
<1> QED
  BY <1>1, ReleaseInvariant, PTL

\* However often a receipt is presented, an executor acts at most once for its key.
THEOREM ActsOnce == Spec => []ActsAtMostOnce
<1>1. ReleaseInv => ActsAtMostOnce
  BY DEF ReleaseInv
<1> QED
  BY <1>1, ReleaseInvariant, PTL

\* Two gates that each read version and approval apart make sure that what is spent was in force.
THEOREM SpentInForce == Spec => []SpentWasInForce
<1>1. ReleaseInv => SpentWasInForce
  BY DEF ReleaseInv
<1> QED
  BY <1>1, ReleaseInvariant, PTL

\* The interleaved calls implement the release as one decision for each key.
THEOREM CallsImplementReleaseOnce == Spec => ImplementsReleaseOnce
<1> DEFINE granted == [k \in Keys |-> issued[k].approval]
           spent == {k \in Keys : Spent(k)}
<1>1. Init => Abstract!Init
  BY DEF Init, Abstract!Init, NoRecord, Spent
<1>2. ReleaseInv /\ [Next]_vars => [Abstract!Next]_<<granted, spent, inForce>>
  <2> SUFFICES ASSUME ReleaseInv, [Next]_vars
               PROVE  Abstract!Next \/ UNCHANGED <<granted, spent, inForce>>
    OBVIOUS
  <2>1. ASSUME NEW a \in Approvals, Approve(a)
        PROVE  Abstract!Enforce(a) \/ UNCHANGED <<granted, spent, inForce>>
    BY <2>1 DEF Approve, ledger, Abstract!Enforce, Spent
  <2>2. ASSUME NEW t \in Txs, CommitIssue(t)
        PROVE  \E k \in Keys, a \in Approvals : Abstract!Grant(k, a)
    <3>1. PICK x \in Transaction : x = tx[t]
      BY DEF ReleaseInv, TypeOK
    <3>2. /\ x.key \in Keys /\ x.approval \in Approvals /\ issued[x.key] = NoRecord
          /\ issued' = [issued EXCEPT ![x.key] = [approval |-> x.approval, jti |-> x.jti]]
          /\ UNCHANGED <<claimed, inForce>>
      BY <2>2, <3>1 DEF CommitIssue, world, ReleaseInv, CallsAreSound, CallIsSound, Kept, KeysAreFree
    <3>3. /\ granted[x.key] = None
          /\ granted' = [granted EXCEPT ![x.key] = x.approval]
      BY <3>2 DEF NoRecord, ReleaseInv, TypeOK
    <3> QED
      BY <3>2, <3>3 DEF Abstract!Grant, Spent
  <2>3. ASSUME NEW t \in Txs, CommitConsume(t)
        PROVE  \E k \in Keys : Abstract!Spend(k)
    <3>1. PICK x \in Transaction : x = tx[t]
      BY DEF ReleaseInv, TypeOK
    <3>2. /\ x.step = "locked" /\ x.op = "consume" /\ CallIsSound(x)
          /\ claimed' = claimed \cup Handles(x) /\ UNCHANGED <<issued, inForce>>
      BY <2>3, <3>1 DEF CommitConsume, world, ReleaseInv, CallsAreSound
    <3>3. /\ x.key \in Keys /\ ~ Spent(x.key) /\ x.approval \in inForce
          /\ [key |-> x.key, approval |-> x.approval, jti |-> x.jti] \in handed
      BY <3>2 DEF CallIsSound, Kept, KeysAreFree, Handles, Spent
    <3>4. issued[x.key].approval = x.approval
      <4>1. PICK r \in handed : r = [key |-> x.key, approval |-> x.approval, jti |-> x.jti]
        BY <3>3
      <4>2. issued[r.key] = [approval |-> r.approval, jti |-> r.jti]
        BY DEF ReleaseInv, HandedReceiptsAreOnRecord
      <4> QED
        BY <4>1, <4>2
    <3>5. spent' = spent \cup {x.key}
      BY <3>2, <3>3 DEF Spent, Handles
    <3> QED
      BY <3>2, <3>3, <3>4, <3>5 DEF Abstract!Spend
  <2>4. CASE UNCHANGED <<issued, claimed, inForce>>
    BY <2>4 DEF Spent
  <2> QED
    BY <2>1, <2>2, <2>3, <2>4
       DEF Next, vars, Environment, AppendVersion, Withdraw, BecomeOverdue, Lapse, Begin, IssueBegin,
           ConsumeBegin, Proceeds, GateVersion, GateApproval, LookUp, AppendAudit, Rollback, world,
           ledger, Abstract!Next
<1>3. QED
  BY <1>1, <1>2, ReleaseInvariant, PTL DEF Spec, ImplementsReleaseOnce, Abstract!Spec

\* A step neither revives a dead key nor hands a receipt out for it.
LEMMA DeadKeyStep ==
    ASSUME ReleaseInv, [Next]_vars, NEW k \in Keys, Dead(k)
    PROVE  Dead(k)' /\ \A r \in handed' \ handed : r.key # k
<1>1. /\ issued[k] # NoRecord /\ issued[k].jti \in lapsed /\ ~ Spent(k)
      /\ \A t \in Txs : tx[t].op = "consume" => tx[t].key # k
  BY DEF Dead
<1>2. ASSUME UNCHANGED <<issued, claimed, handed>>, lapsed \subseteq lapsed',
             \A t \in Txs : tx'[t].op = "consume" => tx'[t].key # k
      PROVE  Dead(k)' /\ \A r \in handed' \ handed : r.key # k
  BY <1>1, <1>2 DEF Dead, Spent
<1>3. CASE Environment \/ UNCHANGED vars
  <2>1. UNCHANGED <<issued, claimed, handed, tx>> /\ lapsed \subseteq lapsed'
    BY <1>3 DEF Environment, AppendVersion, Approve, Withdraw, BecomeOverdue, Lapse, ledger, vars
  <2> QED
    BY <1>1, <1>2, <2>1
<1>4. ASSUME NEW t \in Txs, Begin(t)
      PROVE  Dead(k)' /\ \A r \in handed' \ handed : r.key # k
  <2>1. /\ UNCHANGED <<issued, claimed, handed, lapsed>>
        /\ \A u \in Txs : u # t => tx'[u] = tx[u]
    BY <1>4 DEF Begin, IssueBegin, ConsumeBegin, Open, ledger, ReleaseInv, TypeOK
  <2>2. tx'[t].op = "consume" => tx'[t].key # k
    <3>1. ASSUME NEW r \in handed, ConsumeBegin(t, r) PROVE r.key # k /\ tx'[t].key = r.key
      <4>1. r.jti \notin lapsed /\ issued[r.key] = [approval |-> r.approval, jti |-> r.jti]
        BY <3>1 DEF ConsumeBegin, Verifies, ReleaseInv, HandedReceiptsAreOnRecord
      <4>2. r.key # k
        BY <1>1, <4>1
      <4>3. tx'[t].key = r.key
        BY <3>1 DEF ConsumeBegin, Open, ReleaseInv, TypeOK
      <4> QED
        BY <4>2, <4>3
    <3>2. ASSUME NEW j \in Keys, NEW a \in Approvals, IssueBegin(t, j, a) PROVE tx'[t].op = "issue"
      BY <3>2 DEF IssueBegin, Open, ReleaseInv, TypeOK
    <3> QED
      BY <1>4, <3>1, <3>2 DEF Begin
  <2> QED
    BY <1>1, <1>2, <2>1, <2>2
<1>5. ASSUME NEW t \in Txs, GateVersion(t) \/ GateApproval(t) \/ AppendAudit(t) \/ Rollback(t)
      PROVE  Dead(k)' /\ \A r \in handed' \ handed : r.key # k
  <2>1. UNCHANGED <<issued, claimed, handed, lapsed>>
    BY <1>5 DEF GateVersion, GateApproval, AppendAudit, Rollback, ledger
  <2>2. \A u \in Txs : tx'[u].op = "consume" => tx[u].op = "consume" /\ tx'[u].key = tx[u].key
    BY <1>5 DEF GateVersion, GateApproval, AppendAudit, Rollback, Open, End, Idle, ReleaseInv, TypeOK
  <2> QED
    BY <1>1, <1>2, <2>1, <2>2
<1>6. ASSUME NEW t \in Txs, LookUp(t)
      PROVE  Dead(k)' /\ \A r \in handed' \ handed : r.key # k
  <2>1. UNCHANGED <<issued, claimed, lapsed>>
    BY <1>6 DEF LookUp
  <2>2. \A u \in Txs : tx'[u].op = "consume" => tx[u].op = "consume" /\ tx'[u].key = tx[u].key
    BY <1>6 DEF LookUp, Open, End, Idle, ReleaseInv, TypeOK
  <2>3. \A r \in handed' \ handed : r.key # k
    BY <1>1, <1>6 DEF LookUp, Verifies, HandOut
  <2> QED
    BY <1>1, <2>1, <2>2, <2>3 DEF Dead, Spent
<1>7. ASSUME NEW t \in Txs, CommitIssue(t)
      PROVE  Dead(k)' /\ \A r \in handed' \ handed : r.key # k
  <2>1. PICK x \in Transaction : x = tx[t]
    BY DEF ReleaseInv, TypeOK
  <2>2. x.key # k
    BY <1>1, <1>7, <2>1 DEF CommitIssue, ReleaseInv, CallsAreSound, CallIsSound, KeysAreFree
  <2>3. /\ issued'[k] = issued[k] /\ UNCHANGED <<claimed, lapsed>>
        /\ \A r \in handed' \ handed : r.key = x.key
        /\ tx' = [tx EXCEPT ![t] = Idle]
    BY <1>7, <2>1, <2>2 DEF CommitIssue, HandOut, End, ReleaseInv, TypeOK
  <2>4. \A u \in Txs : tx'[u].op = "consume" => tx'[u] = tx[u]
    BY <2>3 DEF Idle, ReleaseInv, TypeOK
  <2> QED
    BY <1>1, <2>2, <2>3, <2>4 DEF Dead, Spent
<1>8. ASSUME NEW t \in Txs, CommitConsume(t)
      PROVE  Dead(k)' /\ \A r \in handed' \ handed : r.key # k
  <2>1. PICK x \in Transaction : x = tx[t]
    BY DEF ReleaseInv, TypeOK
  <2>2. x.key # k
    BY <1>1, <1>8, <2>1 DEF CommitConsume
  <2>3. /\ UNCHANGED <<issued, lapsed, handed>> /\ tx' = [tx EXCEPT ![t] = Idle]
        /\ claimed' = claimed \cup {<<"jti", x.jti>>, <<"idempotency", x.key>>}
    BY <1>8, <2>1 DEF CommitConsume, Handles, End
  <2>4. \A u \in Txs : tx'[u].op = "consume" => tx'[u] = tx[u]
    BY <2>3 DEF Idle, ReleaseInv, TypeOK
  <2>5. ~ Spent(k)'
    BY <1>1, <2>2, <2>3 DEF Spent
  <2> QED
    BY <1>1, <2>3, <2>4, <2>5 DEF Dead
<1> QED
  BY <1>3, <1>4, <1>5, <1>6, <1>7, <1>8 DEF Next, Proceeds

\* A key whose receipt lapsed before anyone presented it is lost for good, to every session and for
\* every retry.
THEOREM LapsedKeysAreLost == Spec => DeadKeysStayDead
<1>1. ReleaseInv /\ [Next]_vars =>
        [\A k \in Keys : Dead(k) => Dead(k)' /\ \A r \in handed' \ handed : r.key # k]_vars
  BY DeadKeyStep
<1> QED
  BY <1>1, ReleaseInvariant, PTL DEF Spec, DeadKeysStayDead
=============================================================================
