------------------------------ MODULE AuditChain ------------------------------
(***************************************************************************)
(* The scoped audit chain: appendAuditEvent                                *)
(* (packages/business/src/governance/audit-db.ts), the audit_logs table of *)
(* migration 20260715210000_harden_scoped_audit_chain, its verifier        *)
(* (audit-chain.ts), and the callers that use a key of the chain as a      *)
(* claim (internal-principal-replay.ts, external-action-release.ts).       *)
(*                                                                         *)
(* A session appends inside the transaction of its caller.  It waits for   *)
(* the advisory lock of the chain, which the transaction keeps until it    *)
(* ends, then looks up its key, reads the last row and inserts the next.   *)
(* At READ COMMITTED every statement sees what is committed when it        *)
(* starts; at SERIALIZABLE (the transitions of workflow-runtime.ts) every  *)
(* statement sees what was committed at the first one, which comes before  *)
(* the lock.  The lookups and the INSERT of one append are one step: only  *)
(* the holder of the lock touches the chain between them.                  *)
(*                                                                         *)
(* Left out: the content of an event.  The digest of a row is the history  *)
(* it stands for, which is what makes a digest useful: two rows have the   *)
(* same one only if they and all their predecessors are the same.          *)
(***************************************************************************)
EXTENDS Integers, Sequences

CONSTANTS
    Chains,     \* chain_scope_key values
    Handles,    \* idempotency keys whose second use must fail (jti, nonce, ...)
    Keys,       \* idempotency keys whose second use returns the first row
    Claims,     \* what one claim claims: sequences of Handles
    Txs,        \* database sessions
    MaxRows,    \* bound on the rows of a chain
    None        \* no key, no holder, no chain

ASSUME ChainConstants ==
    /\ MaxRows \in Nat
    /\ None \notin Handles \cup Keys \cup Txs \cup Chains
    /\ Handles \cap Keys = {}
    /\ Claims \subseteq Seq(Handles)

VARIABLES
    rows,       \* audit_logs: committed rows of each chain
    lock,       \* holder of the advisory lock of each chain
    granted,    \* how many committed claims have been told that a handle is theirs
    tx          \* the open transaction of each session

vars == <<rows, lock, granted, tx>>

AllKeys == Handles \cup Keys \cup {None}
Digest == Seq(Nat \X AllKeys)
AUDIT_CHAIN_ZERO_HASH == <<>>
Row == [sequence : Nat \ {0}, key : AllKeys, previousHash : Digest]
computeAuditChainEventHash(row) == Append(row.previousHash, <<row.sequence, row.key>>)

Steps == {"idle", "waiting", "appending", "collided"}
Transaction == [step : Steps, chain : Chains \cup {None}, serializable : BOOLEAN,
                todo : Seq(AllKeys), claim : SUBSET Handles,
                snapshot : SUBSET Row, written : SUBSET Row]
Idle == [step |-> "idle", chain |-> None, serializable |-> FALSE, todo |-> <<>>,
         claim |-> {}, snapshot |-> {}, written |-> {}]

Init ==
    /\ rows = [c \in Chains |-> {}]
    /\ lock = [c \in Chains |-> None]
    /\ granted = [c \in Chains |-> [k \in Handles |-> 0]]
    /\ tx = [t \in Txs |-> Idle]

-----------------------------------------------------------------------------
(* What a statement of a transaction reads *)

\* Slip: the tail of the chain is read before the lock whatever the isolation level.
VisibleBeforeLock(x) == x.snapshot \cup x.written

Visible(x) == (IF x.serializable THEN x.snapshot ELSE rows[x.chain]) \cup x.written

\* orderBy sequence desc, first; 0 when the chain is empty.
LastSequence(rs) ==
    IF rs = {} THEN 0
    ELSE CHOOSE n \in {r.sequence : r \in rs} : \A r \in rs : r.sequence <= n
LastHash(rs) ==
    IF rs = {} THEN AUDIT_CHAIN_ZERO_HASH
    ELSE computeAuditChainEventHash(CHOOSE r \in rs : r.sequence = LastSequence(rs))

\* Slip: the successor of the last sequence is the last sequence.
NextRowFromZero(rs, k) ==
    [sequence |-> LastSequence(rs), key |-> k, previousHash |-> LastHash(rs)]

NextRow(rs, k) ==
    [sequence |-> LastSequence(rs) + 1, key |-> k, previousHash |-> LastHash(rs)]

\* Slip: the unique indexes are missing.
CollidesNever(c, new) == FALSE

\* audit_logs_chain_scope_key_sequence_key and ..._idempotency_key_key over committed rows.
Collides(c, new) ==
    \E r \in rows[c] : r.sequence = new.sequence \/ (new.key # None /\ r.key = new.key)

-----------------------------------------------------------------------------
(* The calls *)

Start(t, c, keys, claim, serializable) ==
    /\ tx[t].step = "idle"
    /\ LastSequence(rows[c]) + Len(keys) <= MaxRows
    /\ tx' = [tx EXCEPT ![t] = [step |-> "waiting", chain |-> c, serializable |-> serializable,
                                todo |-> keys, claim |-> claim,
                                snapshot |-> rows[c], written |-> {}]]
    /\ UNCHANGED <<rows, lock, granted>>

\* A service's own transaction appends one event, with or without an idempotency key.
DomainAppend(t, c, k) == Start(t, c, <<k>>, {}, FALSE)

\* appendRunEvent of a run or step transition: SERIALIZABLE, and a key no other event has.
WorkflowAppend(t, c) == Start(t, c, <<None>>, {}, TRUE)

\* claimInternalPrincipalReplay and consumeExternalActionRelease: every handle, in one transaction.
Claim(t, c, handles) ==
    Start(t, c, handles, {handles[i] : i \in DOMAIN handles}, FALSE)

\* pg_advisory_xact_lock; the later appends of the same transaction already have it.
LockAvailable(t) == lock[tx[t].chain] = None
AcquireLock(t) ==
    /\ tx[t].step = "waiting"
    /\ LockAvailable(t)
    /\ lock' = [lock EXCEPT ![tx[t].chain] = t]
    /\ tx' = [tx EXCEPT ![t] = [tx[t] EXCEPT !.step = "appending"]]
    /\ UNCHANGED <<rows, granted>>

\* Slip: pg_advisory_lock, which outlives the transaction.
ReleaseSessionLock(t) == lock

\* The transaction is over, and with it its lock.
Release(t) == [c \in Chains |-> IF lock[c] = t THEN None ELSE lock[c]]

Ended(t) == [tx EXCEPT ![t] = Idle]

\* Slip: a claim takes an existing row as its own, like every other append.
FindExistingAlwaysReturns(t) ==
    LET x == tx[t] IN
    /\ x.step = "appending" /\ x.todo # <<>>
    /\ Head(x.todo) # None
    /\ \E r \in Visible(x) : r.key = Head(x.todo)
    /\ tx' = [tx EXCEPT ![t] = [x EXCEPT !.todo = Tail(x.todo)]]
    /\ UNCHANGED <<rows, lock, granted>>

\* The key of the next event has a row: a claim throws and rolls back everything it wrote, any
\* other call takes the row as its own.
FindExisting(t) ==
    LET x == tx[t] IN
    /\ x.step = "appending" /\ x.todo # <<>>
    /\ Head(x.todo) # None
    /\ \E r \in Visible(x) : r.key = Head(x.todo)
    /\ IF x.claim = {}
       THEN /\ tx' = [tx EXCEPT ![t] = [x EXCEPT !.todo = Tail(x.todo)]]
            /\ UNCHANGED lock
       ELSE /\ tx' = Ended(t)
            /\ lock' = Release(t)
    /\ UNCHANGED <<rows, granted>>

\* The key has no row: INSERT the successor of the last row that this transaction sees.  A unique
\* violation aborts the transaction (P2002); the lookup in the catch block fails with it.
InsertNext(t) ==
    LET x == tx[t]
        new == NextRow(Visible(x), Head(x.todo))
    IN
    /\ x.step = "appending" /\ x.todo # <<>>
    /\ \A r \in Visible(x) : Head(x.todo) = None \/ r.key # Head(x.todo)
    /\ tx' = [tx EXCEPT ![t] =
          IF Collides(x.chain, new)
          THEN [x EXCEPT !.step = "collided", !.written = {}]
          ELSE [x EXCEPT !.todo = Tail(x.todo), !.written = @ \cup {new}]]
    /\ UNCHANGED <<rows, lock, granted>>

\* Everything the transaction wrote becomes visible, then its lock is free.
Commit(t) ==
    LET x == tx[t] IN
    /\ x.step = "appending" /\ x.todo = <<>>
    /\ rows' = [rows EXCEPT ![x.chain] = @ \cup x.written]
    /\ granted' = [granted EXCEPT ![x.chain] =
          [k \in Handles |-> IF k \in x.claim THEN @[k] + 1 ELSE @[k]]]
    /\ lock' = Release(t)
    /\ tx' = Ended(t)

\* The caller fails, the transaction times out or the connection is lost.
Rollback(t) ==
    /\ tx[t].step # "idle"
    /\ lock' = Release(t)
    /\ tx' = Ended(t)
    /\ UNCHANGED <<rows, granted>>

-----------------------------------------------------------------------------
Call(t, c) ==
    \/ \E k \in Keys \cup {None} : DomainAppend(t, c, k)
    \/ WorkflowAppend(t, c)
    \/ \E handles \in Claims : Claim(t, c, handles)

Next ==
    \/ \E t \in Txs, c \in Chains : Call(t, c)
    \/ \E t \in Txs : \/ AcquireLock(t)
                      \/ FindExisting(t)
                      \/ InsertNext(t)
                      \/ Commit(t)
                      \/ Rollback(t)

\* A session keeps executing its transaction, PostgreSQL serves the waiters of a lock in turn, and
\* nothing obliges a transaction to fail unless it has collided.
Proceeds(t) ==
    \/ AcquireLock(t) \/ FindExisting(t) \/ InsertNext(t) \/ Commit(t)
    \/ tx[t].step = "collided" /\ Rollback(t)
Fairness == \A t \in Txs : SF_vars(Proceeds(t))

Spec == Init /\ [][Next]_vars
FairSpec == Spec /\ Fairness
-----------------------------------------------------------------------------
(* Properties *)

\* Rows, locks and transactions have their declared shape.
TypeOK ==
    /\ rows \in [Chains -> SUBSET Row]
    /\ lock \in [Chains -> Txs \cup {None}]
    /\ granted \in [Chains -> [Handles -> Nat]]
    /\ tx \in [Txs -> Transaction]

\* verifyAuditChainRows: no duplicate, no gap, a genesis, and each row names its predecessor.
verifyAuditChainRows(rs) ==
    /\ {r.sequence : r \in rs} = 1..LastSequence(rs)
    /\ \A r, s \in rs : r.sequence = s.sequence => r = s
    /\ \A r \in rs :
          IF r.sequence = 1 THEN r.previousHash = AUDIT_CHAIN_ZERO_HASH
          ELSE \E p \in rs : /\ p.sequence = r.sequence - 1
                             /\ r.previousHash = computeAuditChainEventHash(p)

\* However sessions of both isolation levels interleave, fail and retry, what is committed always
\* verifies.
ChainsVerify == \A c \in Chains : verifyAuditChainRows(rows[c])

\* A handle is granted to one claim at most, exactly when the chain holds its row: two claims that
\* share a handle never both succeed, and a refused claim leaves none of its other handles behind
\* ("a malformed repeat cannot poison a future legitimate request").
HandlesAreClaimedOnce ==
    \A c \in Chains, k \in Handles :
        granted[c][k] = IF \E r \in rows[c] : r.key = k THEN 1 ELSE 0

\* Committed rows stay, and new ones only ever follow the last.
AppendOnly ==
    [][\A c \in Chains :
          /\ rows[c] \subseteq rows'[c]
          /\ \A r \in rows'[c] \ rows[c] : r.sequence > LastSequence(rows[c])]_vars

\* The advisory lock does what the unique indexes are there to back up: a READ COMMITTED append is
\* never refused by them.
ReadCommittedNeverCollides == \A t \in Txs : tx[t].step = "collided" => tx[t].serializable

\* The interleaved transactions of both isolation levels are the atomic calls of AuditLedger: what a
\* claim wrote is its handles, all of them, in their order and in one place, and no handle is granted
\* beside its row or twice.
LogOf(rs) == [i \in 1..LastSequence(rs) |-> (CHOOSE r \in rs : r.sequence = i).key]
Ledger == INSTANCE AuditLedger WITH ledger <- [c \in Chains |-> LogOf(rows[c])]
ImplementsAuditLedger == Ledger!Spec

\* Every call ends: nobody waits for a lock for ever.
EveryCallEnds == \A t \in Txs : tx[t].step # "idle" ~> tx[t].step = "idle"
-----------------------------------------------------------------------------
(* The inductive invariant behind the theorems of AuditChainProofs *)

\* A chain that verifies and whose last sequence is a number.
Sound(rs) == LastSequence(rs) \in Nat /\ verifyAuditChainRows(rs)

\* What a transaction carries at each of its steps.
ShapeOf(x) ==
    /\ x.step = "idle" => x = Idle
    /\ x.step # "idle" => x.chain \in Chains
    /\ x.step # "appending" => x.written = {}
    /\ \A i \in DOMAIN x.todo : IF x.claim = {} THEN x.todo[i] \notin Handles
                                ELSE x.todo[i] \in x.claim
    /\ x.serializable => /\ x.claim = {} /\ Len(x.todo) <= 1
                         /\ \A i \in DOMAIN x.todo : x.todo[i] = None
                         /\ x.written # {} => x.todo = <<>>

\* Of its claim, what a transaction has not written is still to do.
ClaimIsPending(x) ==
    x.step \in {"waiting", "appending"} =>
        \A k \in x.claim : \/ \E r \in x.written : r.key = k
                           \/ \E i \in DOMAIN x.todo : x.todo[i] = k

\* What a transaction wrote continues the committed chain, under keys that are new to it.
WritesExtend(x) ==
    x.step = "appending" =>
        /\ Sound(rows[x.chain] \cup x.written)
        /\ \A r \in x.written :
              /\ r.sequence > LastSequence(rows[x.chain])
              /\ r.key \in Handles => r.key \in x.claim
              /\ r.key # None => \A s \in rows[x.chain] : s.key # r.key

\* A snapshot is the beginning of the committed chain.
SnapshotIsPrefix(x) ==
    x.step # "idle" =>
        /\ Sound(x.snapshot)
        /\ x.snapshot \subseteq rows[x.chain]
        /\ \A r \in rows[x.chain] : r.sequence <= LastSequence(x.snapshot) => r \in x.snapshot

\* The holder of a lock is the one transaction that appends to its chain.
LocksAgree ==
    /\ \A t \in Txs : tx[t].step \in {"appending", "collided"} => lock[tx[t].chain] = t
    /\ \A c \in Chains : lock[c] # None => /\ tx[lock[c]].step \in {"appending", "collided"}
                                           /\ tx[lock[c]].chain = c

ChainInv ==
    /\ TypeOK
    /\ \A c \in Chains : Sound(rows[c])
    /\ HandlesAreClaimedOnce
    /\ \A t \in Txs : /\ ShapeOf(tx[t]) /\ ClaimIsPending(tx[t])
                      /\ WritesExtend(tx[t]) /\ SnapshotIsPrefix(tx[t])
    /\ LocksAgree
    /\ ReadCommittedNeverCollides

\* What a transaction has written behind the rows old and what it still has to do are together what
\* its call asked for: one event, or a whole claim.
OneEvent(old, x) == LastSequence(old \cup x.written) + Len(x.todo) <= LastSequence(old) + 1
WholeClaim(old, x, handles) ==
    LET n == Len(handles) - Len(x.todo) IN
    /\ n \in Nat
    /\ x.claim = {handles[i] : i \in DOMAIN handles}
    /\ \A i \in DOMAIN x.todo : x.todo[i] = handles[n + i]
    /\ LastSequence(old \cup x.written) = LastSequence(old) + n
    /\ \A i \in 1..n : \E r \in x.written :
          r.sequence = LastSequence(old) + i /\ r.key = handles[i]
UnderWay(old, x) ==
    x.step \in {"waiting", "appending"} =>
        IF x.claim = {} THEN OneEvent(old, x)
        ELSE \E handles \in Claims : WholeClaim(old, x, handles)

WrittenOnce(x) == \A r, s \in x.written : r.key = s.key /\ r.key # None => r = s

LedgerInv ==
    /\ ChainInv
    /\ \A t \in Txs : tx[t].step # "idle" => UnderWay(rows[tx[t].chain], tx[t]) /\ WrittenOnce(tx[t])
=============================================================================
