--------------------------- MODULE AuditChainProofs ---------------------------
(***************************************************************************)
(* Proofs about AuditChain, for every number of chains, sessions, keys and *)
(* rows.  The lemmas on LastSequence and NextRow are about one set of      *)
(* rows; the invariant then follows the lock: only its holder writes, what *)
(* it writes continues the committed chain, and a snapshot that has fallen *)
(* behind makes the unique index on the sequence refuse the row.           *)
(***************************************************************************)
EXTENDS AuditChain, TLAPS

\* The last sequence of a set of rows numbered 1..n is n.
LEMMA LastOf ==
    ASSUME NEW rs, NEW n \in Nat, {r.sequence : r \in rs} = 1..n
    PROVE  LastSequence(rs) = n
<1>1. CASE rs = {}
  <2>1. n = 0
    <3>1. 1..n = {}
      BY <1>1
    <3>2. QED
      BY <3>1, n \in Nat, n >= 1 => 1 \in 1..n
  <2>2. QED
    BY <1>1, <2>1 DEF LastSequence
<1>2. CASE rs # {}
  <2>1. n >= 1
    BY <1>2
  <2>2. n \in {r.sequence : r \in rs} /\ \A r \in rs : r.sequence \in 1..n
    BY <2>1
  <2>3. \A m \in {r.sequence : r \in rs} : (\A r \in rs : r.sequence <= m) => m = n
    BY <2>2
  <2>4. \A r \in rs : r.sequence <= n
    BY <2>2
  <2>5. QED
    BY <1>2, <2>2, <2>3, <2>4 DEF LastSequence
<1>3. QED
  BY <1>1, <1>2

\* The successor of a sound set of rows keeps it sound and is its new last row.
LEMMA NextRowExtends ==
    ASSUME NEW rs, Sound(rs), NEW k
    PROVE  /\ Sound(rs \cup {NextRow(rs, k)})
           /\ LastSequence(rs \cup {NextRow(rs, k)}) = LastSequence(rs) + 1
           /\ NextRow(rs, k).sequence = LastSequence(rs) + 1 /\ NextRow(rs, k).key = k
<1>0. PICK new : new = NextRow(rs, k)
  OBVIOUS
<1> DEFINE n == LastSequence(rs)
           all == rs \cup {new}
<1>1. n \in Nat /\ {r.sequence : r \in rs} = 1..n /\ \A r \in rs : r.sequence \in 1..n
  BY DEF Sound, verifyAuditChainRows
<1>2. new.sequence = n + 1 /\ new.key = k /\ new.previousHash = LastHash(rs)
  BY <1>0 DEF NextRow
<1>3. {r.sequence : r \in all} = 1..(n + 1)
  <2>1. {r.sequence : r \in all} = {r.sequence : r \in rs} \cup {new.sequence}
    OBVIOUS
  <2>2. 1..(n + 1) = (1..n) \cup {n + 1}
    BY <1>1
  <2>3. QED
    BY <1>1, <1>2, <2>1, <2>2
<1>4. LastSequence(all) = n + 1
  <2> HIDE DEF n, all
  <2>1. n + 1 \in Nat
    BY <1>1
  <2>2. QED
    BY <1>3, <2>1, LastOf
<1>5. \A r, s \in all : r.sequence = s.sequence => r = s
  BY <1>1, <1>2 DEF Sound, verifyAuditChainRows
<1>6. \A r \in all : IF r.sequence = 1 THEN r.previousHash = AUDIT_CHAIN_ZERO_HASH
                     ELSE \E p \in all : /\ p.sequence = r.sequence - 1
                                         /\ r.previousHash = computeAuditChainEventHash(p)
  <2>1. \A r \in rs : IF r.sequence = 1 THEN r.previousHash = AUDIT_CHAIN_ZERO_HASH
                      ELSE \E p \in rs : /\ p.sequence = r.sequence - 1
                                         /\ r.previousHash = computeAuditChainEventHash(p)
    BY DEF Sound, verifyAuditChainRows
  <2>2. CASE rs = {}
    BY <1>1, <1>2, <2>2 DEF LastSequence, LastHash
  <2>3. CASE rs # {}
    <3>1. n >= 1 /\ \E r \in rs : r.sequence = n
      BY <1>1, <2>3
    <3>2. PICK p : p = CHOOSE r \in rs : r.sequence = LastSequence(rs)
      OBVIOUS
    <3>3. p \in rs /\ p.sequence = n
      BY <3>1, <3>2
    <3>4. new.previousHash = computeAuditChainEventHash(p)
      BY <1>2, <2>3, <3>2 DEF LastHash
    <3>5. new.sequence # 1 /\ p.sequence = new.sequence - 1
      BY <1>1, <1>2, <3>1, <3>3
    <3>6. QED
      BY <2>1, <3>3, <3>4, <3>5
  <2>4. QED
    BY <2>2, <2>3
<1>7. Sound(all)
  <2> HIDE DEF all
  <2>1. LastSequence(all) \in Nat /\ {r.sequence : r \in all} = 1..LastSequence(all)
    BY <1>1, <1>3, <1>4
  <2>2. QED
    BY <1>5, <1>6, <2>1 DEF Sound, verifyAuditChainRows
<1>8. QED
  BY <1>0, <1>2, <1>4, <1>7

\* Appending keeps the type of a sequence.
LEMMA AppendType ==
    ASSUME NEW T, NEW q \in Seq(T), NEW e \in T
    PROVE  Append(q, e) \in Seq(T)
OBVIOUS

\* The successor of typed rows is a typed row.
LEMMA NextRowType ==
    ASSUME NEW rs \in SUBSET Row, Sound(rs), NEW k \in AllKeys
    PROVE  NextRow(rs, k) \in Row
<1>1. LastSequence(rs) + 1 \in Nat \ {0}
  BY DEF Sound
<1>2. LastHash(rs) \in Digest
  <2>1. CASE rs = {}
    BY <2>1 DEF LastHash, AUDIT_CHAIN_ZERO_HASH, Digest
  <2>2. CASE rs # {}
    <3>1. \E r \in rs : r.sequence = LastSequence(rs)
      <4>1. {r.sequence : r \in rs} = 1..LastSequence(rs) /\ LastSequence(rs) \in Nat
        BY DEF Sound, verifyAuditChainRows
      <4>2. LastSequence(rs) >= 1
        BY <2>2, <4>1
      <4>3. QED
        BY <4>1, <4>2
    <3>2. PICK p \in rs : p = CHOOSE r \in rs : r.sequence = LastSequence(rs)
      BY <3>1
    <3>3. p.previousHash \in Seq(Nat \X AllKeys) /\ <<p.sequence, p.key>> \in Nat \X AllKeys
      BY DEF Row, Digest
    <3>4. Append(p.previousHash, <<p.sequence, p.key>>) \in Seq(Nat \X AllKeys)
      BY <3>3, AppendType
    <3>5. LastHash(rs) = Append(p.previousHash, <<p.sequence, p.key>>)
      BY <2>2, <3>2 DEF LastHash, computeAuditChainEventHash
    <3>6. QED
      BY <3>4, <3>5 DEF Digest
  <2>3. QED
    BY <2>1, <2>2
<1>3. QED
  BY <1>1, <1>2 DEF NextRow, Row

\* No rows are sound.
LEMMA EmptyIsSound == Sound({}) /\ LastSequence({}) = 0
<1>1. {r.sequence : r \in {}} = 1..0
  OBVIOUS
<1>2. QED
  BY <1>1 DEF Sound, verifyAuditChainRows, LastSequence

\* A snapshot that is not the whole chain lacks the very sequence that it would insert.
LEMMA StaleSnapshotCollides ==
    ASSUME NEW all, Sound(all), NEW snapshot, Sound(snapshot), snapshot \subseteq all,
           \A r \in all : r.sequence <= LastSequence(snapshot) => r \in snapshot,
           \A r \in all : r.sequence # LastSequence(snapshot) + 1
    PROVE  snapshot = all
<1> DEFINE n == LastSequence(all)
           m == LastSequence(snapshot)
<1>1. n \in Nat /\ m \in Nat /\ {r.sequence : r \in all} = 1..n
  BY DEF Sound, verifyAuditChainRows
<1>2. m + 1 \notin 1..n
  BY <1>1
<1>3. n <= m
  BY <1>1, <1>2
<1>4. \A r \in all : r.sequence \in 1..n
  BY <1>1
<1>5. \A r \in all : r.sequence <= m
  <2> HIDE DEF n, m
  <2> QED BY <1>1, <1>3, <1>4
<1>6. QED
  BY <1>5

\* Every row of a sound set is at most its last.
LEMMA SoundBounds ==
    ASSUME NEW rs, Sound(rs), NEW r \in rs
    PROVE  r.sequence \in Nat /\ 1 <= r.sequence /\ r.sequence <= LastSequence(rs)
<1>1. r.sequence \in 1..LastSequence(rs) /\ LastSequence(rs) \in Nat
  BY DEF Sound, verifyAuditChainRows
<1>2. QED
  BY <1>1
-----------------------------------------------------------------------------
(* The invariant, action by action *)

\* The part of the invariant that is about one transaction.
PerTx(x) == ShapeOf(x) /\ ClaimIsPending(x) /\ WritesExtend(x) /\ SnapshotIsPrefix(x)

\* Initially nothing is open and every chain is empty.
LEMMA ChainInvInit == Init => ChainInv
<1> SUFFICES ASSUME Init PROVE ChainInv
  OBVIOUS
<1>1. Idle \in Transaction
  BY DEF Idle, Transaction, Steps
<1>2. TypeOK
  BY <1>1 DEF Init, TypeOK
<1>3. \A c \in Chains : Sound(rows[c])
  BY EmptyIsSound DEF Init
<1>4. \A t \in Txs : PerTx(tx[t])
  BY DEF Init, PerTx, ShapeOf, ClaimIsPending, WritesExtend, SnapshotIsPrefix, Idle
<1>5. HandlesAreClaimedOnce /\ LocksAgree /\ ReadCommittedNeverCollides
  BY DEF Init, HandlesAreClaimedOnce, LocksAgree, ReadCommittedNeverCollides, Idle
<1>6. QED
  BY <1>2, <1>3, <1>4, <1>5 DEF ChainInv, PerTx

\* A step that replaces one transaction and leaves the rows alone keeps the invariant, provided the
\* new transaction satisfies its part and the locks still agree.
LEMMA ReplaceTx ==
    ASSUME ChainInv, NEW t \in Txs, NEW y \in Transaction, PerTx(y),
           y.step = "collided" => y.serializable,
           tx' = [tx EXCEPT ![t] = y], UNCHANGED <<rows, granted>>,
           lock' \in [Chains -> Txs \cup {None}], LocksAgree'
    PROVE  ChainInv'
<1>1. /\ tx \in [Txs -> Transaction] /\ \A u \in Txs : tx'[u] = IF u = t THEN y ELSE tx[u]
  BY DEF ChainInv, TypeOK
<1>2. TypeOK'
  BY <1>1 DEF ChainInv, TypeOK
<1>3. (\A c \in Chains : Sound(rows[c]))' /\ HandlesAreClaimedOnce'
  <2>1. ASSUME NEW c \in Chains PROVE Sound(rows[c])'
    <3>1. PICK rs : rs = rows[c]
      OBVIOUS
    <3>2. rows'[c] = rs /\ Sound(rs)
      BY <3>1 DEF ChainInv
    <3>3. Sound(rows'[c])
      BY <3>2
    <3>4. QED
      BY <3>3 DEF Sound, verifyAuditChainRows, LastSequence
  <2>2. HandlesAreClaimedOnce'
    BY DEF ChainInv, HandlesAreClaimedOnce
  <2>3. QED
    BY <2>1, <2>2
<1>4. ASSUME NEW u \in Txs PROVE PerTx(tx[u])'
  <2>1. PICK z : z = tx'[u]
    OBVIOUS
  <2>2. PerTx(z)
    BY <1>1, <2>1 DEF ChainInv, PerTx
  <2>3. PerTx(z)'
    BY <2>2 DEF PerTx, ShapeOf, ClaimIsPending, WritesExtend, SnapshotIsPrefix
  <2>4. QED
    BY <2>1, <2>3 DEF PerTx, ShapeOf, ClaimIsPending, WritesExtend, SnapshotIsPrefix
<1>5. ReadCommittedNeverCollides'
  BY <1>1 DEF ChainInv, ReadCommittedNeverCollides
<1>6. QED
  BY <1>2, <1>3, <1>4, <1>5 DEF ChainInv, PerTx

\* A transaction that ends releases its lock and no other.
LEMMA EndLocks ==
    ASSUME ChainInv, NEW t \in Txs, tx' = Ended(t), lock' = Release(t)
    PROVE  LocksAgree' /\ lock' \in [Chains -> Txs \cup {None}]
<1>1. Idle.step = "idle"
  BY DEF Idle
<1>2. /\ lock \in [Chains -> Txs \cup {None}]
      /\ lock' = [c \in Chains |-> IF lock[c] = t THEN None ELSE lock[c]]
      /\ \A u \in Txs : tx'[u] = IF u = t THEN Idle ELSE tx[u]
  BY DEF ChainInv, TypeOK, Release, Ended
<1>3. ASSUME NEW u \in Txs, tx'[u].step \in {"appending", "collided"}
      PROVE  lock'[tx'[u].chain] = u
  <2>1. u # t /\ tx'[u] = tx[u] /\ lock[tx[u].chain] = u /\ tx[u].chain \in Chains
    BY <1>1, <1>2, <1>3 DEF ChainInv, LocksAgree, ShapeOf
  <2>2. QED
    BY <1>2, <2>1
<1>4. ASSUME NEW c \in Chains, lock'[c] # None
      PROVE  tx'[lock'[c]].step \in {"appending", "collided"} /\ tx'[lock'[c]].chain = c
  <2>1. lock[c] # t /\ lock'[c] = lock[c] /\ lock[c] \in Txs
    BY <1>2, <1>4
  <2>2. QED
    BY <1>2, <1>4, <2>1 DEF ChainInv, LocksAgree
<1>5. QED
  BY <1>2, <1>3, <1>4 DEF LocksAgree

\* A transaction that ends without committing changes nothing but its lock.
LEMMA EndInv ==
    ASSUME ChainInv, NEW t \in Txs,
           tx' = Ended(t), lock' = Release(t), UNCHANGED <<rows, granted>>
    PROVE  ChainInv'
<1>1. Idle \in Transaction /\ PerTx(Idle) /\ Idle.step = "idle"
  BY DEF Idle, Transaction, Steps, PerTx, ShapeOf, ClaimIsPending, WritesExtend, SnapshotIsPrefix
<1>2. tx' = [tx EXCEPT ![t] = Idle]
  BY DEF Ended
<1>3. QED
  BY <1>1, <1>2, EndLocks, ReplaceTx

\* A step of the holder of a lock that keeps the lock.
LEMMA KeepLocks ==
    ASSUME ChainInv, NEW t \in Txs, NEW y \in Transaction, tx[t].step = "appending",
           y.step \in {"appending", "collided"}, y.chain = tx[t].chain,
           tx' = [tx EXCEPT ![t] = y], lock' = lock
    PROVE  LocksAgree' /\ lock' \in [Chains -> Txs \cup {None}]
<1>1. /\ lock \in [Chains -> Txs \cup {None}]
      /\ \A u \in Txs : tx'[u] = IF u = t THEN y ELSE tx[u]
  BY DEF ChainInv, TypeOK
<1>2. \A u \in Txs : /\ tx'[u].chain = tx[u].chain
                     /\ tx'[u].step \in {"appending", "collided"} <=>
                        tx[u].step \in {"appending", "collided"}
  BY <1>1
<1>3. QED
  BY <1>1, <1>2 DEF ChainInv, LocksAgree

\* Starting a call opens a transaction that holds no lock and has written nothing.
LEMMA StartInv ==
    ASSUME ChainInv, NEW t \in Txs, NEW c \in Chains, NEW keys \in Seq(AllKeys),
           NEW claim \in SUBSET Handles, NEW serializable \in BOOLEAN,
           \A i \in DOMAIN keys : IF claim = {} THEN keys[i] \notin Handles ELSE keys[i] \in claim,
           serializable => /\ claim = {} /\ Len(keys) <= 1
                           /\ \A i \in DOMAIN keys : keys[i] = None,
           \A k \in claim : \E i \in DOMAIN keys : keys[i] = k,
           Start(t, c, keys, claim, serializable)
    PROVE  ChainInv'
<1>y. PICK y : y = [step |-> "waiting", chain |-> c, serializable |-> serializable,
                    todo |-> keys, claim |-> claim, snapshot |-> rows[c], written |-> {}]
  OBVIOUS
<1>1. tx[t].step = "idle" /\ tx' = [tx EXCEPT ![t] = y] /\ UNCHANGED <<rows, lock, granted>>
  BY <1>y DEF Start
<1>2. /\ rows \in [Chains -> SUBSET Row] /\ lock \in [Chains -> Txs \cup {None}]
      /\ \A u \in Txs : tx'[u] = IF u = t THEN y ELSE tx[u]
  BY <1>1 DEF ChainInv, TypeOK
<1>3. y \in Transaction
  <2>1. rows[c] \in SUBSET Row
    BY <1>2
  <2>2. QED
    BY <1>y, <2>1 DEF Transaction, Steps
<1>4. PerTx(y)
  <2>1. Sound(y.snapshot) /\ y.snapshot = rows[y.chain]
    BY <1>y DEF ChainInv
  <2>2. QED
    BY <1>y, <2>1 DEF PerTx, ShapeOf, ClaimIsPending, WritesExtend, SnapshotIsPrefix
<1>5. LocksAgree'
  <2>1. t # None
    BY ChainConstants
  <2>2. \A d \in Chains : lock[d] # t
    <3>1. ASSUME NEW d \in Chains, lock[d] = t PROVE FALSE
      <4>1. tx[t].step \in {"appending", "collided"}
        BY <2>1, <3>1 DEF ChainInv, LocksAgree
      <4>2. QED
        BY <1>1, <4>1
    <3>2. QED
      BY <3>1
  <2>3. y.step = "waiting"
    BY <1>y
  <2>4. QED
    BY <1>1, <1>2, <2>2, <2>3 DEF ChainInv, LocksAgree
<1>6. QED
  BY <1>1, <1>2, <1>3, <1>4, <1>5, <1>y, ReplaceTx

\* Every kind of call starts a transaction of the right shape.
LEMMA CallInv ==
    ASSUME ChainInv, NEW t \in Txs, NEW c \in Chains, Call(t, c)
    PROVE  ChainInv'
<1>1. ASSUME NEW k \in Keys \cup {None}, NEW b \in BOOLEAN, b => k = None, Start(t, c, <<k>>, {}, b)
      PROVE  ChainInv'
  <2>1. k \in AllKeys /\ k \notin Handles
    BY ChainConstants DEF AllKeys
  <2>2. PICK keys : keys = <<k>>
    OBVIOUS
  <2>3. keys \in Seq(AllKeys) /\ Len(keys) <= 1 /\ \A i \in DOMAIN keys : keys[i] = k
    BY <2>1, <2>2
  <2>4. PICK claim : claim = {}
    OBVIOUS
  <2>5. claim \in SUBSET Handles
    BY <2>4
  <2>6. \A i \in DOMAIN keys : IF claim = {} THEN keys[i] \notin Handles ELSE keys[i] \in claim
    BY <2>1, <2>3, <2>4
  <2>7. b => /\ claim = {} /\ Len(keys) <= 1
             /\ \A i \in DOMAIN keys : keys[i] = None
    BY <1>1, <2>3, <2>4
  <2>8. \A h \in claim : \E i \in DOMAIN keys : keys[i] = h
    BY <2>4
  <2>9. Start(t, c, keys, claim, b)
    BY <1>1, <2>2, <2>4
  <2>10. QED
    BY <2>3, <2>5, <2>6, <2>7, <2>8, <2>9, StartInv
<1>2. CASE \/ \E k \in Keys \cup {None} : DomainAppend(t, c, k)
           \/ WorkflowAppend(t, c)
  BY <1>1, <1>2 DEF DomainAppend, WorkflowAppend
<1>3. ASSUME NEW handles \in Claims, Claim(t, c, handles) PROVE ChainInv'
  <2> DEFINE claim == {handles[i] : i \in DOMAIN handles}
  <2>1. handles \in Seq(Handles)
    BY ChainConstants
  <2>2. handles \in Seq(AllKeys) /\ claim \subseteq Handles
    <3>1. \A i \in DOMAIN handles : handles[i] \in Handles
      BY <2>1
    <3>2. handles \in Seq(Handles \cup Keys \cup {None})
      BY <2>1
    <3>3. QED
      BY <3>1, <3>2 DEF AllKeys
  <2>3. \A i \in DOMAIN handles : handles[i] \in claim
    OBVIOUS
  <2>4. \A k \in claim : \E i \in DOMAIN handles : handles[i] = k
    OBVIOUS
  <2>5. Start(t, c, handles, claim, FALSE)
    BY <1>3 DEF Claim
  <2> HIDE DEF claim
  <2>6. \A i \in DOMAIN handles : IF claim = {} THEN handles[i] \notin Handles
                                  ELSE handles[i] \in claim
    BY <2>3
  <2>7. QED
    BY <2>2, <2>4, <2>5, <2>6, StartInv
<1>4. QED
  BY <1>1, <1>2, <1>3 DEF Call

\* The lock goes to a waiting transaction when nobody has it.
LEMMA AcquireLockInv ==
    ASSUME ChainInv, NEW t \in Txs, AcquireLock(t)
    PROVE  ChainInv'
<1>x. PICK x : x = tx[t]
  OBVIOUS
<1>y. PICK y : y = [x EXCEPT !.step = "appending"]
  OBVIOUS
<1>1. /\ x \in Transaction /\ PerTx(x) /\ x.step = "waiting" /\ lock[x.chain] = None
      /\ x.chain \in Chains /\ x.written = {}
  BY <1>x DEF ChainInv, TypeOK, PerTx, ShapeOf, AcquireLock, LockAvailable
<1>2. /\ lock' = [lock EXCEPT ![x.chain] = t] /\ tx' = [tx EXCEPT ![t] = y]
      /\ UNCHANGED <<rows, granted>>
  BY <1>x, <1>y DEF AcquireLock
<1>3. /\ lock \in [Chains -> Txs \cup {None}] /\ \A u \in Txs : tx'[u] = IF u = t THEN y ELSE tx[u]
      /\ rows \in [Chains -> SUBSET Row]
  BY <1>2 DEF ChainInv, TypeOK
<1>4. /\ y \in Transaction /\ y.step = "appending" /\ y.chain = x.chain /\ y.written = {}
      /\ y.todo = x.todo /\ y.claim = x.claim /\ y.snapshot = x.snapshot
      /\ y.serializable = x.serializable
  BY <1>1, <1>y DEF Transaction, Steps
<1>5. PerTx(y)
  <2>1. ShapeOf(y) /\ ClaimIsPending(y) /\ SnapshotIsPrefix(y)
    BY <1>1, <1>4 DEF PerTx, ShapeOf, ClaimIsPending, SnapshotIsPrefix
  <2>2. rows[y.chain] \cup y.written = rows[y.chain] /\ Sound(rows[y.chain])
    BY <1>1, <1>4 DEF ChainInv
  <2>3. WritesExtend(y)
    BY <1>4, <2>2 DEF WritesExtend
  <2>4. QED
    BY <2>1, <2>3 DEF PerTx
<1>6. LocksAgree'
  <2>1. ASSUME NEW u \in Txs, tx'[u].step \in {"appending", "collided"}
        PROVE  lock'[tx'[u].chain] = u
    <3>1. CASE u = t
      BY <1>1, <1>2, <1>3, <1>4, <3>1
    <3>2. CASE u # t
      <4>1. tx'[u] = tx[u] /\ lock[tx[u].chain] = u
        BY <1>3, <2>1, <3>2 DEF ChainInv, LocksAgree
      <4>2. tx[u].chain # x.chain
        BY <1>1, <4>1, ChainConstants
      <4>3. tx[u].chain \in Chains
        BY <2>1, <4>1 DEF ChainInv, ShapeOf
      <4>4. QED
        BY <1>2, <1>3, <4>1, <4>2, <4>3
    <3>3. QED
      BY <3>1, <3>2
  <2>2. ASSUME NEW c \in Chains, lock'[c] # None
        PROVE  tx'[lock'[c]].step \in {"appending", "collided"} /\ tx'[lock'[c]].chain = c
    <3>1. CASE c = x.chain
      BY <1>1, <1>2, <1>3, <1>4, <3>1
    <3>2. CASE c # x.chain
      <4>1. lock'[c] = lock[c] /\ lock[c] \in Txs
        BY <1>2, <1>3, <2>2, <3>2
      <4>2. tx[lock[c]].step \in {"appending", "collided"} /\ tx[lock[c]].chain = c
        BY <2>2, <4>1 DEF ChainInv, LocksAgree
      <4>3. QED
        BY <1>1, <1>3, <1>x, <4>1, <4>2
    <3>3. QED
      BY <3>1, <3>2
  <2>3. QED
    BY <2>1, <2>2 DEF LocksAgree
<1>7. lock' \in [Chains -> Txs \cup {None}]
  BY <1>2, <1>3
<1>8. QED
  BY <1>2, <1>4, <1>5, <1>6, <1>7, ReplaceTx

\* The first element of a sequence, and what is left without it.
LEMMA TailFacts ==
    ASSUME NEW S, NEW s \in Seq(S), s # <<>>
    PROVE  /\ Head(s) = s[1] /\ 1 \in DOMAIN s
           /\ Tail(s) \in Seq(S)
           /\ \A i \in DOMAIN Tail(s) : i + 1 \in DOMAIN s /\ Tail(s)[i] = s[i + 1]
           /\ \A i \in DOMAIN s : i # 1 => i - 1 \in DOMAIN Tail(s) /\ Tail(s)[i - 1] = s[i]
OBVIOUS

\* A call takes the row of its key as its own; a claim gives up.
LEMMA FindExistingInv ==
    ASSUME ChainInv, NEW t \in Txs, FindExisting(t)
    PROVE  ChainInv'
<1>x. PICK x : x = tx[t]
  OBVIOUS
<1>1. /\ x \in Transaction /\ PerTx(x) /\ x.step = "appending" /\ x.todo # <<>>
      /\ UNCHANGED <<rows, granted>>
  BY <1>x DEF ChainInv, TypeOK, PerTx, FindExisting
<1>2. CASE x.claim = {}
  <2>y. PICK y : y = [x EXCEPT !.todo = Tail(x.todo)]
    OBVIOUS
  <2>1. tx' = [tx EXCEPT ![t] = y] /\ lock' = lock
    BY <1>2, <1>x, <2>y DEF FindExisting
  <2>2. /\ x.todo \in Seq(AllKeys) /\ Tail(x.todo) \in Seq(AllKeys)
        /\ \A i \in DOMAIN Tail(x.todo) : i + 1 \in DOMAIN x.todo /\ Tail(x.todo)[i] = x.todo[i + 1]
    BY <1>1, TailFacts DEF Transaction
  <2>3. /\ y \in Transaction /\ y.step = "appending" /\ y.chain = x.chain /\ y.written = x.written
        /\ y.todo = Tail(x.todo) /\ y.claim = {} /\ y.snapshot = x.snapshot
        /\ y.serializable = x.serializable
    BY <1>1, <1>2, <2>2, <2>y DEF Transaction, Steps
  <2>4. ShapeOf(y)
    <3>1. \A i \in DOMAIN y.todo : y.todo[i] \notin Handles
      BY <1>1, <1>2, <2>2, <2>3 DEF PerTx, ShapeOf
    <3>2. y.serializable => /\ x.written = {} /\ Len(y.todo) <= 1
                            /\ \A i \in DOMAIN y.todo : y.todo[i] = None
      <4>1. Len(Tail(x.todo)) <= Len(x.todo)
        BY <1>1, <2>2
      <4>2. Len(Tail(x.todo)) \in Nat /\ Len(x.todo) \in Nat
        BY <2>2
      <4>3. QED
        BY <1>1, <2>2, <2>3, <4>1, <4>2 DEF PerTx, ShapeOf
    <3>3. y.chain \in Chains
      BY <1>1, <2>3 DEF PerTx, ShapeOf
    <3>4. QED
      BY <2>3, <3>1, <3>2, <3>3 DEF ShapeOf
  <2>5. ClaimIsPending(y)
    BY <2>3 DEF ClaimIsPending
  <2>6. WritesExtend(y) /\ SnapshotIsPrefix(y)
    BY <1>1, <1>2, <2>3 DEF PerTx, WritesExtend, SnapshotIsPrefix
  <2>7. LocksAgree' /\ lock' \in [Chains -> Txs \cup {None}]
    BY <1>1, <1>x, <2>1, <2>3, KeepLocks
  <2>8. QED
    BY <1>1, <2>1, <2>3, <2>4, <2>5, <2>6, <2>7, ReplaceTx DEF PerTx
<1>3. CASE x.claim # {}
  <2>1. tx' = Ended(t) /\ lock' = Release(t)
    BY <1>1, <1>3, <1>x DEF FindExisting
  <2>2. QED
    BY <1>1, <2>1, EndInv
<1>4. QED
  BY <1>2, <1>3

\* A part of the rows ends no later than all of them.
LEMMA SubsetLast ==
    ASSUME NEW a, NEW b, Sound(a), Sound(b), a \subseteq b
    PROVE  LastSequence(a) <= LastSequence(b)
<1>1. CASE a = {}
  BY <1>1, EmptyIsSound DEF Sound
<1>2. CASE a # {}
  <2>1. {r.sequence : r \in a} = 1..LastSequence(a) /\ LastSequence(a) \in Nat
    BY DEF Sound, verifyAuditChainRows
  <2>2. LastSequence(a) >= 1
    BY <1>2, <2>1
  <2>3. PICK r \in a : r.sequence = LastSequence(a)
    BY <2>1, <2>2
  <2>4. r \in b
    OBVIOUS
  <2>5. QED
    BY <2>3, <2>4, SoundBounds
<1>3. QED
  BY <1>1, <1>2

\* The transaction after an INSERT that no unique index refuses.
Inserted(x) ==
    [x EXCEPT !.todo = Tail(x.todo),
              !.written = x.written \cup {NextRow(Visible(x), Head(x.todo))}]

\* What an INSERT adds to its transaction continues the chain.
LEMMA InsertExtends ==
    ASSUME ChainInv, NEW t \in Txs, NEW x, x = tx[t], x.step = "appending", x.todo # <<>>,
           \A r \in Visible(x) : Head(x.todo) = None \/ r.key # Head(x.todo),
           Visible(x) = rows[x.chain] \cup x.written
    PROVE  /\ Inserted(x) \in Transaction /\ PerTx(Inserted(x))
           /\ Inserted(x).step = "appending" /\ Inserted(x).chain = x.chain
<1>n. PICK new : new = NextRow(Visible(x), Head(x.todo))
  OBVIOUS
<1>y. PICK y : y = Inserted(x)
  OBVIOUS
<1>z. y = [x EXCEPT !.todo = Tail(x.todo), !.written = x.written \cup {new}]
  BY <1>n, <1>y DEF Inserted
<1>k. PICK k : k = Head(x.todo)
  OBVIOUS
<1>0. /\ \A r \in Visible(x) : k = None \/ r.key # k
      /\ new = NextRow(Visible(x), k)
  BY <1>k, <1>n
<1>1. /\ x \in Transaction /\ PerTx(x) /\ x.chain \in Chains /\ rows \in [Chains -> SUBSET Row]
  BY DEF ChainInv, TypeOK, PerTx, ShapeOf
<1> DEFINE all == rows[x.chain] \cup x.written
<1>2. Sound(all) /\ Sound(rows[x.chain]) /\ all \in SUBSET Row
  BY <1>1 DEF ChainInv, PerTx, WritesExtend, Transaction
<1>3. /\ x.todo \in Seq(AllKeys) /\ k = x.todo[1] /\ 1 \in DOMAIN x.todo /\ k \in AllKeys
      /\ Tail(x.todo) \in Seq(AllKeys) /\ Len(Tail(x.todo)) = Len(x.todo) - 1
      /\ \A i \in DOMAIN Tail(x.todo) : i + 1 \in DOMAIN x.todo /\ Tail(x.todo)[i] = x.todo[i + 1]
      /\ \A i \in DOMAIN x.todo : i # 1 => /\ i - 1 \in DOMAIN Tail(x.todo)
                                           /\ Tail(x.todo)[i - 1] = x.todo[i]
  <2>1. x.todo \in Seq(AllKeys)
    BY <1>1 DEF Transaction
  <2>2. x.todo[1] \in AllKeys /\ Len(Tail(x.todo)) = Len(x.todo) - 1
    BY <2>1
  <2>3. QED
    BY <1>k, <2>1, <2>2, TailFacts
<1>4. new = NextRow(all, k)
  BY <1>0
<1>5. new \in Row
  <2> HIDE DEF all
  <2> QED BY <1>2, <1>3, <1>4, NextRowType
<1>6. /\ Sound(all \cup {new}) /\ new.sequence = LastSequence(all) + 1 /\ new.key = k
  <2>1. PICK rs : rs = all
    OBVIOUS
  <2> HIDE DEF all
  <2>2. Sound(rs) /\ new = NextRow(rs, k)
    BY <1>2, <1>4, <2>1
  <2>3. Sound(rs \cup {new}) /\ new.sequence = LastSequence(rs) + 1 /\ new.key = k
    <3>1. /\ Sound(rs \cup {NextRow(rs, k)})
          /\ NextRow(rs, k).sequence = LastSequence(rs) + 1 /\ NextRow(rs, k).key = k
      BY <2>2, NextRowExtends
    <3>2. QED
      BY <2>2, <3>1
  <2>4. QED
    BY <2>1, <2>3
<1>7. /\ y \in Transaction /\ y.step = "appending" /\ y.chain = x.chain
      /\ y.written = x.written \cup {new} /\ y.todo = Tail(x.todo) /\ y.claim = x.claim
      /\ y.snapshot = x.snapshot /\ y.serializable = x.serializable
  BY <1>1, <1>3, <1>5, <1>z DEF Transaction, Steps
<1>8. ShapeOf(y)
  <2>1. \A i \in DOMAIN y.todo : IF y.claim = {} THEN y.todo[i] \notin Handles
                                ELSE y.todo[i] \in y.claim
    BY <1>1, <1>3, <1>7 DEF PerTx, ShapeOf
  <2>2. ASSUME y.serializable
        PROVE  y.claim = {} /\ Len(y.todo) <= 1 /\ y.todo = <<>>
    <3>1. x.claim = {} /\ Len(x.todo) <= 1 /\ Len(x.todo) \in Nat
      BY <1>1, <1>3, <1>7, <2>2 DEF PerTx, ShapeOf
    <3>2. Len(y.todo) \in Nat /\ Len(y.todo) <= 0
      BY <1>3, <1>7, <3>1
    <3>3. y.todo \in Seq(AllKeys)
      BY <1>3, <1>7
    <3>4. y.todo = <<>>
      BY <3>2, <3>3
    <3>5. QED
      BY <1>7, <3>1, <3>2, <3>4
  <2>3. QED
    BY <1>1, <1>7, <2>1, <2>2 DEF ShapeOf
<1>9. ClaimIsPending(y)
  <2>1. ASSUME NEW h \in y.claim
        PROVE  \/ \E r \in y.written : r.key = h
               \/ \E i \in DOMAIN y.todo : y.todo[i] = h
    <3>1. CASE \E r \in x.written : r.key = h
      BY <1>7, <3>1
    <3>2. CASE \E i \in DOMAIN x.todo : x.todo[i] = h
      <4>1. PICK i \in DOMAIN x.todo : x.todo[i] = h
        BY <3>2
      <4>2. CASE i = 1
        BY <1>3, <1>6, <1>7, <4>1, <4>2
      <4>3. CASE i # 1
        <5>1. i - 1 \in DOMAIN Tail(x.todo) /\ Tail(x.todo)[i - 1] = h
          BY <1>3, <4>1, <4>3
        <5>2. i - 1 \in DOMAIN y.todo /\ y.todo[i - 1] = h
          BY <1>7, <5>1
        <5>3. QED
          BY <5>2
      <4>4. QED
        BY <4>2, <4>3
    <3>3. QED
      BY <1>1, <1>7, <2>1, <3>1, <3>2 DEF PerTx, ClaimIsPending
  <2>2. QED
    BY <2>1 DEF ClaimIsPending
<1>10. WritesExtend(y)
  <2>1. rows[y.chain] \cup y.written = all \cup {new}
    BY <1>7
  <2>2. new.sequence > LastSequence(rows[x.chain])
    <3>1. LastSequence(rows[x.chain]) <= LastSequence(all)
      <4>1. rows[x.chain] \subseteq all
        OBVIOUS
      <4> HIDE DEF all
      <4>2. QED
        BY <1>2, <4>1, SubsetLast
    <3>2. LastSequence(rows[x.chain]) \in Nat /\ LastSequence(all) \in Nat
      BY <1>2 DEF Sound
    <3> HIDE DEF all
    <3>3. QED
      BY <1>6, <3>1, <3>2
  <2>3. new.key \in Handles => new.key \in x.claim
    BY <1>1, <1>3, <1>6 DEF PerTx, ShapeOf
  <2>4. new.key # None => \A s \in rows[x.chain] : s.key # new.key
    BY <1>0, <1>6
  <2>5. \A r \in x.written :
              /\ r.sequence > LastSequence(rows[x.chain])
              /\ r.key \in Handles => r.key \in x.claim
              /\ r.key # None => \A s \in rows[x.chain] : s.key # r.key
    BY <1>1 DEF PerTx, WritesExtend
  <2>6. Sound(rows[y.chain] \cup y.written)
    BY <1>6, <2>1
  <2>7. QED
    BY <1>7, <2>2, <2>3, <2>4, <2>5, <2>6 DEF WritesExtend
<1>11. SnapshotIsPrefix(y)
  BY <1>1, <1>7 DEF PerTx, SnapshotIsPrefix
<1>12. QED
  BY <1>y, <1>7, <1>8, <1>9, <1>10, <1>11 DEF PerTx

\* READ COMMITTED sees the whole chain, and the unique indexes have nothing to refuse; SERIALIZABLE
\* either sees the whole chain as well or is refused.
LEMMA SeesAllOrCollides ==
    ASSUME ChainInv, NEW t \in Txs, NEW x, x = tx[t], x.step = "appending", x.todo # <<>>,
           NEW k, k = Head(x.todo), \A r \in Visible(x) : k = None \/ r.key # k,
           NEW new, new = NextRow(Visible(x), k)
    PROVE  /\ ~x.serializable => ~Collides(x.chain, new)
           /\ ~Collides(x.chain, new) => Visible(x) = rows[x.chain] \cup x.written
<1>1. /\ x \in Transaction /\ PerTx(x) /\ x.chain \in Chains
      /\ Sound(rows[x.chain] \cup x.written) /\ Sound(rows[x.chain])
  BY DEF ChainInv, TypeOK, PerTx, ShapeOf, WritesExtend
<1>2. CASE ~x.serializable
  <2>1. Visible(x) = rows[x.chain] \cup x.written
    BY <1>2 DEF Visible
  <2>2. new.sequence = LastSequence(Visible(x)) + 1 /\ new.key = k
    BY DEF NextRow
  <2>3. \A r \in rows[x.chain] : r.sequence # new.sequence
    <3>1. ASSUME NEW r \in rows[x.chain] PROVE r.sequence # new.sequence
      <4>1. r \in rows[x.chain] \cup x.written
        OBVIOUS
      <4>2. r.sequence \in Nat /\ r.sequence <= LastSequence(rows[x.chain] \cup x.written)
        BY <1>1, <4>1, SoundBounds
      <4>3. LastSequence(rows[x.chain] \cup x.written) \in Nat
        BY <1>1 DEF Sound
      <4>4. QED
        BY <2>1, <2>2, <4>2, <4>3
    <3>2. QED
      BY <3>1
  <2>4. QED
    BY <1>2, <2>1, <2>2, <2>3 DEF Collides
<1>3. CASE x.serializable
  <2>1. x.written = {}
    BY <1>1, <1>3 DEF PerTx, ShapeOf
  <2>2. Visible(x) = x.snapshot /\ rows[x.chain] \cup x.written = rows[x.chain]
    BY <1>3, <2>1 DEF Visible
  <2>3. /\ Sound(x.snapshot) /\ x.snapshot \subseteq rows[x.chain]
        /\ \A r \in rows[x.chain] : r.sequence <= LastSequence(x.snapshot) => r \in x.snapshot
    BY <1>1 DEF PerTx, SnapshotIsPrefix
  <2>4. new.sequence = LastSequence(x.snapshot) + 1
    BY <2>2 DEF NextRow
  <2>5. ASSUME ~Collides(x.chain, new) PROVE x.snapshot = rows[x.chain]
    <3>1. \A r \in rows[x.chain] : r.sequence # LastSequence(x.snapshot) + 1
      BY <2>4, <2>5 DEF Collides
    <3>2. QED
      BY <1>1, <2>3, <3>1, StaleSnapshotCollides
  <2>6. QED
    BY <1>3, <2>2, <2>5
<1>4. QED
  BY <1>2, <1>3

\* An INSERT continues the chain, or is refused and aborts its transaction.
LEMMA InsertNextInv ==
    ASSUME ChainInv, NEW t \in Txs, InsertNext(t)
    PROVE  ChainInv'
<1>x. PICK x : x = tx[t]
  OBVIOUS
<1>k. PICK k : k = Head(x.todo)
  OBVIOUS
<1>n. PICK new : new = NextRow(Visible(x), k)
  OBVIOUS
<1>1. /\ x \in Transaction /\ PerTx(x) /\ x.step = "appending" /\ x.todo # <<>>
      /\ \A r \in Visible(x) : k = None \/ r.key # k
      /\ UNCHANGED <<rows, lock, granted>>
  BY <1>x, <1>k DEF ChainInv, TypeOK, PerTx, InsertNext
<1>2. tx' = [tx EXCEPT ![t] =
          IF Collides(x.chain, new)
          THEN [x EXCEPT !.step = "collided", !.written = {}]
          ELSE [x EXCEPT !.todo = Tail(x.todo), !.written = @ \cup {new}]]
  BY <1>x, <1>k, <1>n DEF InsertNext
<1>3. /\ ~x.serializable => ~Collides(x.chain, new)
      /\ ~Collides(x.chain, new) => Visible(x) = rows[x.chain] \cup x.written
  BY <1>1, <1>x, <1>k, <1>n, SeesAllOrCollides
<1>4. CASE Collides(x.chain, new)
  <2>y. PICK y : y = [x EXCEPT !.step = "collided", !.written = {}]
    OBVIOUS
  <2>1. tx' = [tx EXCEPT ![t] = y] /\ x.serializable
    BY <1>1, <1>2, <1>3, <1>4, <2>y DEF Transaction
  <2>2. /\ y \in Transaction /\ y.step = "collided" /\ y.chain = x.chain /\ y.written = {}
        /\ y.todo = x.todo /\ y.claim = x.claim /\ y.snapshot = x.snapshot
        /\ y.serializable = x.serializable
    BY <1>1, <2>y DEF Transaction, Steps
  <2>3. PerTx(y)
    BY <1>1, <2>2 DEF PerTx, ShapeOf, ClaimIsPending, WritesExtend, SnapshotIsPrefix
  <2>4. LocksAgree' /\ lock' \in [Chains -> Txs \cup {None}]
    BY <1>1, <1>x, <2>1, <2>2, KeepLocks
  <2>5. QED
    BY <1>1, <2>1, <2>2, <2>3, <2>4, ReplaceTx
<1>5. CASE ~Collides(x.chain, new)
  <2>y. PICK y : y = Inserted(x)
    OBVIOUS
  <2>1. tx' = [tx EXCEPT ![t] = y]
    BY <1>2, <1>5, <1>k, <1>n, <2>y DEF Inserted
  <2>2. /\ Visible(x) = rows[x.chain] \cup x.written
        /\ \A r \in Visible(x) : Head(x.todo) = None \/ r.key # Head(x.todo)
    BY <1>1, <1>3, <1>5, <1>k
  <2>3. y \in Transaction /\ PerTx(y) /\ y.step = "appending" /\ y.chain = x.chain
    BY <1>1, <1>x, <2>y, <2>2, InsertExtends
  <2>4. LocksAgree' /\ lock' \in [Chains -> Txs \cup {None}]
    BY <1>1, <1>x, <2>1, <2>3, KeepLocks
  <2>5. QED
    BY <1>1, <2>1, <2>3, <2>4, ReplaceTx
<1>6. QED
  BY <1>4, <1>5

\* What a commit adds continues the chain, and grants exactly the handles that are new to it.
LEMMA CommitInv ==
    ASSUME ChainInv, NEW t \in Txs, Commit(t)
    PROVE  ChainInv'
<1>x. PICK x : x = tx[t]
  OBVIOUS
<1>c. PICK c : c = x.chain
  OBVIOUS
<1>1. /\ x \in Transaction /\ PerTx(x) /\ x.step = "appending" /\ x.todo = <<>> /\ c \in Chains
      /\ lock[c] = t
  BY <1>x, <1>c DEF ChainInv, TypeOK, PerTx, ShapeOf, LocksAgree, Commit
<1>2. /\ rows \in [Chains -> SUBSET Row] /\ granted \in [Chains -> [Handles -> Nat]]
      /\ tx \in [Txs -> Transaction]
  BY DEF ChainInv, TypeOK
<1>3. /\ rows' = [rows EXCEPT ![c] = rows[c] \cup x.written]
      /\ granted' = [granted EXCEPT ![c] =
             [k \in Handles |-> IF k \in x.claim THEN granted[c][k] + 1 ELSE granted[c][k]]]
      /\ lock' = Release(t) /\ tx' = Ended(t)
  BY <1>x, <1>c DEF Commit
<1>4. /\ \A d \in Chains : rows'[d] = IF d = c THEN rows[c] \cup x.written ELSE rows[d]
      /\ \A u \in Txs : tx'[u] = IF u = t THEN Idle ELSE tx[u]
  BY <1>1, <1>2, <1>3 DEF Ended
<1>5. /\ Sound(rows[c] \cup x.written) /\ Sound(rows[c])
      /\ \A r \in x.written :
            /\ r.sequence > LastSequence(rows[c])
            /\ r.key \in Handles => r.key \in x.claim
            /\ r.key # None => \A s \in rows[c] : s.key # r.key
  BY <1>1, <1>c DEF ChainInv, PerTx, WritesExtend
<1>6. Idle \in Transaction /\ Idle.step = "idle"
  BY DEF Idle, Transaction, Steps
<1>7. LocksAgree' /\ lock' \in [Chains -> Txs \cup {None}]
  BY <1>3, EndLocks
<1>8. TypeOK'
  <2>1. rows' \in [Chains -> SUBSET Row]
    BY <1>1, <1>2, <1>3 DEF Transaction
  <2>2. granted' \in [Chains -> [Handles -> Nat]]
    BY <1>1, <1>2, <1>3
  <2>3. tx' \in [Txs -> Transaction]
    BY <1>2, <1>3, <1>6 DEF Ended
  <2>4. QED
    BY <1>7, <2>1, <2>2, <2>3 DEF TypeOK
<1>9. (\A d \in Chains : Sound(rows[d]))'
  <2>1. \A d \in Chains : Sound(rows[d])
    BY DEF ChainInv
  <2>2. ASSUME NEW d \in Chains PROVE Sound(rows'[d])
    BY <1>4, <1>5, <2>1
  <2>3. QED
    BY <2>2 DEF Sound, verifyAuditChainRows, LastSequence
<1>10. HandlesAreClaimedOnce'
  <2>1. ASSUME NEW d \in Chains, NEW k \in Handles
        PROVE  granted'[d][k] = IF \E r \in rows'[d] : r.key = k THEN 1 ELSE 0
    <3>0. granted[d][k] = IF \E r \in rows[d] : r.key = k THEN 1 ELSE 0
      BY DEF ChainInv, HandlesAreClaimedOnce
    <3>1. CASE d # c
      BY <1>2, <1>3, <1>4, <3>0, <3>1
    <3>2. CASE d = c /\ k \in x.claim
      <4>1. \E r \in x.written : r.key = k
        BY <1>1, <3>2 DEF PerTx, ClaimIsPending
      <4>2. k # None
        BY ChainConstants
      <4>3. ~ \E s \in rows[c] : s.key = k
        BY <1>5, <4>1, <4>2
      <4>4. granted[d][k] = 0
        BY <3>0, <3>2, <4>3
      <4>5. granted'[d][k] = granted[d][k] + 1
        BY <1>1, <1>2, <1>3, <3>2
      <4>6. \E r \in rows'[d] : r.key = k
        BY <1>4, <3>2, <4>1
      <4>7. QED
        BY <4>4, <4>5, <4>6
    <3>3. CASE d = c /\ k \notin x.claim
      <4>1. granted'[d][k] = granted[d][k]
        BY <1>1, <1>2, <1>3, <3>3
      <4>2. ~ \E r \in x.written : r.key = k
        BY <1>5, <3>3
      <4>3. (\E r \in rows'[d] : r.key = k) <=> \E r \in rows[d] : r.key = k
        BY <1>4, <3>3, <4>2
      <4>4. QED
        BY <3>0, <4>1, <4>3
    <3>4. QED
      BY <3>1, <3>2, <3>3
  <2>2. QED
    BY <2>1 DEF HandlesAreClaimedOnce
<1>11. ASSUME NEW u \in Txs PROVE PerTx(tx[u])'
  <2>z. PICK z : z = tx'[u]
    OBVIOUS
  <2>1. CASE z.step = "idle"
    <3>1. z = Idle
      BY <1>4, <1>6, <2>z, <2>1 DEF ChainInv, ShapeOf
    <3>2. PerTx(z)'
      BY <3>1 DEF PerTx, ShapeOf, ClaimIsPending, WritesExtend, SnapshotIsPrefix, Idle
    <3>3. QED
      BY <2>z, <3>2 DEF PerTx, ShapeOf, ClaimIsPending, WritesExtend, SnapshotIsPrefix
  <2>2. CASE z.step # "idle"
    <3>1. u # t /\ z = tx[u] /\ PerTx(z) /\ z.chain \in Chains
      BY <1>4, <1>6, <2>z, <2>2 DEF ChainInv, PerTx, ShapeOf
    <3>2. ShapeOf(z)' /\ ClaimIsPending(z)'
      BY <3>1 DEF PerTx, ShapeOf, ClaimIsPending
    <3>3. WritesExtend(z)'
      <4>1. z.step = "appending" => z.chain # c
        BY <1>1, <3>1 DEF ChainInv, LocksAgree
      <4>2. z.step = "appending" => rows'[z.chain] = rows[z.chain]
        BY <1>4, <3>1, <4>1
      <4>3. WritesExtend(z)
        BY <3>1 DEF PerTx
      <4>4. QED
        BY <4>2, <4>3 DEF WritesExtend, Sound, verifyAuditChainRows, LastSequence
    <3>4. SnapshotIsPrefix(z)'
      <4>1. /\ Sound(z.snapshot) /\ z.snapshot \subseteq rows[z.chain]
            /\ \A r \in rows[z.chain] : r.sequence <= LastSequence(z.snapshot) => r \in z.snapshot
        BY <2>2, <3>1 DEF PerTx, SnapshotIsPrefix
      <4>2. z.snapshot \subseteq rows'[z.chain]
        BY <1>4, <3>1, <4>1
      <4>3. ASSUME NEW r \in rows'[z.chain], r.sequence <= LastSequence(z.snapshot)
            PROVE  r \in z.snapshot
        <5>1. CASE r \in rows[z.chain]
          BY <4>1, <4>3, <5>1
        <5>2. CASE r \notin rows[z.chain]
          <6>1. z.chain = c /\ r \in x.written
            BY <1>4, <3>1, <4>3, <5>2
          <6>2. LastSequence(z.snapshot) <= LastSequence(rows[c])
            BY <1>5, <4>1, <6>1, SubsetLast
          <6>3. LastSequence(z.snapshot) \in Nat /\ LastSequence(rows[c]) \in Nat
            BY <1>5, <4>1 DEF Sound
          <6>4. r.sequence > LastSequence(rows[c]) /\ r.sequence \in Nat
            BY <1>1, <1>5, <6>1 DEF Transaction, Row
          <6>5. QED
            BY <4>3, <6>2, <6>3, <6>4
        <5>3. QED
          BY <5>1, <5>2
      <4>4. QED
        BY <4>1, <4>2, <4>3 DEF SnapshotIsPrefix, Sound, verifyAuditChainRows, LastSequence
    <3>5. QED
      BY <2>z, <3>2, <3>3, <3>4 DEF PerTx, ShapeOf, ClaimIsPending, WritesExtend, SnapshotIsPrefix
  <2>3. QED
    BY <2>1, <2>2
<1>12. ReadCommittedNeverCollides'
  BY <1>4, <1>6 DEF ChainInv, ReadCommittedNeverCollides
<1>13. QED
  BY <1>7, <1>8, <1>9, <1>10, <1>11, <1>12 DEF ChainInv, PerTx

\* A transaction that fails changes no row.
LEMMA RollbackInv ==
    ASSUME ChainInv, NEW t \in Txs, Rollback(t)
    PROVE  ChainInv'
BY EndInv DEF Rollback

\* Every step of the chain keeps the invariant.
LEMMA ChainInvStep == ChainInv /\ [Next]_vars => ChainInv'
<1> SUFFICES ASSUME ChainInv, [Next]_vars PROVE ChainInv'
  OBVIOUS
<1>1. ASSUME NEW t \in Txs, NEW c \in Chains, Call(t, c) PROVE ChainInv'
  BY <1>1, CallInv
<1>2. ASSUME NEW t \in Txs,
             AcquireLock(t) \/ FindExisting(t) \/ InsertNext(t) \/ Commit(t) \/ Rollback(t)
      PROVE  ChainInv'
  BY <1>2, AcquireLockInv, FindExistingInv, InsertNextInv, CommitInv, RollbackInv
<1>3. CASE UNCHANGED vars
  <2>1. ASSUME NEW u \in Txs PROVE PerTx(tx[u])'
    BY <1>3 DEF vars, ChainInv, PerTx, ShapeOf, ClaimIsPending, WritesExtend, SnapshotIsPrefix
  <2>2. TypeOK' /\ HandlesAreClaimedOnce' /\ ReadCommittedNeverCollides'
    BY <1>3 DEF vars, ChainInv, TypeOK, HandlesAreClaimedOnce, ReadCommittedNeverCollides
  <2>3. LocksAgree'
    BY <1>3 DEF vars, ChainInv, LocksAgree
  <2>4. (\A c \in Chains : Sound(rows[c]))'
    <3>1. ASSUME NEW c \in Chains PROVE Sound(rows[c])'
      <4>1. PICK rs : rs = rows[c]
        OBVIOUS
      <4>2. rows'[c] = rs /\ Sound(rs)
        BY <1>3, <4>1 DEF vars, ChainInv
      <4>3. Sound(rows'[c])
        BY <4>2
      <4>4. QED
        BY <4>3 DEF Sound, verifyAuditChainRows, LastSequence
    <3>2. QED
      BY <3>1
  <2>5. QED
    BY <2>1, <2>2, <2>3, <2>4 DEF ChainInv, PerTx
<1>4. QED
  BY <1>1, <1>2, <1>3 DEF Next
-----------------------------------------------------------------------------
(* What a call has written and what it has to do are what it asked for *)

\* Of a transaction that has written nothing it does not matter how far its chain has come.
LEMMA UnwrittenUnderWay ==
    ASSUME NEW old, NEW new, NEW x, UnderWay(old, x), x.written = {}, x.todo \in Seq(AllKeys),
           LastSequence(old) \in Nat, LastSequence(new) \in Nat
    PROVE  UnderWay(new, x)
<1>1. old \cup x.written = old /\ new \cup x.written = new /\ Len(x.todo) \in Nat
  OBVIOUS
<1>2. OneEvent(old, x) => OneEvent(new, x)
  BY <1>1 DEF OneEvent
<1>3. ASSUME NEW handles \in Claims, WholeClaim(old, x, handles)
      PROVE  WholeClaim(new, x, handles)
  <2> DEFINE n == Len(handles) - Len(x.todo)
  <2>1. n \in Nat /\ LastSequence(old) = LastSequence(old) + n
    BY <1>1, <1>3 DEF WholeClaim
  <2>2. n = 0
    BY <2>1
  <2>3. LastSequence(new) = LastSequence(new) + n /\ 1..n = {}
    BY <2>2
  <2>4. /\ x.claim = {handles[i] : i \in DOMAIN handles}
        /\ \A i \in DOMAIN x.todo : x.todo[i] = handles[n + i]
    BY <1>3 DEF WholeClaim
  <2>5. LastSequence(new \cup x.written) = LastSequence(new) + n
    BY <1>1, <2>3
  <2>6. \A i \in 1..n : \E r \in x.written : r.sequence = LastSequence(new) + i /\ r.key = handles[i]
    BY <2>3
  <2>7. QED
    BY <2>1, <2>4, <2>5, <2>6 DEF WholeClaim
<1>4. QED
  BY <1>2, <1>3 DEF UnderWay

\* A step that replaces one transaction and no row keeps what all of them have under way.
LEMMA ReplaceLedger ==
    ASSUME LedgerInv, ChainInv', NEW t \in Txs, NEW y, tx' = [tx EXCEPT ![t] = y], rows' = rows,
           y.step # "idle" => UnderWay(rows[y.chain], y) /\ WrittenOnce(y)
    PROVE  LedgerInv'
<1>1. \A u \in Txs : tx'[u] = IF u = t THEN y ELSE tx[u]
  BY DEF LedgerInv, ChainInv, TypeOK
<1>2. ASSUME NEW u \in Txs, tx'[u].step # "idle"
      PROVE  UnderWay(rows'[tx'[u].chain], tx'[u]) /\ WrittenOnce(tx'[u])
  BY <1>1, <1>2 DEF LedgerInv
<1>3. QED
  BY <1>2 DEF LedgerInv, UnderWay, OneEvent, WholeClaim, WrittenOnce, LastSequence

\* A transaction that ends without writing leaves the others alone.
LEMMA EndLedger ==
    ASSUME LedgerInv, ChainInv', NEW t \in Txs, tx' = Ended(t), rows' = rows
    PROVE  LedgerInv'
<1>1. Idle.step = "idle"
  BY DEF Idle
<1>2. QED
  BY <1>1, ReplaceLedger DEF Ended

\* A call starts with everything to do.
LEMMA StartLedger ==
    ASSUME LedgerInv, ChainInv', NEW t \in Txs, NEW c \in Chains, NEW keys \in Seq(AllKeys),
           NEW claim, NEW serializable, Start(t, c, keys, claim, serializable),
           claim = {} => Len(keys) <= 1,
           claim # {} => keys \in Claims /\ claim = {keys[i] : i \in DOMAIN keys}
    PROVE  LedgerInv'
<1>y. PICK y : y = [step |-> "waiting", chain |-> c, serializable |-> serializable,
                    todo |-> keys, claim |-> claim, snapshot |-> rows[c], written |-> {}]
  OBVIOUS
<1>1. tx' = [tx EXCEPT ![t] = y] /\ rows' = rows
  BY <1>y DEF Start
<1>2. /\ y.step = "waiting" /\ y.chain = c /\ y.todo = keys /\ y.claim = claim /\ y.written = {}
      /\ rows[c] \cup y.written = rows[c]
  BY <1>y
<1>3. LastSequence(rows[c]) \in Nat
  BY DEF LedgerInv, ChainInv, Sound
<1>4. claim = {} => OneEvent(rows[c], y)
  BY <1>2, <1>3 DEF OneEvent
<1>5. ASSUME claim # {} PROVE WholeClaim(rows[c], y, keys)
  <2>1. Len(keys) - Len(y.todo) = 0
    BY <1>2
  <2>2. 1..0 = {} /\ LastSequence(rows[c]) = LastSequence(rows[c]) + 0
    BY <1>3
  <2>3. \A i \in DOMAIN keys : keys[i] = keys[0 + i]
    OBVIOUS
  <2>4. QED
    BY <1>2, <1>5, <2>1, <2>2, <2>3 DEF WholeClaim
<1>6. UnderWay(rows[y.chain], y) /\ WrittenOnce(y)
  BY <1>2, <1>4, <1>5 DEF UnderWay, WrittenOnce
<1>7. QED
  BY <1>1, <1>6, ReplaceLedger

\* Every kind of call asks for one event or for a whole claim.
LEMMA CallLedger ==
    ASSUME LedgerInv, ChainInv', NEW t \in Txs, NEW c \in Chains, Call(t, c)
    PROVE  LedgerInv'
<1>1. ASSUME NEW k \in Keys \cup {None}, NEW b \in BOOLEAN, Start(t, c, <<k>>, {}, b)
      PROVE  LedgerInv'
  <2>1. PICK keys : keys = <<k>>
    OBVIOUS
  <2>2. keys \in Seq(AllKeys) /\ Len(keys) <= 1
    BY <2>1 DEF AllKeys
  <2>3. Start(t, c, keys, {}, b)
    BY <1>1, <2>1
  <2>4. QED
    BY <2>2, <2>3, StartLedger
<1>2. CASE \/ \E k \in Keys \cup {None} : DomainAppend(t, c, k)
           \/ WorkflowAppend(t, c)
  BY <1>1, <1>2 DEF DomainAppend, WorkflowAppend
<1>3. ASSUME NEW handles \in Claims, Claim(t, c, handles) PROVE LedgerInv'
  <2> DEFINE claim == {handles[i] : i \in DOMAIN handles}
  <2>1. handles \in Seq(Handles)
    BY ChainConstants
  <2>2. handles \in Seq(Handles \cup Keys \cup {None})
    BY <2>1
  <2>3. handles \in Seq(AllKeys)
    BY <2>2 DEF AllKeys
  <2>4. claim = {} => Len(handles) <= 1
    <3>1. ASSUME Len(handles) > 1 PROVE handles[1] \in claim
      BY <2>1, <3>1
    <3>2. Len(handles) \in Nat
      BY <2>1
    <3> HIDE DEF claim
    <3>3. QED
      BY <3>1, <3>2
  <2>5. Start(t, c, handles, claim, FALSE)
    BY <1>3 DEF Claim
  <2>6. claim # {} => handles \in Claims /\ claim = {handles[i] : i \in DOMAIN handles}
    OBVIOUS
  <2> HIDE DEF claim
  <2>7. QED
    BY <2>3, <2>4, <2>5, <2>6, StartLedger
<1>4. QED
  BY <1>1, <1>2, <1>3 DEF Call

\* The lock changes nothing of what is to do.
LEMMA AcquireLockLedger ==
    ASSUME LedgerInv, ChainInv', NEW t \in Txs, AcquireLock(t)
    PROVE  LedgerInv'
<1>x. PICK x : x = tx[t]
  OBVIOUS
<1>y. PICK y : y = [x EXCEPT !.step = "appending"]
  OBVIOUS
<1>1. x \in Transaction /\ x.step = "waiting" /\ UnderWay(rows[x.chain], x) /\ WrittenOnce(x)
  BY <1>x DEF LedgerInv, ChainInv, TypeOK, AcquireLock
<1>2. tx' = [tx EXCEPT ![t] = y] /\ rows' = rows
  BY <1>x, <1>y DEF AcquireLock
<1>3. /\ y.step = "appending" /\ y.chain = x.chain /\ y.todo = x.todo /\ y.claim = x.claim
      /\ y.written = x.written
  BY <1>1, <1>y DEF Transaction
<1>4. UnderWay(rows[y.chain], y) /\ WrittenOnce(y)
  <2>1. PICK old : old = rows[x.chain]
    OBVIOUS
  <2>2. OneEvent(old, x) => OneEvent(old, y)
    BY <1>3 DEF OneEvent
  <2>3. \A handles \in Claims : WholeClaim(old, x, handles) => WholeClaim(old, y, handles)
    BY <1>3 DEF WholeClaim
  <2>4. UnderWay(old, y)
    BY <1>1, <1>3, <2>1, <2>2, <2>3 DEF UnderWay
  <2>5. QED
    BY <1>1, <1>3, <2>1, <2>4 DEF WrittenOnce
<1>5. QED
  BY <1>2, <1>4, ReplaceLedger

\* An event that is there already need not be written.
LEMMA FindExistingLedger ==
    ASSUME LedgerInv, ChainInv', NEW t \in Txs, FindExisting(t)
    PROVE  LedgerInv'
<1>x. PICK x : x = tx[t]
  OBVIOUS
<1>1. /\ x \in Transaction /\ x.step = "appending" /\ x.todo # <<>> /\ rows' = rows
      /\ UnderWay(rows[x.chain], x) /\ WrittenOnce(x)
  BY <1>x DEF LedgerInv, ChainInv, TypeOK, FindExisting
<1>2. CASE x.claim = {}
  <2>y. PICK y : y = [x EXCEPT !.todo = Tail(x.todo)]
    OBVIOUS
  <2>1. tx' = [tx EXCEPT ![t] = y]
    BY <1>2, <1>x, <2>y DEF FindExisting
  <2>2. /\ y.step = "appending" /\ y.chain = x.chain /\ y.todo = Tail(x.todo) /\ y.claim = {}
        /\ y.written = x.written
    BY <1>1, <1>2, <2>y DEF Transaction
  <2>3. Len(x.todo) \in Nat /\ Len(y.todo) = Len(x.todo) - 1
    <3>1. x.todo \in Seq(AllKeys)
      BY <1>1 DEF Transaction
    <3>2. QED
      BY <1>1, <2>2, <3>1
  <2>4. LastSequence(rows[x.chain]) \in Nat /\ LastSequence(rows[x.chain] \cup x.written) \in Nat
    BY <1>1, <1>x DEF LedgerInv, ChainInv, ShapeOf, WritesExtend, Sound
  <2>5. OneEvent(rows[y.chain], y)
    BY <1>1, <1>2, <2>2, <2>3, <2>4 DEF UnderWay, OneEvent
  <2>6. UnderWay(rows[y.chain], y) /\ WrittenOnce(y)
    BY <1>1, <2>2, <2>5 DEF UnderWay, WrittenOnce
  <2>7. QED
    BY <1>1, <2>1, <2>6, ReplaceLedger
<1>3. CASE x.claim # {}
  <2>1. tx' = Ended(t)
    BY <1>1, <1>3, <1>x DEF FindExisting
  <2>2. QED
    BY <1>1, <2>1, EndLedger
<1>4. QED
  BY <1>2, <1>3

\* What an INSERT takes from the things to do it adds to the rows written.
LEMMA InsertedUnderWay ==
    ASSUME NEW old, NEW x, NEW y, NEW new, Sound(old), Sound(old \cup x.written), UnderWay(old, x),
           x.step = "appending", x.todo \in Seq(AllKeys), x.todo # <<>>,
           new.sequence = LastSequence(old \cup x.written) + 1, new.key = Head(x.todo),
           LastSequence((old \cup x.written) \cup {new}) = LastSequence(old \cup x.written) + 1,
           y.step = "appending", y.claim = x.claim, y.todo = Tail(x.todo),
           y.written = x.written \cup {new}
    PROVE  UnderWay(old, y)
<1> DEFINE last == LastSequence(old)
           all == LastSequence(old \cup x.written)
           rest == Tail(x.todo)
<1>1. last \in Nat /\ all \in Nat
  BY DEF Sound
<1>2. /\ Len(x.todo) \in Nat /\ Len(rest) = Len(x.todo) - 1 /\ Head(x.todo) = x.todo[1]
      /\ 1 \in DOMAIN x.todo
      /\ \A i \in DOMAIN rest : i \in Nat /\ i + 1 \in DOMAIN x.todo /\ rest[i] = x.todo[i + 1]
  <2>1. rest \in Seq(AllKeys) /\ Len(rest) = Len(x.todo) - 1 /\ Len(x.todo) \in Nat
    OBVIOUS
  <2>2. QED
    BY <2>1, TailFacts
<1>3. LastSequence(old \cup y.written) = all + 1
  <2>1. old \cup y.written = (old \cup x.written) \cup {new}
    OBVIOUS
  <2>2. QED
    BY <2>1
<1> HIDE DEF last, all, rest
<1>4. CASE x.claim = {}
  <2>1. all + Len(x.todo) <= last + 1
    BY <1>4 DEF UnderWay, OneEvent, last, all
  <2>2. (all + 1) + Len(rest) <= last + 1
    <3>1. \A a, b, m \in Nat : a + m <= b + 1 => (a + 1) + (m - 1) <= b + 1
      OBVIOUS
    <3>2. (all + 1) + (Len(x.todo) - 1) <= last + 1
      BY <1>1, <1>2, <2>1, <3>1
    <3>3. QED
      BY <1>2, <3>2
  <2>3. OneEvent(old, y)
    BY <1>3, <2>2 DEF OneEvent, last, rest
  <2>4. QED
    BY <1>4, <2>3 DEF UnderWay
<1>5. CASE x.claim # {}
  <2>1. PICK handles \in Claims : WholeClaim(old, x, handles)
    BY <1>5 DEF UnderWay
  <2> DEFINE n == Len(handles) - Len(x.todo)
  <2>2. /\ n \in Nat /\ x.claim = {handles[i] : i \in DOMAIN handles}
        /\ \A i \in DOMAIN x.todo : x.todo[i] = handles[n + i]
        /\ all = last + n
        /\ \A i \in 1..n : \E r \in x.written : r.sequence = last + i /\ r.key = handles[i]
    BY <2>1 DEF WholeClaim, last, all
  <2>3. Len(handles) - Len(rest) = n + 1
    <3>1. handles \in Seq(Handles)
      BY ChainConstants
    <3>2. Len(handles) \in Nat
      BY <3>1
    <3>3. QED
      BY <1>2, <3>2
  <2> HIDE DEF n
  <2>4. \A i \in DOMAIN rest : rest[i] = handles[(n + 1) + i]
    <3>1. ASSUME NEW i \in DOMAIN rest PROVE rest[i] = handles[(n + 1) + i]
      <4>1. i \in Nat /\ rest[i] = handles[n + (i + 1)]
        BY <1>2, <2>2
      <4>2. n + (i + 1) = (n + 1) + i
        BY <2>2, <4>1
      <4>3. QED
        BY <4>1, <4>2
    <3>2. QED
      BY <3>1
  <2>5. all + 1 = last + (n + 1)
    BY <1>1, <2>2
  <2>6. \A i \in 1..(n + 1) : \E r \in y.written : r.sequence = last + i /\ r.key = handles[i]
    <3>1. ASSUME NEW i \in 1..(n + 1)
          PROVE  \E r \in y.written : r.sequence = last + i /\ r.key = handles[i]
      <4>1. CASE i \in 1..n
        BY <2>2, <4>1
      <4>2. CASE i \notin 1..n
        <5>1. i = n + 1
          BY <2>2, <4>2
        <5>2. new.sequence = last + i
          BY <2>5, <5>1 DEF all
        <5>3. new.key = handles[i]
          BY <1>2, <2>2, <5>1
        <5>4. QED
          BY <5>2, <5>3
      <4>3. QED
        BY <4>1, <4>2
    <3>2. QED
      BY <3>1
  <2>7. WholeClaim(old, y, handles)
    <3>0. y.todo = rest
      BY DEF rest
    <3>1. Len(handles) - Len(y.todo) = n + 1 /\ n + 1 \in Nat
      <4>1. \A m \in Nat : m + 1 \in Nat
        OBVIOUS
      <4>2. Len(y.todo) = Len(rest)
        BY <3>0
      <4>3. QED
        BY <2>2, <2>3, <4>1, <4>2
    <3>2. LastSequence(old \cup y.written) = LastSequence(old) + (n + 1)
      BY <1>3, <2>5 DEF last
    <3>3. QED
      BY <2>2, <2>4, <2>6, <3>0, <3>1, <3>2 DEF WholeClaim, last
  <2>8. QED
    BY <1>5, <2>7 DEF UnderWay
<1>6. QED
  BY <1>4, <1>5

\* An INSERT does one of the things to do.
LEMMA InsertNextLedger ==
    ASSUME LedgerInv, ChainInv', NEW t \in Txs, InsertNext(t)
    PROVE  LedgerInv'
<1>x. PICK x : x = tx[t]
  OBVIOUS
<1>k. PICK k : k = Head(x.todo)
  OBVIOUS
<1>n. PICK new : new = NextRow(Visible(x), k)
  OBVIOUS
<1>1. /\ x \in Transaction /\ PerTx(x) /\ x.step = "appending" /\ x.todo # <<>> /\ rows' = rows
      /\ \A r \in Visible(x) : k = None \/ r.key # k
      /\ UnderWay(rows[x.chain], x) /\ WrittenOnce(x) /\ ChainInv
  BY <1>x, <1>k DEF LedgerInv, ChainInv, TypeOK, PerTx, InsertNext
<1>2. tx' = [tx EXCEPT ![t] =
          IF Collides(x.chain, new)
          THEN [x EXCEPT !.step = "collided", !.written = {}]
          ELSE [x EXCEPT !.todo = Tail(x.todo), !.written = @ \cup {new}]]
  BY <1>x, <1>k, <1>n DEF InsertNext
<1>3. CASE Collides(x.chain, new)
  <2>y. PICK y : y = [x EXCEPT !.step = "collided", !.written = {}]
    OBVIOUS
  <2>1. tx' = [tx EXCEPT ![t] = y] /\ y.step = "collided" /\ y.written = {}
    BY <1>1, <1>2, <1>3, <2>y DEF Transaction
  <2>2. UnderWay(rows[y.chain], y) /\ WrittenOnce(y)
    BY <2>1 DEF UnderWay, WrittenOnce
  <2>3. QED
    BY <1>1, <2>1, <2>2, ReplaceLedger
<1>4. CASE ~Collides(x.chain, new)
  <2>y. PICK y : y = [x EXCEPT !.todo = Tail(x.todo), !.written = @ \cup {new}]
    OBVIOUS
  <2>o. PICK old : old = rows[x.chain]
    OBVIOUS
  <2>1. /\ tx' = [tx EXCEPT ![t] = y] /\ y.step = "appending" /\ y.written = x.written \cup {new}
        /\ y.chain = x.chain /\ y.claim = x.claim /\ y.todo = Tail(x.todo)
    BY <1>1, <1>2, <1>4, <2>y DEF Transaction
  <2>2. Visible(x) = old \cup x.written /\ new = NextRow(old \cup x.written, k)
    BY <1>1, <1>4, <1>k, <1>n, <1>x, <2>o, SeesAllOrCollides
  <2>3. Sound(old \cup x.written) /\ Sound(old)
    BY <1>1, <2>o DEF ChainInv, PerTx, ShapeOf, WritesExtend
  <2>4. /\ new.sequence = LastSequence(old \cup x.written) + 1 /\ new.key = k
        /\ LastSequence((old \cup x.written) \cup {new}) = LastSequence(old \cup x.written) + 1
    <3>1. PICK rs : rs = old \cup x.written
      OBVIOUS
    <3>2. /\ LastSequence(rs \cup {NextRow(rs, k)}) = LastSequence(rs) + 1
          /\ NextRow(rs, k).sequence = LastSequence(rs) + 1 /\ NextRow(rs, k).key = k
      BY <2>3, <3>1, NextRowExtends
    <3>3. QED
      BY <2>2, <3>1, <3>2
  <2>5. x.todo \in Seq(AllKeys)
    BY <1>1 DEF Transaction
  <2>6. UnderWay(old, y)
    BY <1>1, <1>k, <2>o, <2>1, <2>3, <2>4, <2>5, InsertedUnderWay
  <2>7. WrittenOnce(y)
    <3>1. \A r \in x.written : r.key = new.key /\ r.key # None => r = new
      BY <1>1, <2>2, <2>4
    <3>2. QED
      BY <1>1, <2>1, <3>1 DEF WrittenOnce
  <2>8. UnderWay(rows[y.chain], y)
    BY <2>o, <2>1, <2>6
  <2>9. QED
    BY <1>1, <2>1, <2>7, <2>8, ReplaceLedger
<1>5. QED
  BY <1>3, <1>4

\* A commit ends its own transaction; the others on its chain have written nothing.
LEMMA CommitLedger ==
    ASSUME LedgerInv, ChainInv', NEW t \in Txs, Commit(t)
    PROVE  LedgerInv'
<1>x. PICK x : x = tx[t]
  OBVIOUS
<1>1. /\ x.step = "appending" /\ x.chain \in Chains /\ ChainInv
      /\ rows' = [rows EXCEPT ![x.chain] = rows[x.chain] \cup x.written]
      /\ \A u \in Txs : tx'[u] = IF u = t THEN Idle ELSE tx[u]
  BY <1>x DEF LedgerInv, ChainInv, TypeOK, ShapeOf, Commit, Ended
<1>2. Idle.step = "idle"
  BY DEF Idle
<1>3. ASSUME NEW u \in Txs, tx'[u].step # "idle"
      PROVE  UnderWay(rows'[tx'[u].chain], tx'[u]) /\ WrittenOnce(tx'[u])
  <2>y. PICK y : y = tx[u]
    OBVIOUS
  <2>0. u # t /\ tx'[u] = y /\ y \in Transaction /\ ShapeOf(y)
    BY <1>1, <1>2, <1>3, <2>y DEF ChainInv, TypeOK
  <2>1. /\ u # t /\ tx'[u] = y /\ UnderWay(rows[y.chain], y) /\ WrittenOnce(y) /\ y.chain \in Chains
        /\ y.todo \in Seq(AllKeys) /\ ShapeOf(y)
    BY <1>3, <2>0, <2>y DEF LedgerInv, ShapeOf, Transaction
  <2>2. CASE y.chain # x.chain
    <3>1. rows'[y.chain] = rows[y.chain]
      BY <1>1, <2>1, <2>2
    <3>2. QED
      BY <2>1, <3>1
  <2>3. CASE y.chain = x.chain
    <3>1. y.step # "appending" /\ y.written = {}
      BY <1>1, <1>x, <2>y, <2>1, <2>3 DEF ChainInv, LocksAgree, ShapeOf
    <3>2. LastSequence(rows[y.chain]) \in Nat /\ LastSequence(rows'[y.chain]) \in Nat
      <4>1. Sound(rows[y.chain])
        BY <1>1, <2>1 DEF ChainInv
      <4>2. (\A c \in Chains : Sound(rows[c]))'
        BY DEF ChainInv
      <4>3. LastSequence(rows'[y.chain]) \in Nat
        BY <2>1, <4>2 DEF Sound, LastSequence
      <4>4. QED
        BY <4>1, <4>3 DEF Sound
    <3>3. UnderWay(rows'[y.chain], y)
      BY <2>1, <3>1, <3>2, UnwrittenUnderWay
    <3>4. QED
      BY <2>1, <3>3
  <2>4. QED
    BY <2>2, <2>3
<1>4. QED
  BY <1>3 DEF LedgerInv, UnderWay, OneEvent, WholeClaim, WrittenOnce, LastSequence

\* Initially nothing is under way, and every step keeps account of what is.
LEMMA LedgerInvInit == Init => LedgerInv
BY ChainInvInit DEF Init, LedgerInv, Idle

LEMMA LedgerInvStep == LedgerInv /\ [Next]_vars => LedgerInv'
<1> SUFFICES ASSUME LedgerInv, [Next]_vars PROVE LedgerInv'
  OBVIOUS
<1>0. ChainInv'
  BY ChainInvStep DEF LedgerInv
<1>1. ASSUME NEW t \in Txs, NEW c \in Chains, Call(t, c) PROVE LedgerInv'
  BY <1>0, <1>1, CallLedger
<1>2. ASSUME NEW t \in Txs, Rollback(t) PROVE LedgerInv'
  BY <1>0, <1>2, EndLedger DEF Rollback
<1>3. ASSUME NEW t \in Txs,
             AcquireLock(t) \/ FindExisting(t) \/ InsertNext(t) \/ Commit(t)
      PROVE  LedgerInv'
  BY <1>0, <1>3, AcquireLockLedger, FindExistingLedger, InsertNextLedger, CommitLedger
<1>4. CASE UNCHANGED vars
  <2>1. \A u \in Txs : tx'[u].step # "idle" =>
           UnderWay(rows'[tx'[u].chain], tx'[u]) /\ WrittenOnce(tx'[u])
    BY <1>4 DEF vars, LedgerInv
  <2>2. QED
    BY <1>0, <2>1 DEF LedgerInv, UnderWay, OneEvent, WholeClaim, WrittenOnce, LastSequence
<1>5. QED
  BY <1>1, <1>2, <1>3, <1>4 DEF Next
-----------------------------------------------------------------------------
(* The keys of a chain in their order, and how they grow *)

\* The log of a chain that verifies has the key of row i at place i.
LEMMA LogFacts ==
    ASSUME NEW rs, Sound(rs), NEW n, n = LastSequence(rs)
    PROVE  /\ n \in Nat /\ DOMAIN LogOf(rs) = 1..n
           /\ \A r \in rs : r.sequence \in 1..n /\ LogOf(rs)[r.sequence] = r.key
           /\ \A i \in 1..n : \E r \in rs : r.sequence = i /\ LogOf(rs)[i] = r.key
<1>1. /\ n \in Nat /\ {r.sequence : r \in rs} = 1..n
      /\ \A r, s \in rs : r.sequence = s.sequence => r = s
  BY DEF Sound, verifyAuditChainRows
<1>2. LogOf(rs) = [i \in 1..n |-> (CHOOSE r \in rs : r.sequence = i).key]
  BY DEF LogOf
<1>3. ASSUME NEW r \in rs PROVE r.sequence \in 1..n /\ LogOf(rs)[r.sequence] = r.key
  <2>1. r.sequence \in 1..n
    BY <1>1
  <2>2. PICK q : q = CHOOSE s \in rs : s.sequence = r.sequence
    OBVIOUS
  <2>3. q \in rs /\ q.sequence = r.sequence
    BY <2>2
  <2>4. q = r
    BY <1>1, <2>3
  <2>5. LogOf(rs)[r.sequence] = q.key
    BY <1>2, <2>1, <2>2
  <2>6. QED
    BY <2>1, <2>4, <2>5
<1>4. ASSUME NEW i \in 1..n PROVE \E r \in rs : r.sequence = i /\ LogOf(rs)[i] = r.key
  <2>1. PICK r \in rs : r.sequence = i
    BY <1>1
  <2>2. QED
    BY <1>3, <2>1
<1>5. DOMAIN LogOf(rs) = 1..n
  BY <1>2
<1>6. QED
  BY <1>1, <1>3, <1>4, <1>5

\* What stands where in two sequences put together.
LEMMA ConcatFacts ==
    ASSUME NEW S, NEW a \in Seq(S), NEW b \in Seq(S)
    PROVE  a \o b = [i \in 1..(Len(a) + Len(b)) |-> IF i <= Len(a) THEN a[i] ELSE b[i - Len(a)]]
<1>1. a \o b \in Seq(S) /\ Len(a \o b) = Len(a) + Len(b)
  OBVIOUS
<1>2. a \o b = [i \in 1..(Len(a) + Len(b)) |-> (a \o b)[i]]
  <2>1. \A s \in Seq(S) : s = [i \in 1..Len(s) |-> s[i]]
    OBVIOUS
  <2>2. PICK ab \in Seq(S) : ab = a \o b /\ Len(ab) = Len(a) + Len(b)
    BY <1>1
  <2>3. QED
    BY <2>1, <2>2, Zenon
<1>3. \A i \in 1..(Len(a) + Len(b)) : (a \o b)[i] = IF i <= Len(a) THEN a[i] ELSE b[i - Len(a)]
  OBVIOUS
<1>4. QED
  BY <1>2, <1>3

\* Rows that continue a chain continue its log by their keys.
LEMMA LogGrows ==
    ASSUME NEW rs \in SUBSET Row, NEW w \in SUBSET Row, NEW s \in Seq(AllKeys),
           Sound(rs), Sound(rs \cup w), LastSequence(rs \cup w) = LastSequence(rs) + Len(s),
           \A i \in 1..Len(s) : \E r \in w : r.sequence = LastSequence(rs) + i /\ r.key = s[i]
    PROVE  LogOf(rs \cup w) = LogOf(rs) \o s
<1>l. PICK old : old = LogOf(rs)
  OBVIOUS
<1>m. PICK new : new = LogOf(rs \cup w)
  OBVIOUS
<1>n. PICK n \in Nat, m \in Nat : n = LastSequence(rs) /\ m = Len(s)
  BY DEF Sound
<1>1. /\ DOMAIN old = 1..n
      /\ \A r \in rs : r.sequence \in 1..n /\ old[r.sequence] = r.key
      /\ \A i \in 1..n : \E r \in rs : r.sequence = i /\ old[i] = r.key
  BY <1>l, <1>n, LogFacts
<1>2. /\ DOMAIN new = 1..(n + m)
      /\ \A r \in rs \cup w : r.sequence \in 1..(n + m) /\ new[r.sequence] = r.key
  BY <1>m, <1>n, LogFacts
<1>3. old \in Seq(AllKeys) /\ Len(old) = n
  <2>1. \A i \in 1..n : old[i] \in AllKeys
    BY <1>1 DEF Row
  <2>2. old = [i \in 1..n |-> old[i]]
    BY <1>1, <1>l DEF LogOf
  <2>3. old \in [1..n -> AllKeys]
    BY <2>1, <2>2
  <2>4. QED
    BY <2>3
<1>4. \A i \in 1..(n + m) : new[i] = IF i <= n THEN old[i] ELSE s[i - n]
  <2>1. ASSUME NEW i \in 1..n PROVE new[i] = old[i]
    BY <1>1, <1>2
  <2>2. ASSUME NEW i \in 1..m PROVE new[n + i] = s[i]
    <3>1. PICK r \in w : r.sequence = n + i /\ r.key = s[i]
      BY <1>n
    <3>2. QED
      BY <1>2, <3>1
  <2>3. \A i \in 1..(n + m) : i <= n => i \in 1..n
    OBVIOUS
  <2>4. \A i \in 1..(n + m) : ~(i <= n) => i - n \in 1..m /\ i = n + (i - n)
    OBVIOUS
  <2>5. QED
    BY <2>1, <2>2, <2>3, <2>4
<1>5. new = [i \in 1..(n + m) |-> new[i]]
  BY <1>2, <1>m DEF LogOf
<1>6. old \o s = [i \in 1..(n + m) |-> IF i <= n THEN old[i] ELSE s[i - n]]
  BY <1>3, <1>n, ConcatFacts
<1>7. QED
  BY <1>4, <1>5, <1>6, <1>l, <1>m
-----------------------------------------------------------------------------
(* A commit is one call of the ledger *)

\* A claim that commits has written its handles, all of them and each for the first time.
LEMMA ClaimGrants ==
    ASSUME LedgerInv, LedgerInv', NEW t \in Txs, Commit(t), tx[t].claim # {}
    PROVE  \E c \in Chains, handles \in Claims : Ledger!Grant(c, handles)
<1>x. PICK x : x = tx[t]
  OBVIOUS
<1>c. PICK c : c = x.chain
  OBVIOUS
<1>1. /\ ChainInv /\ c \in Chains /\ x \in Transaction /\ x.step = "appending" /\ x.todo = <<>>
      /\ rows \in [Chains -> SUBSET Row] /\ WritesExtend(x) /\ UnderWay(rows[c], x)
      /\ WrittenOnce(x) /\ x.claim # {}
      /\ rows' = [rows EXCEPT ![c] = rows[c] \cup x.written]
      /\ granted' = [granted EXCEPT ![c] =
            [k \in Handles |-> IF k \in x.claim THEN @[k] + 1 ELSE @[k]]]
  BY <1>x, <1>c DEF LedgerInv, ChainInv, TypeOK, ShapeOf, Commit
<1>2. PICK handles \in Claims : WholeClaim(rows[c], x, handles)
  BY <1>1 DEF UnderWay
<1>3. handles \in Seq(Handles) /\ handles \in Seq(AllKeys) /\ Len(handles) \in Nat
  <2>1. handles \in Seq(Handles)
    BY ChainConstants
  <2>2. handles \in Seq(Handles \cup Keys \cup {None})
    BY <2>1
  <2>3. QED
    BY <2>1, <2>2 DEF AllKeys
<1>4. Len(handles) - Len(x.todo) = Len(handles)
  BY <1>1, <1>3
<1>5. /\ x.claim = {handles[i] : i \in DOMAIN handles}
      /\ LastSequence(rows[c] \cup x.written) = LastSequence(rows[c]) + Len(handles)
      /\ \A i \in 1..Len(handles) : \E r \in x.written :
            r.sequence = LastSequence(rows[c]) + i /\ r.key = handles[i]
  BY <1>2, <1>4 DEF WholeClaim
<1>6. Sound(rows[c]) /\ Sound(rows[c] \cup x.written)
  BY <1>1, <1>c DEF ChainInv, WritesExtend
<1>7. LogOf(rows[c] \cup x.written) = LogOf(rows[c]) \o handles
  <2>1. rows[c] \in SUBSET Row /\ x.written \in SUBSET Row
    BY <1>1 DEF Transaction
  <2>2. QED
    BY <1>3, <1>5, <1>6, <2>1, LogGrows
<1>8. \A i \in DOMAIN handles : \A j \in DOMAIN LogOf(rows[c]) : LogOf(rows[c])[j] # handles[i]
  <2>1. ASSUME NEW i \in DOMAIN handles, NEW j \in DOMAIN LogOf(rows[c])
        PROVE  LogOf(rows[c])[j] # handles[i]
    <3>1. PICK r \in x.written : r.key = handles[i]
      BY <1>3, <1>5
    <3>2. handles[i] # None
      BY <1>3, ChainConstants
    <3>3. \A s \in rows[c] : s.key # handles[i]
      BY <1>1, <1>c, <3>1, <3>2 DEF WritesExtend
    <3>4. \E s \in rows[c] : LogOf(rows[c])[j] = s.key
      BY <1>6, LogFacts
    <3>5. QED
      BY <3>3, <3>4
  <2>2. QED
    BY <2>1
<1>9. \A i, j \in DOMAIN handles : handles[i] = handles[j] => i = j
  <2>1. ASSUME NEW i \in DOMAIN handles, NEW j \in DOMAIN handles, handles[i] = handles[j]
        PROVE  i = j
    <3>1. PICK n \in Nat : n = LastSequence(rows[c])
      BY <1>6 DEF Sound
    <3>2. PICK r \in x.written : r.sequence = n + i /\ r.key = handles[i]
      BY <1>3, <1>5, <3>1
    <3>3. PICK s \in x.written : s.sequence = n + j /\ s.key = handles[j]
      BY <1>3, <1>5, <3>1
    <3>4. handles[i] # None /\ i \in Nat /\ j \in Nat
      BY <1>3, ChainConstants
    <3>5. r = s
      BY <1>1, <2>1, <3>2, <3>3, <3>4 DEF WrittenOnce
    <3>6. QED
      BY <3>2, <3>3, <3>4, <3>5
  <2>2. QED
    BY <2>1
<1>10. [d \in Chains |-> LogOf(rows'[d])] =
          [[d \in Chains |-> LogOf(rows[d])] EXCEPT ![c] = @ \o handles]
  BY <1>1, <1>7
<1>11. granted' = [granted EXCEPT ![c] =
          [k \in Handles |-> IF \E i \in DOMAIN handles : handles[i] = k THEN @[k] + 1 ELSE @[k]]]
  <2>1. \A k \in Handles : k \in x.claim <=> \E i \in DOMAIN handles : handles[i] = k
    BY <1>5
  <2>2. [k \in Handles |-> IF k \in x.claim THEN granted[c][k] + 1 ELSE granted[c][k]] =
          [k \in Handles |-> IF \E i \in DOMAIN handles : handles[i] = k
                             THEN granted[c][k] + 1 ELSE granted[c][k]]
    BY <2>1, Zenon
  <2>3. granted' = [granted EXCEPT ![c] =
          [k \in Handles |-> IF k \in x.claim THEN granted[c][k] + 1 ELSE granted[c][k]]]
    BY <1>1, Zenon
  <2>4. QED
    BY <2>2, <2>3, Zenon
<1>12. \A i \in DOMAIN handles : Ledger!IsNew(c, handles[i])
  BY <1>1, <1>8 DEF Ledger!IsNew
<1>13. Ledger!Grant(c, handles)
  BY <1>9, <1>10, <1>11, <1>12 DEF Ledger!Grant, LogOf, LastSequence
<1>14. QED
  BY <1>1, <1>2, <1>13

\* Any other call that commits has written one event under a new key, or none.
LEMMA EventRecords ==
    ASSUME LedgerInv, LedgerInv', NEW t \in Txs, Commit(t), tx[t].claim = {}
    PROVE  \/ \E c \in Chains, k \in Keys \cup {None} : Ledger!Record(c, k)
           \/ UNCHANGED <<rows, granted>>
<1>x. PICK x : x = tx[t]
  OBVIOUS
<1>c. PICK c : c = x.chain
  OBVIOUS
<1>1. /\ ChainInv /\ c \in Chains /\ x \in Transaction /\ x.step = "appending" /\ x.todo = <<>>
      /\ rows \in [Chains -> SUBSET Row] /\ WritesExtend(x) /\ UnderWay(rows[c], x)
      /\ x.claim = {}
      /\ rows' = [rows EXCEPT ![c] = rows[c] \cup x.written]
      /\ granted' = [granted EXCEPT ![c] =
            [k \in Handles |-> IF k \in x.claim THEN @[k] + 1 ELSE @[k]]]
      /\ granted \in [Chains -> [Handles -> Nat]]
  <2>1. /\ ChainInv /\ x.step = "appending" /\ x.todo = <<>> /\ x.claim = {}
        /\ rows' = [rows EXCEPT ![c] = rows[c] \cup x.written]
        /\ granted' = [granted EXCEPT ![c] =
              [k \in Handles |-> IF k \in x.claim THEN @[k] + 1 ELSE @[k]]]
    BY <1>x, <1>c DEF LedgerInv, Commit
  <2>2. /\ x \in Transaction /\ rows \in [Chains -> SUBSET Row] /\ WritesExtend(x)
        /\ granted \in [Chains -> [Handles -> Nat]] /\ c \in Chains
    BY <1>x, <1>c, <2>1 DEF ChainInv, TypeOK, ShapeOf
  <2>3. UnderWay(rows[c], x)
    BY <1>x, <1>c, <2>1 DEF LedgerInv
  <2>4. QED
    BY <2>1, <2>2, <2>3
<1>2. UNCHANGED granted
  <2>1. [k \in Handles |-> IF k \in x.claim THEN granted[c][k] + 1 ELSE granted[c][k]] = granted[c]
    BY <1>1
  <2>2. granted' = [granted EXCEPT ![c] = granted[c]]
    BY <1>1, <2>1
  <2>3. QED
    BY <1>1, <2>2
<1>3. Sound(rows[c]) /\ Sound(rows[c] \cup x.written)
  BY <1>1, <1>c DEF ChainInv, WritesExtend
<1>n. PICK n \in Nat, m \in Nat : n = LastSequence(rows[c]) /\ m = LastSequence(rows[c] \cup x.written)
  BY <1>3 DEF Sound
<1>4. m <= n + 1
  <2>1. m + Len(x.todo) <= n + 1
    BY <1>1, <1>n DEF UnderWay, OneEvent
  <2>2. QED
    BY <1>1, <2>1
<1>5. \A r \in x.written : r.sequence > n /\ r.sequence \in 1..m
  <2>1. \A r \in x.written : r.sequence > n
    BY <1>1, <1>c, <1>n DEF WritesExtend
  <2>2. \A r \in rows[c] \cup x.written : r.sequence \in 1..m
    BY <1>3, <1>n, LogFacts
  <2>3. QED
    BY <2>1, <2>2
<1>6. CASE x.written = {}
  <2>1. rows' = [rows EXCEPT ![c] = rows[c]]
    BY <1>1, <1>6
  <2>2. QED
    BY <1>1, <1>2, <2>1
<1>7. CASE x.written # {}
  <2>1. PICK r \in x.written : r.sequence > n /\ r.sequence \in 1..m
    BY <1>5, <1>7
  <2>2. r.sequence = n + 1 /\ m = n + 1
    BY <1>4, <2>1
  <2>k. PICK k : k = r.key
    OBVIOUS
  <2>3. k \in Keys \cup {None}
    BY <1>1, <1>c, <2>1, <2>k DEF WritesExtend, Transaction, Row, AllKeys
  <2>s. PICK s : s = <<k>>
    OBVIOUS
  <2>4. s \in Seq(AllKeys) /\ Len(s) = 1 /\ s[1] = k
    BY <2>3, <2>s DEF AllKeys
  <2>5. LogOf(rows[c] \cup x.written) = LogOf(rows[c]) \o s
    <3>1. \A i \in 1..Len(s) : \E q \in x.written :
             q.sequence = LastSequence(rows[c]) + i /\ q.key = s[i]
      BY <1>n, <2>1, <2>2, <2>4, <2>k
    <3>2. LastSequence(rows[c] \cup x.written) = LastSequence(rows[c]) + Len(s)
      BY <1>n, <2>2, <2>4
    <3>3. QED
      BY <1>1, <1>3, <2>4, <3>1, <3>2, LogGrows DEF Transaction
  <2>6. k # None => \A j \in DOMAIN LogOf(rows[c]) : LogOf(rows[c])[j] # k
    <3>1. k # None => \A q \in rows[c] : q.key # k
      BY <1>1, <1>c, <2>1, <2>k DEF WritesExtend
    <3>2. \A j \in DOMAIN LogOf(rows[c]) : \E q \in rows[c] : LogOf(rows[c])[j] = q.key
      BY <1>3, LogFacts
    <3>3. QED
      BY <3>1, <3>2
  <2>7. [d \in Chains |-> LogOf(rows'[d])] =
           [[d \in Chains |-> LogOf(rows[d])] EXCEPT ![c] = Append(@, k)]
    <3>1. LogOf(rows[c]) \in Seq(AllKeys)
      <4>1. PICK old : old = LogOf(rows[c])
        OBVIOUS
      <4>2. DOMAIN old = 1..n /\ \A i \in 1..n : \E q \in rows[c] : old[i] = q.key
        BY <1>3, <1>n, <4>1, LogFacts
      <4>3. old = [i \in 1..n |-> old[i]] /\ \A i \in 1..n : old[i] \in AllKeys
        BY <1>1, <1>n, <4>1, <4>2 DEF LogOf, Row
      <4>4. old \in [1..n -> AllKeys]
        BY <4>3
      <4>5. QED
        BY <4>1, <4>4
    <3>2. PICK old \in Seq(AllKeys) : old = LogOf(rows[c])
      BY <3>1
    <3>3. old \o s = Append(old, k)
      BY <2>3, <2>s DEF AllKeys
    <3>4. QED
      BY <1>1, <2>5, <3>2, <3>3
  <2>8. Ledger!Record(c, k)
    BY <1>1, <1>2, <2>6, <2>7 DEF Ledger!Record, Ledger!IsNew, LogOf, LastSequence
  <2>9. QED
    BY <1>1, <2>3, <2>8
<1>8. QED
  BY <1>6, <1>7
-----------------------------------------------------------------------------
(* Theorems *)

\* The inductive invariant holds in every reachable state.
THEOREM ChainInvariant == Spec => []ChainInv
<1>1. QED
  BY ChainInvInit, ChainInvStep, PTL DEF Spec

\* Rows, locks and transactions keep their declared shape (the columns and constraints of audit_logs).
THEOREM TypeCorrect == Spec => []TypeOK
<1>1. ChainInv => TypeOK
  BY DEF ChainInv
<1>2. QED
  BY <1>1, ChainInvariant, PTL

\* verifyAuditChainRows accepts every committed chain, at every moment.
THEOREM CommittedChainsVerify == Spec => []ChainsVerify
<1>1. ChainInv => ChainsVerify
  BY DEF ChainInv, Sound, ChainsVerify
<1>2. QED
  BY <1>1, ChainInvariant, PTL

\* A jti, nonce or idempotency key is granted to one claim at most, and no failed claim keeps one.
THEOREM ClaimsAreExclusive == Spec => []HandlesAreClaimedOnce
<1>1. ChainInv => HandlesAreClaimedOnce
  BY DEF ChainInv
<1>2. QED
  BY <1>1, ChainInvariant, PTL

\* The advisory lock alone keeps READ COMMITTED appends off the unique indexes.
THEOREM LockSufficesAtReadCommitted == Spec => []ReadCommittedNeverCollides
<1>1. ChainInv => ReadCommittedNeverCollides
  BY DEF ChainInv
<1>2. QED
  BY <1>1, ChainInvariant, PTL

\* A step of the chain removes no row, and adds rows only after the last one.
LEMMA AppendOnlyStep ==
    ASSUME ChainInv, [Next]_vars, NEW c \in Chains
    PROVE  /\ rows[c] \subseteq rows'[c]
           /\ \A r \in rows'[c] \ rows[c] : r.sequence > LastSequence(rows[c])
<1>1. ASSUME NEW t \in Txs, Commit(t)
      PROVE  /\ rows[c] \subseteq rows'[c]
             /\ \A r \in rows'[c] \ rows[c] : r.sequence > LastSequence(rows[c])
  <2>x. PICK x : x = tx[t]
    OBVIOUS
  <2>1. /\ x.step = "appending" /\ WritesExtend(x) /\ x.chain \in Chains
        /\ rows' = [rows EXCEPT ![x.chain] = rows[x.chain] \cup x.written]
    BY <1>1, <2>x DEF ChainInv, ShapeOf, Commit
  <2>2. rows'[c] = IF c = x.chain THEN rows[c] \cup x.written ELSE rows[c]
    BY <2>1 DEF ChainInv, TypeOK
  <2>3. \A r \in x.written : r.sequence > LastSequence(rows[x.chain])
    BY <2>1 DEF WritesExtend
  <2>4. QED
    BY <2>2, <2>3
<1>2. CASE rows' = rows
  BY <1>2
<1>3. (\E t \in Txs : Commit(t)) \/ rows' = rows
  BY DEF Next, vars, Call, DomainAppend, WorkflowAppend, Claim, Start, AcquireLock, FindExisting,
         InsertNext, Rollback
<1>4. QED
  BY <1>1, <1>2, <1>3

\* The audit log is append-only: nothing already committed is changed, removed or preceded.
THEOREM ChainIsAppendOnly == Spec => AppendOnly
<1>1. ChainInv /\ [Next]_vars =>
        [\A c \in Chains :
           /\ rows[c] \subseteq rows'[c]
           /\ \A r \in rows'[c] \ rows[c] : r.sequence > LastSequence(rows[c])]_vars
  BY AppendOnlyStep
<1>2. QED
  BY <1>1, ChainInvariant, PTL DEF Spec, AppendOnly

\* What calls have under way is accounted for in every reachable state.
THEOREM LedgerInvariant == Spec => []LedgerInv
BY LedgerInvInit, LedgerInvStep, PTL DEF Spec

\* Interleaved, failing and retried transactions of both isolation levels are the atomic calls of the
\* ledger: events recorded one by one, claims granted whole and once.
THEOREM ChainImplementsLedger == Spec => ImplementsAuditLedger
<1> DEFINE logs == [c \in Chains |-> LogOf(rows[c])]
<1>1. Init => Ledger!Init
  <2>1. LogOf({}) = <<>>
    <3>1. LastSequence({}) = 0 /\ 1..0 = {}
      BY DEF LastSequence
    <3>2. QED
      BY <3>1 DEF LogOf
  <2>2. QED
    BY <2>1 DEF Init, Ledger!Init
<1>2. LedgerInv /\ LedgerInv' /\ [Next]_vars => [Ledger!Next]_<<logs, granted>>
  <2> SUFFICES ASSUME LedgerInv, LedgerInv', [Next]_vars
               PROVE  Ledger!Next \/ UNCHANGED <<logs, granted>>
    OBVIOUS
  <2>1. ASSUME NEW t \in Txs, Commit(t)
        PROVE  Ledger!Next \/ UNCHANGED <<rows, granted>>
    BY <2>1, ClaimGrants, EventRecords DEF Ledger!Next
  <2>2. UNCHANGED <<rows, granted>> => UNCHANGED <<logs, granted>>
    BY DEF LogOf, LastSequence
  <2>3. (\E t \in Txs : Commit(t)) \/ UNCHANGED <<rows, granted>>
    BY DEF Next, vars, Call, DomainAppend, WorkflowAppend, Claim, Start, AcquireLock, FindExisting,
           InsertNext, Rollback
  <2>4. QED
    BY <2>1, <2>2, <2>3
<1>3. QED
  BY <1>1, <1>2, LedgerInvariant, PTL DEF Spec, ImplementsAuditLedger, Ledger!Spec
=============================================================================
