----------------------- MODULE OpportunityCenterProofs -----------------------
(***************************************************************************)
(* Proofs about OpportunityCenter for every set of deals, sessions, keys   *)
(* and commands and any length of the chain.                               *)
(***************************************************************************)
EXTENDS OpportunityCenter, FiniteSetTheorems, TLAPS

DataOK ==
    /\ opp \in [Opps -> Opportunity \cup {None}]
    /\ began \in [Opps -> CANONICAL_STAGES \cup {None}]
    /\ qual \in [Opps -> Qualification]
    /\ reg \in [Opps -> RegStatuses]
    /\ links \in [Opps -> SUBSET Pocs]
    /\ poc \subseteq Opps
    /\ engagement \in [Opps -> Engagements \cup {None}]
    /\ trail \in [Opps -> Seq(StageEvent)]
    /\ chain \in Seq(AuditRecord)

SessionsOK == lock \in Sessions \cup {None} /\ call \in [Sessions -> Call]

LEMMA TypeParts == TypeOK <=> DataOK /\ SessionsOK
BY DEF TypeOK, DataOK, SessionsOK

-----------------------------------------------------------------------------
(* Counting the records of a deal's moves *)

\* The first positions of a set of positions are counted from one up to its size.
LEMMA CountsUpTo ==
    ASSUME NEW n \in Nat, NEW M \in SUBSET (1..n)
    PROVE  /\ IsFiniteSet(M) /\ Cardinality(M) \in Nat
           /\ \A i \in M : Cardinality({j \in M : j <= i}) \in 1..Cardinality(M)
<1>1. IsFiniteSet(M) /\ Cardinality(M) \in Nat
  <2>1. IsFiniteSet(1..n)
    BY FS_Interval
  <2>2. IsFiniteSet(M)
    BY <2>1, FS_Subset
  <2> QED
    BY <2>2, FS_CardinalityType
<1>2. ASSUME NEW i \in M PROVE Cardinality({j \in M : j <= i}) \in 1..Cardinality(M)
  <2> DEFINE F == {j \in M : j <= i}
  <2>1. F \subseteq M /\ i \in F
    OBVIOUS
  <2>2. IsFiniteSet(F) /\ Cardinality(F) \in Nat /\ Cardinality(F) <= Cardinality(M)
    BY <1>1, <2>1, FS_Subset, FS_CardinalityType
  <2>3. Cardinality(F) # 0
    BY <2>1, <2>2, FS_EmptySet
  <2> QED
    BY <1>1, <2>2, <2>3
<1> QED
  BY <1>1, <1>2

LEMMA MovesAreRecords ==
    ASSUME DataOK, NEW o \in Opps
    PROVE  /\ MovesAt(o) \subseteq 1..Len(chain)
           /\ IsFiniteSet(MovesAt(o)) /\ Cardinality(MovesAt(o)) \in Nat
           /\ \A i \in MovesAt(o) :
                 Cardinality({j \in MovesAt(o) : j <= i}) \in 1..Cardinality(MovesAt(o))
<1>1. Len(chain) \in Nat /\ MovesAt(o) \subseteq 1..Len(chain)
  BY DEF DataOK, MovesAt
<1> QED
  BY <1>1, CountsUpTo

\* A record of something else than a move, or none, leaves the moves as they are.
LEMMA PlainRecord ==
    ASSUME DataOK, NEW cmd \in Command, NEW o \in Opps, NEW f \in CANONICAL_STAGES \cup {None},
           NEW n \in Nat,
           cmd.op \notin {"create", "merge", "convert"},
           chain' = WithRecord(cmd, o, f, f, n)
    PROVE  /\ chain' \in Seq(AuditRecord)
           /\ \A x \in Opps : MovesAt(x)' = MovesAt(x)
           /\ \A i \in DOMAIN chain : i \in DOMAIN chain' /\ chain'[i] = chain[i]
<1> DEFINE r == [op |-> Contract(cmd), key |-> KeyOf(cmd), opp |-> o, from |-> f, to |-> f, revision |-> n]
<1>1. r \in AuditRecord /\ ~Moves(r)
  BY DEF Command, AuditRecord, Contract, Moves, Ops, Locked, KeyOf
<1>2. CASE chain' = chain
  BY <1>2 DEF DataOK, MovesAt
<1>3. CASE chain' = Append(chain, r)
  <2> HIDE DEF r
  <2>1. /\ chain' \in Seq(AuditRecord) /\ Len(chain') = Len(chain) + 1
        /\ chain'[Len(chain) + 1] = r
        /\ \A i \in DOMAIN chain : i \in DOMAIN chain' /\ chain'[i] = chain[i]
    BY <1>1, <1>3 DEF DataOK
  <2>2. DOMAIN chain = 1..Len(chain) /\ DOMAIN chain' = 1..Len(chain') /\ Len(chain) \in Nat
    BY <2>1 DEF DataOK
  <2>3. ASSUME NEW x \in Opps PROVE MovesAt(x)' = MovesAt(x)
    BY <1>1, <2>1, <2>2 DEF MovesAt
  <2> QED
    BY <2>1, <2>3
<1> QED
  BY <1>2, <1>3 DEF WithRecord

\* The record of a move is the last of its deal's moves.
LEMMA MoveRecord ==
    ASSUME DataOK, NEW cmd \in Command, NEW o \in Opps, NEW f \in CANONICAL_STAGES \cup {None},
           NEW t \in CANONICAL_STAGES, NEW n \in Nat,
           cmd.op \in {"create", "merge", "convert"} \/ f # t,
           ~Used(cmd), chain' = WithRecord(cmd, o, f, t, n)
    PROVE  /\ chain' \in Seq(AuditRecord) /\ Len(chain') = Len(chain) + 1
           /\ MovesAt(o)' = MovesAt(o) \cup {Len(chain) + 1}
           /\ \A x \in Opps \ {o} : MovesAt(x)' = MovesAt(x)
           /\ \A i \in DOMAIN chain : i \in DOMAIN chain' /\ chain'[i] = chain[i]
           /\ chain'[Len(chain) + 1].from = f /\ chain'[Len(chain) + 1].to = t
<1> DEFINE r == [op |-> Contract(cmd), key |-> KeyOf(cmd), opp |-> o, from |-> f, to |-> t, revision |-> n]
<1>1. r \in AuditRecord /\ Moves(r) /\ r.opp = o /\ r.from = f /\ r.to = t
  BY DEF Command, AuditRecord, Contract, Moves, Ops, Locked, KeyOf
<1>2. chain' = Append(chain, r)
  BY DEF WithRecord
<1> HIDE DEF r
<1>3. /\ chain' \in Seq(AuditRecord) /\ Len(chain') = Len(chain) + 1
      /\ chain'[Len(chain) + 1] = r
      /\ \A i \in DOMAIN chain : i \in DOMAIN chain' /\ chain'[i] = chain[i]
  BY <1>1, <1>2 DEF DataOK
<1>4. DOMAIN chain = 1..Len(chain) /\ DOMAIN chain' = 1..Len(chain') /\ Len(chain) \in Nat
  BY <1>3 DEF DataOK
<1>5. MovesAt(o)' = MovesAt(o) \cup {Len(chain) + 1}
  BY <1>1, <1>3, <1>4 DEF MovesAt
<1>6. ASSUME NEW x \in Opps \ {o} PROVE MovesAt(x)' = MovesAt(x)
  BY <1>1, <1>3, <1>4 DEF MovesAt
<1> QED
  BY <1>1, <1>3, <1>5, <1>6

-----------------------------------------------------------------------------
(* What a step does to the sessions *)

\* A call begins, goes on or ends: the lock is taken when it is free and given back at the end.
LEMMA SessionStep ==
    ASSUME SessionsOK, CallInv, LockInv, NEW s \in Sessions, NEW y \in Call,
           call' = [call EXCEPT ![s] = y],
           \/ y.step = "ready" /\ lock = None /\ lock' = s
           \/ y.step # "ready" /\ lock' = Released(s),
           y.step # "idle" =>
              /\ y.cmd # None /\ WellFormed(y.cmd) /\ y.cmd.op \in OpsOf(y.step)
              /\ y.cmd.op \in {"qualify"} \cup Restores => Stored(y.cmd.opp),
           \A o \in Opps : Stored(o) => Stored(o)'
    PROVE  SessionsOK' /\ CallInv' /\ LockInv'
<1>1. /\ call'[s] = y
      /\ \A q \in Sessions : q # s => call'[q] = call[q]
  BY DEF SessionsOK
<1>2. SessionsOK'
  BY DEF SessionsOK, Released
<1>3. CallInv'
  <2> SUFFICES ASSUME NEW q \in Sessions, call'[q].step # "idle" PROVE Proper(q)'
    BY DEF CallInv
  <2>1. CASE q = s
    <3>1. call'[q] = y /\ y.cmd # None /\ WellFormed(y.cmd) /\ y.cmd.op \in OpsOf(y.step)
      BY <1>1, <2>1
    <3>2. y.cmd.op \in {"qualify"} \cup Restores => y.cmd.opp \in Opps /\ Stored(y.cmd.opp)
      BY <2>1, <3>1, <1>1 DEF WellFormed, Restores
    <3> QED
      BY <3>1, <3>2 DEF Proper, WellFormed, Stored
  <2>2. CASE q # s
    <3>1. call'[q] = call[q] /\ Proper(q)
      BY <1>1, <2>2 DEF CallInv
    <3>2. call[q].cmd.op \in {"qualify"} \cup Restores => call[q].cmd.opp \in Opps
      BY <3>1 DEF Proper, WellFormed, Restores
    <3> QED
      BY <3>1, <3>2 DEF Proper, WellFormed, Stored
  <2> QED
    BY <2>1, <2>2
<1>4. LockInv'
  BY <1>1, OpportunityConstants DEF LockInv, Released, SessionsOK
<1> QED
  BY <1>2, <1>3, <1>4

\* When no one holds the lock, no call relies on what it has read.
LEMMA NoReader ==
    ASSUME LockInv, lock = None
    PROVE  ReadsStand
BY OpportunityConstants DEF LockInv, ReadsStand

\* Reads stand through a step that writes none of what was read under the lock.
LEMMA ReadsKeep ==
    ASSUME ReadsStand, CallInv, opp' = opp, qual' = qual, chain' = chain,
           \A o \in Opps : HasPocEvidence(o) => HasPocEvidence(o)',
           \A q \in Sessions : call'[q].step = "ready" => call'[q] = call[q]
    PROVE  ReadsStand'
<1> SUFFICES ASSUME NEW q \in Sessions, call'[q].step = "ready" PROVE Stands(q)'
  BY DEF ReadsStand
<1>1. call'[q] = call[q] /\ Stands(q) /\ Proper(q)
  BY DEF CallInv, ReadsStand
<1>2. call[q].cmd.op = "convert" => call[q].cmd.opp \in Opps
  BY <1>1 DEF Proper, WellFormed
<1>3. call[q].cmd.op = "convert" => HasPocEvidence(call[q].cmd.opp)'
  BY <1>1, <1>2 DEF Stands
<1> QED
  BY <1>1, <1>3 DEF Stands, Used, KeyOf, NamesakeOf, Live, Stored, Target, HasPocEvidence

-----------------------------------------------------------------------------
(* What a step does to the deals *)

\* A step of the sessions alone.
LEMMA QuietStep ==
    ASSUME DeskInv, Unchanged
    PROVE  /\ DataOK' /\ Unopened' /\ TrailLeads' /\ EveryMoveIsAudited'
           /\ \A o \in Opps : Stored(o) => Stored(o)'
<1>1. DataOK'
  BY TypeParts DEF DeskInv, Unchanged, DataOK
<1>2. \A o \in Opps : MovesAt(o)' = MovesAt(o) /\ (Stored(o)' <=> Stored(o))
  BY DEF Unchanged, MovesAt, Stored
<1>3. Unopened' /\ TrailLeads'
  BY <1>2 DEF DeskInv, Unchanged, Unopened, TrailLeads
<1>4. EveryMoveIsAudited'
  BY <1>2 DEF DeskInv, Unchanged, EveryMoveIsAudited
<1> QED
  BY <1>1, <1>2, <1>3, <1>4

\* Events and records of moves are untouched.
LEMMA NoMove ==
    ASSUME DeskInv, trail' = trail, \A x \in Opps : MovesAt(x)' = MovesAt(x),
           \A i \in DOMAIN chain : i \in DOMAIN chain' /\ chain'[i] = chain[i]
    PROVE  EveryMoveIsAudited'
<1> SUFFICES ASSUME NEW x \in Opps
             PROVE  /\ Cardinality(MovesAt(x)') = Len(trail'[x])
                    /\ \A i \in MovesAt(x)' :
                          trail'[x][Cardinality({j \in MovesAt(x)' : j <= i})]
                             = [from |-> chain'[i].from, to |-> chain'[i].to]
  BY DEF EveryMoveIsAudited
<1>1. MovesAt(x) \subseteq DOMAIN chain
  BY DEF MovesAt
<1> QED
  BY <1>1 DEF DeskInv, EveryMoveIsAudited

\* A stage event and its record are appended together.
LEMMA AuditedMove ==
    ASSUME DeskInv, NEW cmd \in Command, NEW o \in Opps, NEW f \in CANONICAL_STAGES \cup {None},
           NEW t \in CANONICAL_STAGES,
           cmd.op \in {"create", "merge", "convert"} \/ f # t,
           ~Used(cmd), chain' = WithRecord(cmd, o, f, t, 0),
           trail' = [trail EXCEPT ![o] = Append(trail[o], [from |-> f, to |-> t])]
    PROVE  EveryMoveIsAudited'
<1>1. DataOK
  BY TypeParts DEF DeskInv
<1>2. /\ chain' \in Seq(AuditRecord) /\ Len(chain') = Len(chain) + 1
      /\ MovesAt(o)' = MovesAt(o) \cup {Len(chain) + 1}
      /\ \A x \in Opps \ {o} : MovesAt(x)' = MovesAt(x)
      /\ \A i \in DOMAIN chain : i \in DOMAIN chain' /\ chain'[i] = chain[i]
      /\ chain'[Len(chain) + 1].from = f /\ chain'[Len(chain) + 1].to = t
  BY <1>1, MoveRecord, 0 \in Nat
<1> SUFFICES ASSUME NEW x \in Opps
             PROVE  /\ Cardinality(MovesAt(x)') = Len(trail'[x])
                    /\ \A i \in MovesAt(x)' :
                          trail'[x][Cardinality({j \in MovesAt(x)' : j <= i})]
                             = [from |-> chain'[i].from, to |-> chain'[i].to]
  BY DEF EveryMoveIsAudited
<1>3. MovesAt(x) \subseteq DOMAIN chain
  BY DEF MovesAt
<1>4. CASE x # o
  <2>1. trail'[x] = trail[x] /\ MovesAt(x)' = MovesAt(x)
    BY <1>1, <1>2, <1>4 DEF DataOK
  <2>2. \A i \in MovesAt(x) : chain'[i] = chain[i]
    BY <1>2, <1>3
  <2> QED
    BY <2>1, <2>2 DEF DeskInv, EveryMoveIsAudited
<1>5. CASE x = o
  <2> DEFINE n == Len(chain) + 1
             M == MovesAt(o)
             e == [from |-> f, to |-> t]
  <2>1. /\ M \subseteq 1..Len(chain) /\ IsFiniteSet(M) /\ Cardinality(M) = Len(trail[o])
        /\ \A i \in M : Cardinality({j \in M : j <= i}) \in 1..Len(trail[o])
    BY <1>1, MovesAreRecords DEF DeskInv, EveryMoveIsAudited
  <2>2. Len(chain) \in Nat /\ n \notin M
    BY <1>1, <2>1 DEF DataOK
  <2>3. Cardinality(M \cup {n}) = Len(trail[o]) + 1
    BY <2>1, <2>2, FS_AddElement
  <2>4. /\ trail[o] \in Seq(StageEvent) /\ e \in StageEvent /\ trail'[o] = Append(trail[o], e)
    BY <1>1 DEF DataOK, StageEvent
  <2>5. /\ Len(trail'[o]) = Len(trail[o]) + 1 /\ trail'[o][Len(trail[o]) + 1] = e
        /\ \A k \in 1..Len(trail[o]) : trail'[o][k] = trail[o][k]
    <3> HIDE DEF e
    <3> QED
      BY <2>4
  <2>6. ASSUME NEW i \in M \cup {n}
        PROVE  trail'[o][Cardinality({j \in M \cup {n} : j <= i})]
                  = [from |-> chain'[i].from, to |-> chain'[i].to]
    <3>1. CASE i = n
      <4>1. {j \in M \cup {n} : j <= i} = M \cup {n}
        BY <2>1, <2>2, <3>1
      <4> QED
        BY <1>2, <2>3, <2>5, <3>1, <4>1
    <3>2. CASE i \in M
      <4>1. {j \in M \cup {n} : j <= i} = {j \in M : j <= i}
        BY <2>1, <2>2, <3>2
      <4>2. chain'[i] = chain[i]
        BY <1>2, <1>3, <1>5, <3>2
      <4>3. trail[o][Cardinality({j \in M : j <= i})] = [from |-> chain[i].from, to |-> chain[i].to]
        BY <3>2 DEF DeskInv, EveryMoveIsAudited
      <4> QED
        BY <2>1, <2>5, <3>2, <4>1, <4>2, <4>3
    <3> QED
      BY <3>1, <3>2
  <2> QED
    BY <1>2, <1>5, <2>3, <2>5, <2>6
<1> QED
  BY <1>4, <1>5

\* An event that starts where the deal was and ends where it is now leaves no gap.
LEMMA TrailGrows ==
    ASSUME DeskInv, NEW o \in Opps, NEW f \in CANONICAL_STAGES \cup {None}, NEW t \in CANONICAL_STAGES,
           f = (IF Stored(o) THEN opp[o].stage ELSE None),
           trail' = [trail EXCEPT ![o] = Append(trail[o], [from |-> f, to |-> t])],
           began' = began, opp'[o].stage = t, \A x \in Opps \ {o} : opp'[x] = opp[x]
    PROVE  TrailLeads'
<1> DEFINE e == [from |-> f, to |-> t]
<1>1. DataOK /\ TrailLeads /\ Unopened
  BY TypeParts DEF DeskInv
<1>2. e \in StageEvent /\ e.from = f /\ e.to = t
  BY DEF StageEvent
<1>3. trail'[o] = Append(trail[o], e) /\ \A x \in Opps \ {o} : trail'[x] = trail[x]
  BY <1>1 DEF DataOK
<1> HIDE DEF e
<1>4. trail[o] \in Seq(StageEvent)
  BY <1>1 DEF DataOK
<1>5. /\ Len(trail[o]) \in Nat /\ Len(trail'[o]) = Len(trail[o]) + 1 /\ trail'[o][Len(trail[o]) + 1] = e
      /\ \A k \in 1..Len(trail[o]) : trail'[o][k] = trail[o][k]
      /\ trail'[o] # <<>>
      /\ trail[o] # <<>> => Len(trail[o]) >= 1
  BY <1>2, <1>3, <1>4
<1>6. f = IF trail[o] = <<>> THEN began[o] ELSE trail[o][Len(trail[o])].to
  BY <1>1 DEF TrailLeads, Unopened
<1>7. /\ trail'[o][1].from = began'[o]
      /\ \A i \in 1..(Len(trail'[o]) - 1) : trail'[o][i].to = trail'[o][i + 1].from
      /\ opp'[o].stage = trail'[o][Len(trail'[o])].to
  <2>1. CASE trail[o] = <<>>
    <3>1. Len(trail[o]) = 0
      BY <2>1
    <3> QED
      BY <1>2, <1>5, <1>6, <2>1, <3>1
  <2>2. CASE trail[o] # <<>>
    <3>1. trail'[o][1].from = began'[o]
      BY <1>1, <1>5, <2>2 DEF TrailLeads
    <3>2. ASSUME NEW i \in 1..(Len(trail'[o]) - 1) PROVE trail'[o][i].to = trail'[o][i + 1].from
      <4>1. CASE i < Len(trail[o])
        BY <1>1, <1>5, <4>1 DEF TrailLeads
      <4>2. CASE i = Len(trail[o])
        BY <1>2, <1>5, <1>6, <2>2, <4>2
      <4> QED
        BY <1>5, <4>1, <4>2
    <3> QED
      BY <1>2, <1>5, <3>1, <3>2
  <2> QED
    BY <2>1, <2>2
<1> SUFFICES ASSUME NEW x \in Opps \ {o}
             PROVE  /\ trail'[x] # <<>> => trail'[x][1].from = began'[x]
                    /\ \A i \in 1..(Len(trail'[x]) - 1) : trail'[x][i].to = trail'[x][i + 1].from
                    /\ Stored(x)' => opp'[x].stage = IF trail'[x] = <<>> THEN began'[x]
                                                     ELSE trail'[x][Len(trail'[x])].to
  BY <1>5, <1>7 DEF TrailLeads
<1> QED
  BY <1>1, <1>3 DEF TrailLeads, Stored

-----------------------------------------------------------------------------
(* The steps keep the invariant *)

LEMMA DeskInit == Init => DeskInv
<1> SUFFICES ASSUME Init PROVE DeskInv
  OBVIOUS
<1> USE OpportunityConstants
<1>1. /\ opp \in [Opps -> Opportunity \cup {None}]
      /\ \A o \in Opps : Stored(o) => opp[o].stage \in CANONICAL_STAGES
  BY DEF Init, Stored, Opportunity
<1>2. /\ \A o \in Opps : trail[o] = <<>>
      /\ chain = <<>>
      /\ \A s \in Sessions : call[s] = Idle
  BY DEF Init
<1>3. DataOK
  <2>1. began \in [Opps -> CANONICAL_STAGES \cup {None}]
    BY <1>1 DEF Init
  <2>2. qual \in [Opps -> Qualification]
    BY DEF Init, Qualification
  <2>3. /\ reg \in [Opps -> RegStatuses] /\ links \in [Opps -> SUBSET Pocs] /\ poc \subseteq Opps
        /\ engagement \in [Opps -> Engagements \cup {None}]
    BY DEF Init
  <2>4. trail \in [Opps -> Seq(StageEvent)] /\ chain \in Seq(AuditRecord)
    BY DEF Init
  <2> QED
    BY <1>1, <2>1, <2>2, <2>3, <2>4 DEF DataOK
<1>4. SessionsOK
  BY DEF Init, SessionsOK, Call, Idle
<1>5. CallInv /\ LockInv /\ ReadsStand
  BY <1>2 DEF Init, CallInv, LockInv, ReadsStand, Idle
<1>6. \A o \in Opps : MovesAt(o) = {}
  BY <1>2 DEF MovesAt
<1>7. Unopened /\ TrailLeads
  BY <1>2, <1>6 DEF Init, Unopened, TrailLeads
<1>8. EveryMoveIsAudited
  <2>1. \A o \in Opps : Len(trail[o]) = 0
    BY <1>2
  <2>2. \A o \in Opps : Cardinality(MovesAt(o)) = 0
    BY <1>6, FS_EmptySet
  <2> QED
    BY <1>6, <2>1, <2>2 DEF EveryMoveIsAudited
<1> QED
  BY <1>3, <1>4, <1>5, <1>7, <1>8, TypeParts DEF DeskInv

LEMMA IdleCall == Idle \in Call /\ Idle.step = "idle"
BY DEF Idle, Call

\* A call ends and gives back the lock if it has it.
LEMMA EndStep ==
    ASSUME DeskInv, NEW s \in Sessions, call' = Ended(s), lock' = Released(s),
           \A o \in Opps : Stored(o) => Stored(o)'
    PROVE  SessionsOK' /\ CallInv' /\ LockInv' /\ (lock' = None => ReadsStand')
<1>1. SessionsOK' /\ CallInv' /\ LockInv'
  <2> DEFINE y == Idle
  <2>1. call' = [call EXCEPT ![s] = y] /\ y \in Call /\ y.step = "idle"
    BY IdleCall DEF Ended
  <2> HIDE DEF y
  <2> QED
    BY <2>1, SessionStep, TypeParts DEF DeskInv
<1>2. lock' = None => ReadsStand'
  BY <1>1, OpportunityConstants DEF LockInv, ReadsStand
<1> QED
  BY <1>1, <1>2

LEMMA LeaveStep ==
    ASSUME DeskInv, NEW s \in Sessions, Leave(s)
    PROVE  DeskInv'
<1>1. DataOK' /\ Unopened' /\ TrailLeads' /\ EveryMoveIsAudited' /\ \A o \in Opps : Stored(o) => Stored(o)'
  BY QuietStep DEF Leave
<1>2. SessionsOK' /\ CallInv' /\ LockInv'
  BY <1>1, EndStep DEF Leave
<1>3. ReadsStand'
  <2>1. \A q \in Sessions : call'[q].step = "ready" => call'[q] = call[q]
    BY IdleCall, TypeParts DEF Leave, Ended, DeskInv, SessionsOK
  <2>2. \A o \in Opps : HasPocEvidence(o) => HasPocEvidence(o)'
    BY DEF Leave, Unchanged, HasPocEvidence
  <2> QED
    BY <2>1, <2>2, ReadsKeep DEF Leave, Unchanged, DeskInv
<1> QED
  BY <1>1, <1>2, <1>3, TypeParts DEF DeskInv, TypeOK, DataOK, SessionsOK

LEMMA LockAndReadStep ==
    ASSUME DeskInv, NEW s \in Sessions, NEW cmd \in Asked, lockAndRead(s, cmd)
    PROVE  DeskInv'
<1> DEFINE y == [step |-> "ready", cmd |-> cmd,
                 from |-> IF cmd.op \in {"update", "convert"} THEN opp[cmd.opp].stage ELSE None]
<1>1. DataOK' /\ Unopened' /\ TrailLeads' /\ EveryMoveIsAudited' /\ \A o \in Opps : Stored(o) => Stored(o)'
  BY QuietStep DEF lockAndRead
<1>2. cmd \in Command /\ cmd # None /\ WellFormed(cmd) /\ cmd.op \in Locked
  BY AskedAssumption DEF lockAndRead
<1>3. cmd.op \in {"update", "convert"} => Live(cmd.opp) /\ cmd.opp \in Opps
  BY <1>2 DEF lockAndRead, Admissible, WellFormed
<1>4. cmd.op \in {"update", "convert"} => opp[cmd.opp].stage \in CANONICAL_STAGES
  BY <1>3, TypeParts DEF DeskInv, DataOK, Live, Stored, Opportunity
<1>5. y \in Call /\ y.step = "ready" /\ y.cmd = cmd
  BY <1>2, <1>4 DEF Call
<1>6. /\ call' = [call EXCEPT ![s] = y] /\ lock = None /\ lock' = s
      /\ y.from = IF cmd.op \in {"update", "convert"} THEN opp[cmd.opp].stage ELSE None
  BY DEF lockAndRead, LockIsFree
<1> HIDE DEF y
<1>7. SessionsOK' /\ CallInv' /\ LockInv'
  BY <1>1, <1>2, <1>5, <1>6, SessionStep, TypeParts DEF DeskInv, OpsOf, Locked, Restores
<1>8. ReadsStand'
  <2> SUFFICES ASSUME NEW q \in Sessions, call'[q].step = "ready" PROVE Stands(q)'
    BY DEF ReadsStand
  <2>1. q = s
    BY <1>6, <1>7 DEF LockInv
  <2>2. call'[q] = y
    BY <1>6, <2>1, TypeParts DEF DeskInv, SessionsOK
  <2>3. ~Used(cmd) /\ Admissible(cmd) /\ Unchanged
    BY DEF lockAndRead
  <2> QED
    BY <1>5, <1>6, <2>2, <2>3, <1>2, SMTT(30)
    DEF Unchanged, Stands, Used, KeyOf, NamesakeOf, Live, Stored, Target, HasPocEvidence, Admissible, MayMove,
        MayConvert
<1> QED
  BY <1>1, <1>7, <1>8, TypeParts DEF DeskInv, TypeOK, DataOK, SessionsOK

LEMMA WriteFirstStep ==
    ASSUME DeskInv, NEW s \in Sessions, NEW cmd \in Asked, writeFirst(s, cmd)
    PROVE  DeskInv'
<1> DEFINE c == [cmd EXCEPT !.token = None]
           y == [step |-> "written", cmd |-> c, from |-> None]
<1>1. DataOK' /\ Unopened' /\ TrailLeads' /\ EveryMoveIsAudited' /\ \A o \in Opps : Stored(o) => Stored(o)'
  BY QuietStep DEF writeFirst
<1>2. cmd \in Command /\ WellFormed(cmd) /\ cmd.op \in Unlocked
  BY AskedAssumption DEF writeFirst
<1>3. c \in Command /\ c # None /\ c.op = cmd.op /\ c.opp = cmd.opp /\ c.poc = cmd.poc
  BY <1>2, AskedAssumption DEF Command
<1>4. WellFormed(c) /\ c.op \in Unlocked /\ (c.op \in {"qualify"} \cup Restores => Stored(c.opp))
  BY <1>2, <1>3 DEF WellFormed, Unlocked, Restores, writeFirst, MayWrite
<1> HIDE DEF c
<1>5. y \in Call /\ y.step = "written" /\ y.cmd = c
  BY <1>3 DEF Call
<1>6. call' = [call EXCEPT ![s] = y] /\ lock' = lock /\ call[s].step = "idle"
  BY DEF writeFirst, c
<1>7. lock' = Released(s)
  BY <1>6, TypeParts DEF Released, DeskInv, LockInv
<1> HIDE DEF y
<1>8. SessionsOK' /\ CallInv' /\ LockInv'
  BY <1>1, <1>3, <1>4, <1>5, <1>6, <1>7, SessionStep, TypeParts DEF DeskInv, OpsOf, Unlocked
<1>9. ReadsStand'
  <2>1. \A q \in Sessions : call'[q].step = "ready" => call'[q] = call[q]
    BY <1>5, <1>6, TypeParts DEF DeskInv, SessionsOK
  <2>2. \A o \in Opps : HasPocEvidence(o) => HasPocEvidence(o)'
    BY DEF writeFirst, Unchanged, HasPocEvidence
  <2> QED
    BY <2>1, <2>2, ReadsKeep DEF writeFirst, Unchanged, DeskInv
<1> QED
  BY <1>1, <1>8, <1>9, TypeParts DEF DeskInv, TypeOK, DataOK, SessionsOK

LEMMA ClaimStep ==
    ASSUME DeskInv, NEW s \in Sessions, NEW cmd \in Asked, claimArchivedEntity(s, cmd)
    PROVE  DeskInv'
<1> DEFINE y == [step |-> "written", cmd |-> cmd, from |-> None]
<1>1. DataOK' /\ Unopened' /\ TrailLeads' /\ EveryMoveIsAudited' /\ \A o \in Opps : Stored(o) => Stored(o)'
  BY QuietStep DEF claimArchivedEntity
<1>2. /\ cmd \in Command /\ cmd # None /\ WellFormed(cmd) /\ cmd.op \in Restores
      /\ Stored(cmd.opp)
  BY AskedAssumption DEF claimArchivedEntity
<1>3. y \in Call /\ y.step = "written" /\ y.cmd = cmd
  BY <1>2 DEF Call
<1>4. call' = [call EXCEPT ![s] = y] /\ lock' = lock /\ call[s].step = "idle"
  BY DEF claimArchivedEntity
<1>5. lock' = Released(s)
  BY <1>4, TypeParts DEF Released, DeskInv, LockInv
<1> HIDE DEF y
<1>6. SessionsOK' /\ CallInv' /\ LockInv'
  BY <1>1, <1>2, <1>3, <1>4, <1>5, SessionStep, TypeParts DEF DeskInv, OpsOf
<1>7. ReadsStand'
  <2>1. \A q \in Sessions : call'[q].step = "ready" => call'[q] = call[q]
    BY <1>3, <1>4, TypeParts DEF DeskInv, SessionsOK
  <2>2. \A o \in Opps : HasPocEvidence(o) => HasPocEvidence(o)'
    BY DEF claimArchivedEntity, Unchanged, HasPocEvidence
  <2> QED
    BY <2>1, <2>2, ReadsKeep DEF claimArchivedEntity, Unchanged, DeskInv
<1> QED
  BY <1>1, <1>6, <1>7, TypeParts DEF DeskInv, TypeOK, DataOK, SessionsOK

-----------------------------------------------------------------------------
(* The commits under the lock *)

\* What holds when a session writes what it has read under the lock.
LEMMA Reader ==
    ASSUME DeskInv, NEW s \in Sessions, call[s].step = "ready"
    PROVE  /\ lock = s /\ Released(s) = None
           /\ Proper(s) /\ Stands(s) /\ call[s].cmd \in Command
BY TypeParts DEF DeskInv, LockInv, CallInv, ReadsStand, Released, SessionsOK, Call, Proper

LEMMA Assemble ==
    ASSUME DataOK', SessionsOK', CallInv', LockInv', ReadsStand', Unopened', TrailLeads', EveryMoveIsAudited'
    PROVE  DeskInv'
BY DEF DeskInv, TypeOK, DataOK, SessionsOK

LEMMA CreateStep ==
    ASSUME DeskInv, NEW s \in Sessions, NEW o \in Opps, NEW t \in Tokens, createOpportunity(s, o, t)
    PROVE  DeskInv'
<1> DEFINE cmd == call[s].cmd
<1>1. /\ Released(s) = None /\ Proper(s) /\ Stands(s) /\ cmd \in Command
      /\ cmd.op \in {"create", "merge"} /\ ~Stored(o)
  BY Reader DEF createOpportunity
<1>2. /\ chain' = WithRecord(cmd, o, None, "LEAD", 0)
      /\ trail' = [trail EXCEPT ![o] = Append(trail[o], [from |-> None, to |-> "LEAD"])]
      /\ call' = Ended(s) /\ lock' = Released(s)
      /\ UNCHANGED <<began, qual, reg, links, poc, engagement>>
  BY DEF createOpportunity, Commits
<1>3. cmd.title \in Titles
  BY <1>1 DEF Proper, WellFormed
<1>4. PICK dealType \in DealTypes :
         opp' = [opp EXCEPT ![o] = [archived |-> FALSE, stage |-> "LEAD", dealType |-> dealType,
                                    title |-> cmd.title, updatedAt |-> t]]
  BY DEF createOpportunity
<1> DEFINE r == [archived |-> FALSE, stage |-> "LEAD", dealType |-> dealType, title |-> cmd.title,
                 updatedAt |-> t]
<1>5. r \in Opportunity /\ r.stage = "LEAD" /\ r # None
  <2>1. "LEAD" \in CANONICAL_STAGES
    BY DEF CANONICAL_STAGES, Pipeline, ORDERED_PIPELINE
  <2>2. r \in Opportunity /\ r.stage = "LEAD"
    BY <1>3, <2>1 DEF Opportunity
  <2> HIDE DEF r
  <2> QED
    BY <2>2, OpportunityConstants
<1> HIDE DEF r
<1>6. DataOK
  BY TypeParts DEF DeskInv
<1>7. /\ opp' \in [Opps -> Opportunity \cup {None}]
      /\ opp'[o] = r /\ \A x \in Opps \ {o} : opp'[x] = opp[x]
  BY <1>4, <1>5, <1>6 DEF DataOK, r
<1>8. ~Used(cmd) /\ 0 \in Nat /\ "LEAD" \in CANONICAL_STAGES /\ None \in CANONICAL_STAGES \cup {None}
  BY <1>1 DEF Stands, CANONICAL_STAGES, Pipeline, ORDERED_PIPELINE
<1>9. chain' \in Seq(AuditRecord) /\ \A x \in Opps \ {o} : MovesAt(x)' = MovesAt(x)
  BY <1>1, <1>2, <1>6, <1>8, MoveRecord
<1>10. trail' \in [Opps -> Seq(StageEvent)] /\ \A x \in Opps \ {o} : trail'[x] = trail[x]
  <2> DEFINE e == [from |-> None, to |-> "LEAD"]
  <2>1. e \in StageEvent
    BY <1>8 DEF StageEvent
  <2> HIDE DEF e
  <2>2. trail' = [trail EXCEPT ![o] = Append(trail[o], e)]
    BY <1>2 DEF e
  <2> QED
    BY <1>6, <2>1, <2>2 DEF DataOK
<1>11. DataOK'
  BY <1>2, <1>6, <1>7, <1>9, <1>10 DEF DataOK
<1>12. Stored(o)' /\ \A x \in Opps : Stored(x) => Stored(x)'
  BY <1>5, <1>7 DEF Stored
<1>13. SessionsOK' /\ CallInv' /\ LockInv' /\ ReadsStand'
  BY <1>1, <1>2, <1>12, EndStep
<1>14. TrailLeads'
  BY <1>1, <1>2, <1>5, <1>7, <1>8, TrailGrows DEF Stored
<1>15. EveryMoveIsAudited'
  BY <1>1, <1>2, <1>8, AuditedMove
<1>16. Unopened'
  BY <1>2, <1>7, <1>9, <1>10, <1>12 DEF Unopened, DeskInv, Stored
<1> QED
  BY <1>11, <1>13, <1>14, <1>15, <1>16, Assemble

\* The deal that an update or a conversion writes is there and keeps a stage of the pipeline.
LEMMA Written ==
    ASSUME DeskInv, NEW s \in Sessions, call[s].step = "ready", CasMatches(call[s].cmd),
           call[s].cmd.op \in {"update", "archive", "convert"}
    PROVE  LET cmd == call[s].cmd
               o == cmd.opp
           IN  /\ o \in Opps /\ Stored(o) /\ Live(o) /\ opp[o] \in Opportunity
               /\ cmd.op \in {"update", "convert"} => call[s].from = opp[o].stage
               /\ cmd.op = "update" => /\ cmd.changes \in Changes
                                       /\ Target(cmd) \in CANONICAL_STAGES /\ JudgedType(cmd) \in DealTypes
                                       /\ Given(cmd.changes.title, opp[o].title) \in Titles
<1> DEFINE cmd == call[s].cmd
           o == cmd.opp
<1>1. Proper(s) /\ Stands(s) /\ DataOK
  BY Reader, TypeParts DEF DeskInv
<1>2. o \in Opps /\ Stored(o) /\ Live(o) /\ opp[o] \in Opportunity
  BY <1>1 DEF Proper, WellFormed, CasMatches, Live, Stored, DataOK
<1>3. cmd.op = "update" =>
         /\ cmd.changes \in Changes
         /\ cmd.changes.stage \in CANONICAL_STAGES \cup {None}
         /\ cmd.changes.dealType \in DealTypes \cup {None}
         /\ cmd.changes.title \in Titles \cup {None}
  BY <1>1, OpportunityConstants DEF Proper, WellFormed
<1>4. opp[o].stage \in CANONICAL_STAGES /\ opp[o].dealType \in DealTypes /\ opp[o].title \in Titles
  BY <1>2 DEF Opportunity
<1>5. cmd.op \in {"update", "convert"} => call[s].from = opp[o].stage
  BY <1>1 DEF Stands
<1> QED
  BY <1>2, <1>3, <1>4, <1>5 DEF Target, JudgedType, Given

\* The row of a deal is written again.
LEMMA Rewritten ==
    ASSUME DeskInv, NEW o \in Opps, NEW r \in Opportunity, opp' = [opp EXCEPT ![o] = r], Stored(o)
    PROVE  /\ opp' \in [Opps -> Opportunity \cup {None}]
           /\ opp'[o] = r /\ \A x \in Opps \ {o} : opp'[x] = opp[x]
           /\ \A x \in Opps : Stored(x)' <=> Stored(x)
<1>1. opp \in [Opps -> Opportunity \cup {None}]
  BY TypeParts DEF DeskInv, DataOK
<1>2. r # None
  BY OpportunityConstants
<1> QED
  BY <1>1, <1>2 DEF Stored

\* The trail of a deal goes on from a stage of its own.
LEMMA TrailType ==
    ASSUME DataOK, NEW o \in Opps, NEW f \in CANONICAL_STAGES, NEW t \in CANONICAL_STAGES,
           trail' = [trail EXCEPT ![o] = Append(trail[o], [from |-> f, to |-> t])]
    PROVE  /\ trail' \in [Opps -> Seq(StageEvent)]
           /\ \A x \in Opps \ {o} : trail'[x] = trail[x]
<1> DEFINE e == [from |-> f, to |-> t]
<1>1. e \in StageEvent
  BY DEF StageEvent
<1> HIDE DEF e
<1>2. trail' = [trail EXCEPT ![o] = Append(trail[o], e)]
  BY DEF e
<1> QED
  BY <1>1, <1>2 DEF DataOK

\* A deal that stays at its stage, and whose trail stays as it is.
LEMMA TrailStands ==
    ASSUME DeskInv, UNCHANGED <<trail, began>>,
           \A x \in Opps : Stored(x)' => Stored(x) /\ opp'[x].stage = opp[x].stage
    PROVE  TrailLeads'
BY DEF DeskInv, TrailLeads

LEMMA UpdateStep ==
    ASSUME DeskInv, NEW s \in Sessions, NEW t \in Tokens, updateOpportunity(s, t)
    PROVE  DeskInv'
<1> DEFINE cmd == call[s].cmd
           o == cmd.opp
           r == [archived |-> FALSE, stage |-> Target(cmd), dealType |-> JudgedType(cmd),
                 title |-> Given(cmd.changes.title, opp[o].title), updatedAt |-> t]
<1>1. /\ call[s].step = "ready" /\ cmd.op = "update" /\ CasMatches(cmd)
      /\ opp' = [opp EXCEPT ![o] = r]
      /\ call' = Ended(s) /\ lock' = Released(s)
      /\ UNCHANGED <<began, qual, reg, links, poc, engagement>>
  BY DEF updateOpportunity, Commits, MayClaim
<1>2. /\ trail' = IF Target(cmd) = call[s].from THEN trail
                  ELSE [trail EXCEPT ![o] = Append(trail[o], [from |-> call[s].from, to |-> Target(cmd)])]
      /\ chain' = WithRecord(cmd, o, call[s].from, Target(cmd), 0)
  BY DEF updateOpportunity
<1>3. Released(s) = None /\ Stands(s) /\ cmd \in Command /\ DataOK
  BY <1>1, Reader, TypeParts DEF DeskInv
<1>4. /\ o \in Opps /\ Stored(o) /\ opp[o] \in Opportunity /\ call[s].from = opp[o].stage
      /\ Target(cmd) \in CANONICAL_STAGES /\ JudgedType(cmd) \in DealTypes
      /\ Given(cmd.changes.title, opp[o].title) \in Titles
  BY <1>1, Written
<1>5. r \in Opportunity /\ r.stage = Target(cmd)
  BY <1>4 DEF Opportunity
<1> HIDE DEF r
<1>6. /\ opp' \in [Opps -> Opportunity \cup {None}]
      /\ opp'[o] = r /\ \A x \in Opps \ {o} : opp'[x] = opp[x]
      /\ \A x \in Opps : Stored(x)' <=> Stored(x)
  BY <1>1, <1>4, <1>5, Rewritten
<1>7. SessionsOK' /\ CallInv' /\ LockInv' /\ ReadsStand'
  BY <1>1, <1>3, <1>6, EndStep
<1>8. ~Used(cmd) /\ 0 \in Nat /\ call[s].from \in CANONICAL_STAGES
  BY <1>3, <1>4 DEF Stands, Opportunity
<1> DEFINE f == call[s].from
           g == Target(cmd)
<1>9. f \in CANONICAL_STAGES /\ g \in CANONICAL_STAGES /\ f = opp[o].stage /\ opp'[o].stage = g
      /\ f \in CANONICAL_STAGES \cup {None}
  BY <1>4, <1>5, <1>6, <1>8
<1>10. CASE f = g
  <2>1. trail' = trail /\ chain' = WithRecord(cmd, o, f, f, 0)
    BY <1>2, <1>10
  <2>2. cmd.op \notin {"create", "merge", "convert"}
    BY <1>1
  <2>3. /\ chain' \in Seq(AuditRecord)
        /\ \A x \in Opps : MovesAt(x)' = MovesAt(x)
        /\ \A i \in DOMAIN chain : i \in DOMAIN chain' /\ chain'[i] = chain[i]
    BY <1>3, <1>4, <1>8, <1>9, <2>1, <2>2, PlainRecord
  <2>4. DataOK'
    BY <1>1, <1>3, <1>6, <2>1, <2>3 DEF DataOK
  <2>5. EveryMoveIsAudited'
    BY <2>1, <2>3, NoMove
  <2>6. TrailLeads'
    <3>1. \A x \in Opps : opp'[x].stage = opp[x].stage
      BY <1>4, <1>6, <1>9, <1>10
    <3> QED
      BY <1>1, <1>6, <2>1, <3>1, TrailStands
  <2>7. Unopened'
    BY <1>1, <1>6, <2>1, <2>3 DEF DeskInv, Unopened
  <2> QED
    BY <1>7, <2>4, <2>5, <2>6, <2>7, Assemble
<1>11. CASE f # g
  <2>1. /\ trail' = [trail EXCEPT ![o] = Append(trail[o], [from |-> f, to |-> g])]
        /\ chain' = WithRecord(cmd, o, f, g, 0)
    BY <1>2, <1>11
  <2> HIDE DEF f, g, cmd, o
  <2>2. chain' \in Seq(AuditRecord) /\ \A x \in Opps \ {o} : MovesAt(x)' = MovesAt(x)
    BY <1>3, <1>4, <1>8, <1>9, <1>11, <2>1, MoveRecord
  <2>3. trail' \in [Opps -> Seq(StageEvent)] /\ \A x \in Opps \ {o} : trail'[x] = trail[x]
    BY <1>3, <1>4, <1>9, <2>1, TrailType
  <2>4. DataOK'
    BY <1>1, <1>3, <1>6, <2>2, <2>3 DEF DataOK
  <2>5. EveryMoveIsAudited'
    BY <1>3, <1>4, <1>8, <1>9, <1>11, <2>1, AuditedMove
  <2>6. TrailLeads'
    BY <1>1, <1>4, <1>6, <1>9, <2>1, TrailGrows
  <2>7. Unopened'
    BY <1>1, <1>4, <1>6, <2>2, <2>3 DEF DeskInv, Unopened
  <2> QED
    BY <1>7, <2>4, <2>5, <2>6, <2>7, Assemble
<1> QED
  BY <1>10, <1>11

LEMMA ArchiveStep ==
    ASSUME DeskInv, NEW s \in Sessions, NEW t \in Tokens, archiveOpportunity(s, t)
    PROVE  DeskInv'
<1> DEFINE cmd == call[s].cmd
           o == cmd.opp
           r == [archived |-> TRUE, stage |-> opp[o].stage, dealType |-> opp[o].dealType,
                 title |-> opp[o].title, updatedAt |-> t]
<1>1. /\ call[s].step = "ready" /\ cmd.op = "archive" /\ CasMatches(cmd)
      /\ opp' = [opp EXCEPT ![o] = r]
      /\ chain' = WithRecord(cmd, o, None, None, 0)
      /\ call' = Ended(s) /\ lock' = Released(s)
      /\ UNCHANGED <<began, qual, reg, links, poc, engagement, trail>>
  BY DEF archiveOpportunity, Commits, MayClaim
<1>2. Released(s) = None /\ cmd \in Command /\ DataOK
  BY <1>1, Reader, TypeParts DEF DeskInv
<1>3. o \in Opps /\ Stored(o) /\ opp[o] \in Opportunity
  BY <1>1, Written
<1>4. r \in Opportunity /\ r.stage = opp[o].stage
  BY <1>3 DEF Opportunity
<1> HIDE DEF r
<1>5. /\ opp' \in [Opps -> Opportunity \cup {None}]
      /\ opp'[o] = r /\ \A x \in Opps \ {o} : opp'[x] = opp[x]
      /\ \A x \in Opps : Stored(x)' <=> Stored(x)
  BY <1>1, <1>3, <1>4, Rewritten
<1>6. SessionsOK' /\ CallInv' /\ LockInv' /\ ReadsStand'
  BY <1>1, <1>2, <1>5, EndStep
<1>7. /\ chain' \in Seq(AuditRecord)
      /\ \A x \in Opps : MovesAt(x)' = MovesAt(x)
      /\ \A i \in DOMAIN chain : i \in DOMAIN chain' /\ chain'[i] = chain[i]
  <2>1. cmd.op \notin {"create", "merge", "convert"} /\ 0 \in Nat /\ None \in CANONICAL_STAGES \cup {None}
    BY <1>1
  <2> QED
    BY <1>1, <1>2, <1>3, <2>1, PlainRecord
<1>8. DataOK'
  BY <1>1, <1>2, <1>5, <1>7 DEF DataOK
<1>9. EveryMoveIsAudited'
  BY <1>1, <1>7, NoMove
<1>10. TrailLeads'
  <2>1. \A x \in Opps : opp'[x].stage = opp[x].stage
    BY <1>3, <1>4, <1>5
  <2> QED
    BY <1>1, <1>5, <2>1, TrailStands
<1>11. Unopened'
  BY <1>1, <1>5, <1>7 DEF DeskInv, Unopened
<1> QED
  BY <1>6, <1>8, <1>9, <1>10, <1>11, Assemble

LEMMA ConvertStep ==
    ASSUME DeskInv, NEW s \in Sessions, NEW t \in Tokens, convertOpportunity(s, t)
    PROVE  DeskInv'
<1> DEFINE cmd == call[s].cmd
           o == cmd.opp
           f == call[s].from
           r == [opp[o] EXCEPT !.updatedAt = t]
<1>1. /\ call[s].step = "ready" /\ cmd.op = "convert" /\ CasMatches(cmd)
      /\ opp' = [opp EXCEPT ![o] = r]
      /\ engagement' = [engagement EXCEPT ![o] = EngagementOf(o)]
      /\ trail' = [trail EXCEPT ![o] = Append(trail[o], [from |-> f, to |-> f])]
      /\ chain' = WithRecord(cmd, o, f, f, 0)
      /\ call' = Ended(s) /\ lock' = Released(s)
      /\ UNCHANGED <<began, qual, reg, links, poc>>
  BY DEF convertOpportunity, Commits, MayClaim
<1>2. Released(s) = None /\ Stands(s) /\ cmd \in Command /\ DataOK
  BY <1>1, Reader, TypeParts DEF DeskInv
<1>3. o \in Opps /\ Stored(o) /\ opp[o] \in Opportunity /\ f = opp[o].stage
  BY <1>1, Written
<1>4. r \in Opportunity /\ r.stage = opp[o].stage
  BY <1>3 DEF Opportunity
<1> HIDE DEF r
<1>5. /\ opp' \in [Opps -> Opportunity \cup {None}]
      /\ opp'[o] = r /\ \A x \in Opps \ {o} : opp'[x] = opp[x]
      /\ \A x \in Opps : Stored(x)' <=> Stored(x)
  BY <1>1, <1>3, <1>4, Rewritten
<1>6. SessionsOK' /\ CallInv' /\ LockInv' /\ ReadsStand'
  BY <1>1, <1>2, <1>5, EndStep
<1>7. /\ ~Used(cmd) /\ 0 \in Nat /\ f \in CANONICAL_STAGES /\ f \in CANONICAL_STAGES \cup {None}
      /\ cmd.op \in {"create", "merge", "convert"} /\ opp'[o].stage = f
  BY <1>1, <1>2, <1>3, <1>4, <1>5 DEF Stands, Opportunity
<1>8. engagement' \in [Opps -> Engagements \cup {None}]
  BY <1>1, <1>2 DEF DataOK, EngagementOf, Engagements
<1> HIDE DEF f, cmd, o
<1>9. chain' \in Seq(AuditRecord) /\ \A x \in Opps \ {o} : MovesAt(x)' = MovesAt(x)
  BY <1>1, <1>2, <1>3, <1>7, MoveRecord
<1>10. trail' \in [Opps -> Seq(StageEvent)] /\ \A x \in Opps \ {o} : trail'[x] = trail[x]
  BY <1>1, <1>2, <1>3, <1>7, TrailType
<1>11. DataOK'
  BY <1>1, <1>2, <1>5, <1>8, <1>9, <1>10 DEF DataOK
<1>12. EveryMoveIsAudited'
  BY <1>1, <1>2, <1>3, <1>7, AuditedMove
<1>13. TrailLeads'
  BY <1>1, <1>3, <1>5, <1>7, TrailGrows
<1>14. Unopened'
  BY <1>1, <1>3, <1>5, <1>9, <1>10 DEF DeskInv, Unopened
<1> QED
  BY <1>6, <1>11, <1>12, <1>13, <1>14, Assemble

-----------------------------------------------------------------------------
(* The commits of the commands that append last, and the writes without the lock *)

\* Rows of other tables are written, and a record of something else than a move.
LEMMA SideStep ==
    ASSUME DeskInv, NEW s \in Sessions, NEW n \in Nat,
           call[s].step = "written", lock = None,
           chain' = WithRecord(call[s].cmd, call[s].cmd.opp, None, None, n),
           call' = Ended(s), lock' = Released(s),
           UNCHANGED <<opp, began, reg, poc, engagement, trail>>,
           qual' \in [Opps -> Qualification], links' \in [Opps -> SUBSET Pocs]
    PROVE  DeskInv'
<1> DEFINE cmd == call[s].cmd
<1>1. DataOK /\ SessionsOK /\ Proper(s)
  BY TypeParts DEF DeskInv, CallInv
<1>2. cmd \in Command /\ cmd.op \in Unlocked \cup Restores /\ cmd.opp \in Opps
  BY <1>1 DEF Proper, OpsOf, SessionsOK, Call, WellFormed, Unlocked, Restores
<1>3. cmd.op \notin {"create", "merge", "convert"} /\ None \in CANONICAL_STAGES \cup {None}
  BY <1>2 DEF Unlocked, Restores
<1>4. /\ chain' \in Seq(AuditRecord)
      /\ \A x \in Opps : MovesAt(x)' = MovesAt(x)
      /\ \A i \in DOMAIN chain : i \in DOMAIN chain' /\ chain'[i] = chain[i]
  BY <1>1, <1>2, <1>3, PlainRecord
<1>5. DataOK'
  BY <1>1, <1>4 DEF DataOK
<1>6. \A x \in Opps : Stored(x)' <=> Stored(x)
  BY DEF Stored
<1>7. SessionsOK' /\ CallInv' /\ LockInv' /\ ReadsStand'
  <2>1. Released(s) = None
    BY DEF Released
  <2> QED
    BY <1>6, <2>1, EndStep
<1>8. EveryMoveIsAudited'
  BY <1>4, NoMove
<1>9. TrailLeads'
  BY <1>6, TrailStands
<1>10. Unopened'
  BY <1>4, <1>6 DEF DeskInv, Unopened
<1> QED
  BY <1>5, <1>7, <1>8, <1>9, <1>10, Assemble

\* The deal of a restore is there when it writes, and it writes what it found but for the archive.
LEMMA Restored ==
    ASSUME DeskInv, NEW s \in Sessions, NEW t \in Tokens, restoreArchivedEntity(s, t)
    PROVE  \E o \in Opps, r \in Opportunity :
              /\ o = call[s].cmd.opp /\ Stored(o) /\ opp[o] \in Opportunity
              /\ opp' = [opp EXCEPT ![o] = r]
              /\ r.stage = opp[o].stage
              /\ r.archived = (opp[o].archived /\ call[s].cmd.op = "restoreProposal")
<1> DEFINE cmd == call[s].cmd
<1>1. /\ call[s].step = "written" /\ cmd.op \in Restores /\ Proper(s) /\ DataOK
  BY TypeParts DEF restoreArchivedEntity, DeskInv, CallInv
<1>2. PICK o \in Opps : o = cmd.opp /\ Stored(o) /\ opp[o] \in Opportunity
  BY <1>1 DEF Proper, WellFormed, Restores, Stored, DataOK
<1> DEFINE r == [archived |-> opp[o].archived /\ cmd.op = "restoreProposal",
                 stage |-> opp[o].stage, dealType |-> opp[o].dealType,
                 title |-> opp[o].title, updatedAt |-> t]
<1>3. opp' = [opp EXCEPT ![o] = r]
  BY <1>2 DEF restoreArchivedEntity
<1>4. /\ r \in Opportunity /\ r.stage = opp[o].stage
      /\ r.archived = (opp[o].archived /\ cmd.op = "restoreProposal")
  <2>1. (opp[o].archived /\ cmd.op = "restoreProposal") \in BOOLEAN
    OBVIOUS
  <2> QED
    BY <1>2, <2>1 DEF Opportunity
<1> HIDE DEF r
<1> QED
  BY <1>2, <1>3, <1>4

LEMMA RestoreStep ==
    ASSUME DeskInv, NEW s \in Sessions, NEW t \in Tokens, restoreArchivedEntity(s, t)
    PROVE  DeskInv'
<1> DEFINE cmd == call[s].cmd
<1>1. /\ call[s].step = "written" /\ cmd.op \in Restores /\ lock = None
      /\ chain' = WithRecord(cmd, cmd.opp, None, None, 0)
      /\ call' = Ended(s) /\ lock' = Released(s)
      /\ UNCHANGED <<began, qual, reg, links, poc, engagement, trail>>
  BY DEF restoreArchivedEntity, Commits, LockIsFree
<1>2. Released(s) = None /\ cmd \in Command /\ DataOK
  BY <1>1, TypeParts DEF DeskInv, Released, CallInv, Proper, SessionsOK, Call
<1>3. PICK o \in Opps, r \in Opportunity :
         /\ o = cmd.opp /\ Stored(o) /\ opp' = [opp EXCEPT ![o] = r] /\ r.stage = opp[o].stage
  BY Restored
<1>4. /\ opp' \in [Opps -> Opportunity \cup {None}]
      /\ opp'[o] = r /\ \A x \in Opps \ {o} : opp'[x] = opp[x]
      /\ \A x \in Opps : Stored(x)' <=> Stored(x)
  BY <1>3, Rewritten
<1>5. SessionsOK' /\ CallInv' /\ LockInv' /\ ReadsStand'
  BY <1>1, <1>2, <1>4, EndStep
<1>6. /\ chain' \in Seq(AuditRecord)
      /\ \A x \in Opps : MovesAt(x)' = MovesAt(x)
      /\ \A i \in DOMAIN chain : i \in DOMAIN chain' /\ chain'[i] = chain[i]
  <2>1. cmd.op \notin {"create", "merge", "convert"} /\ 0 \in Nat /\ None \in CANONICAL_STAGES \cup {None}
    BY <1>1 DEF Restores
  <2> QED
    BY <1>1, <1>2, <1>3, <2>1, PlainRecord
<1>7. DataOK'
  BY <1>1, <1>2, <1>4, <1>6 DEF DataOK
<1>8. EveryMoveIsAudited'
  BY <1>1, <1>6, NoMove
<1>9. TrailLeads'
  <2>1. \A x \in Opps : opp'[x].stage = opp[x].stage
    BY <1>3, <1>4
  <2> QED
    BY <1>1, <1>4, <2>1, TrailStands
<1>10. Unopened'
  BY <1>1, <1>4, <1>6 DEF DeskInv, Unopened
<1> QED
  BY <1>5, <1>7, <1>8, <1>9, <1>10, Assemble

LEMMA QualifyStep ==
    ASSUME DeskInv, NEW s \in Sessions, qualifyOpportunity(s)
    PROVE  DeskInv'
<1> DEFINE cmd == call[s].cmd
           q == [revision |-> cmd.expectedRevision + 1, passed |-> cmd.passed]
<1>1. call[s].step = "written" /\ DataOK /\ SessionsOK /\ Proper(s)
  BY TypeParts DEF DeskInv, CallInv, qualifyOpportunity
<1>2. cmd.expectedRevision + 1 \in Nat /\ q \in Qualification
  BY <1>1 DEF Proper, SessionsOK, Call, Command, Qualification
<1>3. qual' = [qual EXCEPT ![cmd.opp] = q] /\ links' = links
  BY DEF qualifyOpportunity
<1> HIDE DEF q
<1>4. qual' \in [Opps -> Qualification] /\ links' \in [Opps -> SUBSET Pocs]
  BY <1>1, <1>2, <1>3 DEF DataOK
<1> QED
  BY <1>1, <1>2, <1>4, SideStep DEF qualifyOpportunity, Commits, LockIsFree

LEMMA LinkStep ==
    ASSUME DeskInv, NEW s \in Sessions, addOpportunityLink(s) \/ removeOpportunityLink(s)
    PROVE  DeskInv'
<1> DEFINE cmd == call[s].cmd
<1>1. call[s].step = "written" /\ DataOK /\ SessionsOK /\ Proper(s) /\ 0 \in Nat
  BY TypeParts DEF DeskInv, CallInv, addOpportunityLink, removeOpportunityLink
<1>2. cmd.op \in {"addLink", "removeLink"} /\ cmd.opp \in Opps /\ cmd.poc \in Pocs
  BY <1>1 DEF addOpportunityLink, removeOpportunityLink, Proper, WellFormed
<1>3. qual' \in [Opps -> Qualification] /\ links' \in [Opps -> SUBSET Pocs]
  <2>1. qual' = qual /\ links \in [Opps -> SUBSET Pocs] /\ qual \in [Opps -> Qualification]
    BY <1>1 DEF DataOK, addOpportunityLink, removeOpportunityLink
  <2>2. PICK L \in SUBSET Pocs : links' = [links EXCEPT ![cmd.opp] = L]
    <3>1. links[cmd.opp] \cup {cmd.poc} \in SUBSET Pocs /\ links[cmd.opp] \ {cmd.poc} \in SUBSET Pocs
      BY <1>2, <2>1
    <3> QED
      BY <3>1 DEF addOpportunityLink, removeOpportunityLink
  <2> QED
    BY <2>1, <2>2
<1>4. /\ lock = None /\ chain' = WithRecord(cmd, cmd.opp, None, None, 0)
      /\ call' = Ended(s) /\ lock' = Released(s)
      /\ UNCHANGED <<opp, began, reg, poc, engagement, trail>>
  BY DEF addOpportunityLink, removeOpportunityLink, Commits, LockIsFree
<1> QED
  BY <1>1, <1>3, <1>4, SideStep

LEMMA RegistrationStep ==
    ASSUME DeskInv, NEW o \in Opps, NEW status \in Verdicts, upsertDealRegistration(o, status)
    PROVE  DeskInv'
<1>1. UNCHANGED <<opp, began, qual, links, poc, engagement, trail, chain, lock, call>>
  BY DEF upsertDealRegistration
<1>2. DataOK'
  BY <1>1, TypeParts, OpportunityConstants DEF DeskInv, DataOK, upsertDealRegistration
<1>3. SessionsOK' /\ LockInv'
  BY <1>1, TypeParts DEF DeskInv, SessionsOK, LockInv
<1>4. CallInv'
  BY <1>1 DEF DeskInv, CallInv, Proper, WellFormed, Stored
<1>5. \A x \in Opps : (Stored(x)' <=> Stored(x)) /\ MovesAt(x)' = MovesAt(x)
  BY <1>1 DEF Stored, MovesAt
<1>6. ReadsStand'
  <2>1. \A o1 \in Opps : HasPocEvidence(o1) => HasPocEvidence(o1)'
    BY <1>1 DEF HasPocEvidence
  <2> QED
    BY <1>1, <2>1, ReadsKeep DEF DeskInv
<1>7. EveryMoveIsAudited' /\ TrailLeads' /\ Unopened'
  BY <1>1, <1>5, NoMove, TrailStands DEF DeskInv, Unopened
<1> QED
  BY <1>2, <1>3, <1>4, <1>6, <1>7, Assemble

LEMMA PocStep ==
    ASSUME DeskInv, NEW s \in Sessions, NEW cmd \in Asked, createPocProject(s, cmd)
    PROVE  DeskInv'
<1> DEFINE y == [step |-> "linking", cmd |-> cmd, from |-> None]
<1>1. /\ UNCHANGED <<opp, began, qual, reg, links, engagement, trail, chain, lock>>
      /\ poc' = poc \cup {cmd.opp} /\ call' = [call EXCEPT ![s] = y]
      /\ call[s].step = "idle" /\ cmd.op = "createPoc"
  BY DEF createPocProject
<1>2. cmd \in Command /\ cmd # None /\ WellFormed(cmd) /\ cmd.opp \in Opps
  BY <1>1, AskedAssumption DEF WellFormed
<1>3. y \in Call /\ y.step = "linking" /\ y.cmd = cmd
  BY <1>2 DEF Call
<1> HIDE DEF y
<1>4. DataOK'
  BY <1>1, <1>2, TypeParts DEF DeskInv, DataOK
<1>5. \A x \in Opps : (Stored(x)' <=> Stored(x)) /\ MovesAt(x)' = MovesAt(x)
  BY <1>1 DEF Stored, MovesAt
<1>6. SessionsOK' /\ CallInv' /\ LockInv'
  <2>1. lock' = Released(s)
    BY <1>1 DEF Released, DeskInv, LockInv
  <2> QED
    BY <1>1, <1>2, <1>3, <1>5, <2>1, SessionStep, TypeParts DEF DeskInv, OpsOf, Restores
<1>7. ReadsStand'
  <2>1. \A x \in Opps : HasPocEvidence(x) => HasPocEvidence(x)'
    BY <1>1 DEF HasPocEvidence
  <2>2. \A q \in Sessions : call'[q].step = "ready" => call'[q] = call[q]
    BY <1>1, <1>3, TypeParts DEF DeskInv, SessionsOK
  <2> QED
    BY <1>1, <2>1, <2>2, ReadsKeep DEF DeskInv
<1>8. EveryMoveIsAudited' /\ TrailLeads' /\ Unopened'
  BY <1>1, <1>5, NoMove, TrailStands DEF DeskInv, Unopened
<1> QED
  BY <1>4, <1>6, <1>7, <1>8, Assemble

LEMMA LinkPocStep ==
    ASSUME DeskInv, NEW s \in Sessions, linkPocProject(s)
    PROVE  DeskInv'
<1> DEFINE cmd == call[s].cmd
<1>1. /\ UNCHANGED <<opp, began, qual, reg, poc, engagement, trail, chain, lock>>
      /\ links' = [links EXCEPT ![cmd.opp] = links[cmd.opp] \cup {cmd.poc}]
      /\ call' = Ended(s) /\ call[s].step = "linking"
  BY DEF linkPocProject
<1>2. DataOK /\ SessionsOK /\ cmd.opp \in Opps /\ cmd.poc \in Pocs
  BY <1>1, TypeParts DEF DeskInv, CallInv, Proper, OpsOf, WellFormed
<1>3. DataOK'
  BY <1>1, <1>2 DEF DataOK
<1>4. \A x \in Opps : (Stored(x)' <=> Stored(x)) /\ MovesAt(x)' = MovesAt(x)
  BY <1>1 DEF Stored, MovesAt
<1>5. SessionsOK' /\ CallInv' /\ LockInv'
  <2>1. lock' = Released(s)
    BY <1>1 DEF Released, DeskInv, LockInv
  <2> QED
    BY <1>1, <1>4, <2>1, EndStep
<1>6. ReadsStand'
  <2>1. \A x \in Opps : HasPocEvidence(x) => HasPocEvidence(x)'
    BY <1>1, <1>2 DEF HasPocEvidence, DataOK
  <2>2. \A q \in Sessions : call'[q].step = "ready" => call'[q] = call[q]
    BY <1>1, <1>2, IdleCall DEF SessionsOK, Ended
  <2> QED
    BY <1>1, <2>1, <2>2, ReadsKeep DEF DeskInv
<1>7. EveryMoveIsAudited' /\ TrailLeads' /\ Unopened'
  BY <1>1, <1>4, NoMove, TrailStands DEF DeskInv, Unopened
<1> QED
  BY <1>3, <1>5, <1>6, <1>7, Assemble

LEMMA DeskStep == DeskInv /\ [Next]_vars => DeskInv'
<1> SUFFICES ASSUME DeskInv, [Next]_vars PROVE DeskInv'
  OBVIOUS
<1>1. ASSUME NEW s \in Sessions, NEW cmd \in Asked, lockAndRead(s, cmd) PROVE DeskInv'
  BY <1>1, LockAndReadStep
<1>2. ASSUME NEW s \in Sessions, NEW cmd \in Asked, writeFirst(s, cmd) PROVE DeskInv'
  BY <1>2, WriteFirstStep
<1>3. ASSUME NEW s \in Sessions, NEW cmd \in Asked, createPocProject(s, cmd) PROVE DeskInv'
  BY <1>3, PocStep
<1>4. ASSUME NEW s \in Sessions, VersionConflict(s) \/ WriteConflict(s) \/ Fail(s) PROVE DeskInv'
  BY <1>4, LeaveStep DEF VersionConflict, WriteConflict, Fail
<1>5. ASSUME NEW s \in Sessions, NEW t \in Tokens, NEW o \in Opps, createOpportunity(s, o, t)
      PROVE  DeskInv'
  BY <1>5, CreateStep
<1>6. ASSUME NEW s \in Sessions, NEW t \in Tokens, updateOpportunity(s, t) PROVE DeskInv'
  BY <1>6, UpdateStep
<1>7. ASSUME NEW s \in Sessions, NEW t \in Tokens, archiveOpportunity(s, t) PROVE DeskInv'
  BY <1>7, ArchiveStep
<1>8. ASSUME NEW s \in Sessions, NEW t \in Tokens, convertOpportunity(s, t) PROVE DeskInv'
  BY <1>8, ConvertStep
<1>9. ASSUME NEW s \in Sessions, qualifyOpportunity(s) PROVE DeskInv'
  BY <1>9, QualifyStep
<1>10. ASSUME NEW s \in Sessions, addOpportunityLink(s) \/ removeOpportunityLink(s) PROVE DeskInv'
  BY <1>10, LinkStep
<1>11. ASSUME NEW s \in Sessions, linkPocProject(s) PROVE DeskInv'
  BY <1>11, LinkPocStep
<1>12. ASSUME NEW o \in Opps, NEW status \in Verdicts, upsertDealRegistration(o, status) PROVE DeskInv'
  BY <1>12, RegistrationStep
<1>13. ASSUME UNCHANGED vars PROVE DeskInv'
  <2>1. Unchanged /\ UNCHANGED <<lock, call>>
    BY <1>13 DEF vars, Unchanged
  <2>2. DataOK' /\ Unopened' /\ TrailLeads' /\ EveryMoveIsAudited'
    BY <2>1, QuietStep
  <2>3. SessionsOK' /\ LockInv'
    BY <2>1, TypeParts DEF DeskInv, SessionsOK, LockInv
  <2>4. CallInv'
    BY <2>1 DEF DeskInv, Unchanged, CallInv, Proper, WellFormed, Stored
  <2>5. ReadsStand'
    <3>1. \A x \in Opps : HasPocEvidence(x) => HasPocEvidence(x)'
      BY <2>1 DEF Unchanged, HasPocEvidence
    <3> QED
      BY <2>1, <3>1, ReadsKeep DEF DeskInv, Unchanged
  <2> QED
    BY <2>2, <2>3, <2>4, <2>5, Assemble
<1>14. ASSUME NEW s \in Sessions, NEW cmd \in Asked, claimArchivedEntity(s, cmd) PROVE DeskInv'
  BY <1>14, ClaimStep
<1>15. ASSUME NEW s \in Sessions, NEW t \in Tokens, restoreArchivedEntity(s, t) PROVE DeskInv'
  BY <1>15, RestoreStep
<1> QED
  BY <1>1, <1>2, <1>3, <1>4, <1>5, <1>6, <1>7, <1>8, <1>9, <1>10, <1>11, <1>12, <1>13, <1>14, <1>15
  DEF Next, Request, Proceeds

\* Every reachable state satisfies the invariant.
THEOREM DeskInvariant == Spec => []DeskInv
BY DeskInit, DeskStep, PTL DEF Spec

\* Rows, records, the lock and calls have their declared shape.
THEOREM TypeCorrect == Spec => []TypeOK
<1>1. DeskInv => TypeOK
  BY DEF DeskInv
<1> QED
  BY <1>1, DeskInvariant, PTL

\* A deal's stage events and the records of the chain about them are the same moves in the same order.
THEOREM MovesAreAudited == Spec => []EveryMoveIsAudited
<1>1. DeskInv => EveryMoveIsAudited
  BY DEF DeskInv
<1> QED
  BY <1>1, DeskInvariant, PTL

\* A mail never opens a second deal beside a live one of its title.
THEOREM MergesFindNamesakes == Spec => MergeFindsNamesake
<1>1. ASSUME DeskInv, NEW s \in Sessions, call[s].step = "ready", call[s].cmd.op = "merge"
      PROVE  ~\E o \in Opps : Live(o) /\ opp[o].title = call[s].cmd.title
  BY <1>1, Reader DEF Stands, NamesakeOf
<1>2. DeskInv => \A s \in Sessions :
                    (call[s].step = "ready" /\ call[s].cmd.op = "merge")
                    => ~\E o \in Opps : Live(o) /\ opp[o].title = call[s].cmd.title
  BY <1>1
<1>3. DeskInv => [\A s \in Sessions :
                    (call[s].step = "ready" /\ call[s].cmd.op = "merge" /\ call'[s] = Idle /\ opp' # opp)
                    => ~\E o \in Opps : Live(o) /\ opp[o].title = call[s].cmd.title]_vars
  BY <1>2
<1> QED
  BY <1>3, DeskInvariant, PTL DEF MergeFindsNamesake

-----------------------------------------------------------------------------
(* The path of a deal through the pipeline *)

\* The stages of the pipeline in their order.
LEMMA Places ==
    /\ Place("LEAD") = 1 /\ Place("QUALIFIED") = 2 /\ Place("PROPOSAL") = 3
    /\ Place("POC") = 4 /\ Place("NEGOTIATION") = 5
    /\ Pipeline = {"LEAD", "QUALIFIED", "PROPOSAL", "POC", "NEGOTIATION"}
    /\ None \notin Pipeline
<1>1. /\ DOMAIN ORDERED_PIPELINE = {1, 2, 3, 4, 5}
      /\ ORDERED_PIPELINE[1] = "LEAD" /\ ORDERED_PIPELINE[2] = "QUALIFIED"
      /\ ORDERED_PIPELINE[3] = "PROPOSAL" /\ ORDERED_PIPELINE[4] = "POC"
      /\ ORDERED_PIPELINE[5] = "NEGOTIATION"
  BY DEF ORDERED_PIPELINE
<1>2. Place("LEAD") = 1
  BY <1>1 DEF Place
<1>3. Place("QUALIFIED") = 2
  BY <1>1 DEF Place
<1>4. Place("PROPOSAL") = 3
  BY <1>1 DEF Place
<1>5. Place("POC") = 4
  BY <1>1 DEF Place
<1>6. Place("NEGOTIATION") = 5
  BY <1>1 DEF Place
<1>7. Pipeline = {"LEAD", "QUALIFIED", "PROPOSAL", "POC", "NEGOTIATION"}
  BY <1>1 DEF Pipeline
<1>8. None \notin Pipeline
  BY OpportunityConstants DEF CANONICAL_STAGES
<1> QED
  BY <1>2, <1>3, <1>4, <1>5, <1>6, <1>7, <1>8

\* A move that the rules allow climbs by one stage at most, wins what may be won, leaves no outcome
\* but for the other, and asks for an assessment beyond LEAD.
LEMMA LegalMove ==
    ASSUME NEW f \in CANONICAL_STAGES, NEW t \in CANONICAL_STAGES, f # t,
           validateOpportunityStageOrder(f, t)
    PROVE  /\ t \in Pipeline => f \in Pipeline /\ Place(t) <= Place(f) + 1
           /\ t = "WON" => f \in {"NEGOTIATION", "LOST"}
           /\ f \in {"WON", "LOST"} => t \in {"WON", "LOST"}
           /\ t \in Pipeline \ {"LEAD"} => RequiresQualification(f, t)
BY Places DEF validateOpportunityStageOrder, RequiresQualification, CANONICAL_STAGES

\* A stage of the pipeline right above another, or at its place.
LEMMA OneStep ==
    ASSUME NEW p \in Pipeline, NEW q \in Pipeline, NEW r \in Pipeline,
           Place(q) <= Place(p) + 1, Place(r) <= Place(q), ~(Place(r) <= Place(p))
    PROVE  r = q
BY Places

\* Where a deal is, it has been.
LEMMA HereIsReached ==
    ASSUME DeskInv, NEW o \in Opps
    PROVE  /\ Stored(o) => opp[o].stage \in Reached(o)
           /\ ~Stored(o) => Reached(o) = {None} /\ First(o) = "LEAD" /\ trail[o] = <<>>
<1>1. DataOK /\ TrailLeads /\ Unopened
  BY TypeParts DEF DeskInv
<1>2. trail[o] \in Seq(StageEvent)
  BY <1>1 DEF DataOK
<1>3. trail[o] # <<>> => Len(trail[o]) \in DOMAIN trail[o]
  BY <1>2
<1> QED
  BY <1>1, <1>3 DEF TrailLeads, Unopened, Reached, First

\* A step moves no deal, or one deal as the rules allow; what is assessed has a revision.
Rests ==
    /\ trail' = trail /\ began' = began
    /\ \A o \in Opps : qual'[o] = qual[o] \/ qual'[o].revision # 0

IsAllowed(o, f, t) ==
    \/ ~Stored(o) /\ f = None /\ t = "LEAD"
    \/ /\ Stored(o) /\ f = opp[o].stage /\ f \in CANONICAL_STAGES
       /\ \/ t = f
          \/ /\ validateOpportunityStageOrder(f, t)
             /\ RequiresQualification(f, t) => qual[o].passed

MovesTo(o, f, t) ==
    /\ IsAllowed(o, f, t)
    /\ trail' = [trail EXCEPT ![o] = Append(trail[o], [from |-> f, to |-> t])]
    /\ UNCHANGED <<began, qual>>

LEMMA RestKeepsPath == ASSUME PathInv, Rests PROVE PathInv'
<1>1. \A o \in Opps : Reached(o)' = Reached(o) /\ First(o)' = First(o)
  BY DEF Rests, Reached, First
<1>2. NoStageSkipped'
  BY <1>1 DEF Rests, PathInv, NoStageSkipped
<1>3. AdvancedWereAssessed'
  BY <1>1 DEF Rests, PathInv, AdvancedWereAssessed
<1> QED
  BY <1>2, <1>3 DEF PathInv, Rests

LEMMA MoveKeepsPath ==
    ASSUME DeskInv, PathInv, NEW o \in Opps, NEW f \in CANONICAL_STAGES \cup {None},
           NEW t \in CANONICAL_STAGES, MovesTo(o, f, t)
    PROVE  PathInv'
<1>1. DataOK /\ IsAllowed(o, f, t) /\ UNCHANGED <<began, qual>>
  BY TypeParts DEF DeskInv, MovesTo
<1> DEFINE e == [from |-> f, to |-> t]
<1>2. e \in StageEvent /\ e.from = f /\ e.to = t
  BY DEF StageEvent
<1>3. trail'[o] = Append(trail[o], e) /\ \A x \in Opps \ {o} : trail'[x] = trail[x]
  BY <1>1 DEF DataOK, MovesTo
<1> HIDE DEF e
<1>4. PICK n \in Nat : /\ DOMAIN trail[o] = 1..n
                       /\ DOMAIN trail'[o] = 1..(n + 1) /\ trail'[o][n + 1] = e
                       /\ \A k \in 1..n : trail'[o][k] = trail[o][k]
  <2>1. trail[o] \in Seq(StageEvent)
    BY <1>1 DEF DataOK
  <2>2. Len(trail[o]) \in Nat
    BY <2>1
  <2> QED
    BY <1>2, <1>3, <2>1, <2>2
<1>5. Reached(o)' = Reached(o) \cup {t} /\ First(o)' = First(o)
  <2>1. {trail'[o][i].to : i \in 1..(n + 1)} = {trail[o][i].to : i \in 1..n} \cup {t}
    <3>1. 1..(n + 1) = (1..n) \cup {n + 1}
      OBVIOUS
    <3>2. \A i \in 1..n : trail'[o][i].to = trail[o][i].to
      BY <1>4
    <3>3. trail'[o][n + 1].to = t
      BY <1>2, <1>4
    <3> QED
      BY <3>1, <3>2, <3>3
  <2>2. /\ Reached(o)' = {began'[o]} \cup {trail'[o][i].to : i \in 1..(n + 1)}
        /\ Reached(o) = {began[o]} \cup {trail[o][i].to : i \in 1..n}
    BY <1>4 DEF Reached
  <2> QED
    BY <1>1, <2>1, <2>2 DEF First
<1>6. \A x \in Opps \ {o} : Reached(x)' = Reached(x) /\ First(x)' = First(x)
  BY <1>1, <1>3 DEF Reached, First
<1>7. CASE Stored(o)
  <2>1. f \in Reached(o) /\ f \in CANONICAL_STAGES
    BY <1>1, <1>7, HereIsReached DEF IsAllowed
  <2>2. \/ t = f
        \/ /\ t \in Pipeline => (f \in Pipeline /\ Place(t) <= Place(f) + 1)
           /\ t = "WON" => f \in {"NEGOTIATION", "LOST"}
           /\ f \in {"WON", "LOST"} => t \in {"WON", "LOST"}
           /\ t \in Pipeline \ {"LEAD"} => qual[o].passed
    BY <1>1, <1>7, <2>1, LegalMove DEF IsAllowed
  <2>3. NoStageSkipped'
    <3>1. ASSUME NEW q \in (Reached(o) \cup {t}) \cap Pipeline, NEW r \in Pipeline,
                 First(o) \in Pipeline, Place(First(o)) <= Place(r), Place(r) <= Place(q)
          PROVE  r \in Reached(o) \cup {t}
      <4>1. CASE q \in Reached(o)
        BY <3>1, <4>1 DEF PathInv, NoStageSkipped
      <4>2. CASE q \notin Reached(o)
        <5>1. q = t /\ f \in Pipeline /\ Place(q) <= Place(f) + 1
          BY <2>1, <2>2, <3>1, <4>2
        <5>2. CASE Place(r) <= Place(f)
          BY <2>1, <3>1, <5>1, <5>2 DEF PathInv, NoStageSkipped
        <5>3. CASE ~(Place(r) <= Place(f))
          BY <3>1, <5>1, <5>3, OneStep
        <5> QED
          BY <5>2, <5>3
      <4> QED
        BY <4>1, <4>2
    <3>2. "WON" \in Reached(o) \cup {t} =>
             \/ First(o) = "WON"
             \/ (Reached(o) \cup {t}) \cap {"NEGOTIATION", "LOST"} # {}
      BY <2>1, <2>2 DEF PathInv, NoStageSkipped
    <3>3. \A i \in DOMAIN trail'[o] :
             trail'[o][i].from \in {"WON", "LOST"} => trail'[o][i].to \in {"WON", "LOST"}
      <4>1. \A i \in 1..n :
               trail[o][i].from \in {"WON", "LOST"} => trail[o][i].to \in {"WON", "LOST"}
        BY <1>4 DEF PathInv, NoStageSkipped
      <4>2. e.from \in {"WON", "LOST"} => e.to \in {"WON", "LOST"}
        BY <1>2, <2>2
      <4> QED
        BY <1>4, <4>1, <4>2
    <3>4. \A x \in Opps \ {o} :
             /\ \A q \in Reached(x) \cap Pipeline, r \in Pipeline :
                   First(x) \in Pipeline /\ Place(First(x)) <= Place(r) /\ Place(r) <= Place(q)
                   => r \in Reached(x)
             /\ "WON" \in Reached(x) =>
                   First(x) = "WON" \/ Reached(x) \cap {"NEGOTIATION", "LOST"} # {}
             /\ \A i \in DOMAIN trail'[x] :
                   trail'[x][i].from \in {"WON", "LOST"} => trail'[x][i].to \in {"WON", "LOST"}
      BY <1>3 DEF PathInv, NoStageSkipped
    <3> QED
      BY <1>5, <1>6, <3>1, <3>2, <3>3, <3>4 DEF NoStageSkipped
  <2>4. AdvancedWereAssessed'
    <3>1. ASSUME First(o) = "LEAD", (Reached(o) \cup {t}) \cap (Pipeline \ {"LEAD"}) # {}
          PROVE  qual[o].revision # 0
      <4>1. CASE Reached(o) \cap (Pipeline \ {"LEAD"}) # {}
        BY <3>1, <4>1 DEF PathInv, AdvancedWereAssessed
      <4>2. CASE Reached(o) \cap (Pipeline \ {"LEAD"}) = {}
        <5>1. t \in Pipeline \ {"LEAD"} /\ t # f
          BY <2>1, <3>1, <4>2
        <5> QED
          BY <2>2, <5>1 DEF PathInv
      <4> QED
        BY <4>1, <4>2
    <3>2. \A x \in Opps \ {o} :
             First(x) = "LEAD" /\ Reached(x) \cap (Pipeline \ {"LEAD"}) # {} => qual[x].revision # 0
      BY DEF PathInv, AdvancedWereAssessed
    <3> QED
      BY <1>1, <1>5, <1>6, <3>1, <3>2 DEF AdvancedWereAssessed
  <2> QED
    BY <1>1, <2>3, <2>4 DEF PathInv
<1>8. CASE ~Stored(o)
  <2>1. /\ f = None /\ t = "LEAD" /\ Reached(o) = {None} /\ First(o) = "LEAD" /\ trail[o] = <<>>
    BY <1>1, <1>8, HereIsReached DEF IsAllowed
  <2>2. n = 0
    BY <1>4, <2>1
  <2>3. \A r \in Pipeline : Place(r) <= Place("LEAD") => r = "LEAD"
    BY Places
  <2>4. (Reached(o) \cup {t}) \cap Pipeline = {"LEAD"}
    BY <2>1, Places
  <2>5. "WON" \notin Reached(o) \cup {t} /\ f \notin {"WON", "LOST"}
    BY <2>1, OpportunityConstants DEF CANONICAL_STAGES
  <2>6. NoStageSkipped'
    <3>1. \A i \in DOMAIN trail'[o] : trail'[o][i].from \notin {"WON", "LOST"}
      BY <1>2, <1>4, <2>2, <2>5
    <3>2. \A q \in (Reached(o) \cup {t}) \cap Pipeline, r \in Pipeline :
             Place(r) <= Place(q) => r \in Reached(o) \cup {t}
      BY <2>1, <2>3, <2>4
    <3>3. \A x \in Opps \ {o} :
             /\ \A q \in Reached(x) \cap Pipeline, r \in Pipeline :
                   First(x) \in Pipeline /\ Place(First(x)) <= Place(r) /\ Place(r) <= Place(q)
                   => r \in Reached(x)
             /\ "WON" \in Reached(x) =>
                   First(x) = "WON" \/ Reached(x) \cap {"NEGOTIATION", "LOST"} # {}
             /\ \A i \in DOMAIN trail'[x] :
                   trail'[x][i].from \in {"WON", "LOST"} => trail'[x][i].to \in {"WON", "LOST"}
      BY <1>3 DEF PathInv, NoStageSkipped
    <3> QED
      BY <1>5, <1>6, <2>5, <3>1, <3>2, <3>3 DEF NoStageSkipped
  <2>7. AdvancedWereAssessed'
    BY <1>1, <1>5, <1>6, <2>4 DEF PathInv, AdvancedWereAssessed
  <2> QED
    BY <1>1, <2>6, <2>7 DEF PathInv
<1> QED
  BY <1>7, <1>8

\* Every step leaves all deals where they are or makes one move that the rules allow, on what was
\* read before.
LEMMA StepsMove ==
    ASSUME DeskInv, [Next]_vars
    PROVE  \/ Rests
           \/ \E o \in Opps, f \in CANONICAL_STAGES \cup {None}, t \in CANONICAL_STAGES :
                 MovesTo(o, f, t)
<1> DEFINE Moved == \E o \in Opps, f \in CANONICAL_STAGES \cup {None}, t \in CANONICAL_STAGES :
                       MovesTo(o, f, t)
<1> SUFFICES Rests \/ Moved
  OBVIOUS
<1>1. ASSUME UNCHANGED <<trail, began, qual>> PROVE Rests
  BY <1>1 DEF Rests
<1>2. ASSUME NEW s \in Sessions, Request(s) \/ Fail(s) \/ VersionConflict(s) \/ WriteConflict(s)
      PROVE  Rests
  BY <1>1, <1>2 DEF Request, lockAndRead, writeFirst, claimArchivedEntity, createPocProject, Fail,
                    VersionConflict, WriteConflict, Leave, Unchanged
<1>3. ASSUME NEW s \in Sessions,
             \/ \E t \in Tokens : archiveOpportunity(s, t) \/ restoreArchivedEntity(s, t)
             \/ addOpportunityLink(s) \/ removeOpportunityLink(s)
             \/ linkPocProject(s)
      PROVE  Rests
  BY <1>1, <1>3 DEF archiveOpportunity, restoreArchivedEntity, addOpportunityLink, removeOpportunityLink, linkPocProject
<1>4. ASSUME NEW o \in Opps, NEW status \in Verdicts, upsertDealRegistration(o, status) PROVE Rests
  BY <1>1, <1>4 DEF upsertDealRegistration
<1>5. ASSUME NEW s \in Sessions, qualifyOpportunity(s) PROVE Rests
  <2> DEFINE cmd == call[s].cmd
  <2>1. Proper(s) /\ cmd \in Command /\ DataOK
    BY <1>5, TypeParts DEF DeskInv, CallInv, qualifyOpportunity, SessionsOK, Call, Proper
  <2>2. cmd.expectedRevision \in Nat
    BY <2>1 DEF Command
  <2>3. /\ trail' = trail /\ began' = began
        /\ qual' = [qual EXCEPT ![cmd.opp] = [revision |-> cmd.expectedRevision + 1,
                                              passed |-> cmd.passed]]
    BY <1>5 DEF qualifyOpportunity
  <2> HIDE DEF cmd
  <2> QED
    BY <2>1, <2>2, <2>3 DEF Rests, DataOK
<1>6. ASSUME NEW s \in Sessions, NEW t \in Tokens, NEW o \in Opps, createOpportunity(s, o, t)
      PROVE  Moved
  <2>1. MovesTo(o, None, "LEAD")
    BY <1>6 DEF createOpportunity, MovesTo, IsAllowed
  <2>2. "LEAD" \in CANONICAL_STAGES
    BY Places DEF CANONICAL_STAGES
  <2> QED
    BY <2>1, <2>2
<1>7. ASSUME NEW s \in Sessions, NEW t \in Tokens, updateOpportunity(s, t) PROVE Rests \/ Moved
  <2> DEFINE cmd == call[s].cmd
  <2>1. call[s].step = "ready" /\ cmd.op = "update" /\ CasMatches(cmd) /\ UNCHANGED <<began, qual>>
    BY <1>7 DEF updateOpportunity, MayClaim
  <2>2. PICK o \in Opps, f \in CANONICAL_STAGES, g \in CANONICAL_STAGES :
           /\ o = cmd.opp /\ f = call[s].from /\ f = opp[o].stage /\ g = Target(cmd) /\ Stored(o)
    <3>1. /\ cmd.opp \in Opps /\ Stored(cmd.opp) /\ opp[cmd.opp] \in Opportunity
          /\ call[s].from = opp[cmd.opp].stage /\ Target(cmd) \in CANONICAL_STAGES
      BY <2>1, Written
    <3> QED
      BY <3>1 DEF Opportunity
  <2>3. trail' = IF g = f THEN trail
                 ELSE [trail EXCEPT ![o] = Append(trail[o], [from |-> f, to |-> g])]
    BY <1>7, <2>2 DEF updateOpportunity
  <2>4. CASE g = f
    BY <1>1, <2>1, <2>3, <2>4
  <2>5. CASE g # f
    <3>1. /\ validateOpportunityStageOrder(f, g)
          /\ RequiresQualification(f, g) => qual[o].passed
      BY <2>1, <2>2, <2>5, Reader DEF Stands
    <3>2. MovesTo(o, f, g)
      BY <2>1, <2>2, <2>3, <2>5, <3>1 DEF MovesTo, IsAllowed
    <3> QED
      BY <3>2
  <2> QED
    BY <2>4, <2>5
<1>8. ASSUME NEW s \in Sessions, NEW t \in Tokens, convertOpportunity(s, t) PROVE Moved
  <2> DEFINE cmd == call[s].cmd
  <2>1. /\ call[s].step = "ready" /\ cmd.op = "convert" /\ CasMatches(cmd) /\ UNCHANGED <<began, qual>>
        /\ trail' = [trail EXCEPT ![cmd.opp] =
                        Append(trail[cmd.opp], [from |-> call[s].from, to |-> call[s].from])]
    BY <1>8 DEF convertOpportunity, MayClaim
  <2>2. PICK o \in Opps, f \in CANONICAL_STAGES :
           o = cmd.opp /\ f = call[s].from /\ f = opp[o].stage /\ Stored(o)
    <3>1. /\ cmd.opp \in Opps /\ Stored(cmd.opp) /\ opp[cmd.opp] \in Opportunity
          /\ call[s].from = opp[cmd.opp].stage
      BY <2>1, Written
    <3> QED
      BY <3>1 DEF Opportunity
  <2>3. MovesTo(o, f, f)
    BY <2>1, <2>2 DEF MovesTo, IsAllowed
  <2> QED
    BY <2>3
<1>9. ASSUME UNCHANGED vars PROVE Rests
  BY <1>1, <1>9 DEF vars
<1> HIDE DEF Moved
<1>10. ASSUME NEW s \in Sessions, Proceeds(s) PROVE Rests \/ Moved
  <2>1. CASE VersionConflict(s) \/ WriteConflict(s)
    BY <1>2, <2>1
  <2>2. CASE \E t \in Tokens : \E o \in Opps : createOpportunity(s, o, t)
    BY <1>6, <2>2
  <2>3. CASE \E t \in Tokens : updateOpportunity(s, t)
    BY <1>7, <2>3
  <2>4. CASE \E t \in Tokens : archiveOpportunity(s, t) \/ restoreArchivedEntity(s, t)
    BY <1>3, <2>4
  <2>5. CASE \E t \in Tokens : convertOpportunity(s, t)
    BY <1>8, <2>5
  <2>6. CASE \/ addOpportunityLink(s) \/ removeOpportunityLink(s)
             \/ linkPocProject(s)
    BY <1>3, <2>6
  <2>7. CASE qualifyOpportunity(s)
    BY <1>5, <2>7
  <2> QED
    BY <1>10, <2>1, <2>2, <2>3, <2>4, <2>5, <2>6, <2>7 DEF Proceeds
<1> QED
  BY <1>2, <1>4, <1>9, <1>10 DEF Next

LEMMA PathInit == Init => PathInv
<1> SUFFICES ASSUME Init PROVE PathInv
  OBVIOUS
<1>1. \A o \in Opps : /\ trail[o] = <<>> /\ Reached(o) = {began[o]}
                      /\ began[o] \in CANONICAL_STAGES \cup {None}
  <2>1. \A o \in Opps : trail[o] = <<>> /\ began[o] = IF Stored(o) THEN opp[o].stage ELSE None
    BY DEF Init
  <2>2. \A o \in Opps : Stored(o) => opp[o].stage \in CANONICAL_STAGES
    BY OpportunityConstants DEF Init, Stored, Opportunity
  <2> QED
    BY <2>1, <2>2 DEF Reached
<1>2. \A o \in Opps : /\ Reached(o) \cap Pipeline \subseteq {First(o)}
                      /\ "WON" \in Reached(o) => First(o) = "WON"
  <2>1. None \notin Pipeline /\ None # "WON"
    BY Places, OpportunityConstants DEF CANONICAL_STAGES
  <2> QED
    BY <1>1, <2>1 DEF First
<1>3. \A p, q \in Pipeline : Place(p) <= Place(q) /\ Place(q) <= Place(p) => p = q
  BY Places
<1>4. NoStageSkipped
  <2>1. ASSUME NEW o \in Opps, NEW q \in Reached(o) \cap Pipeline, NEW r \in Pipeline,
               First(o) \in Pipeline, Place(First(o)) <= Place(r), Place(r) <= Place(q)
        PROVE  r \in Reached(o)
    BY <1>2, <1>3, <2>1
  <2> QED
    BY <1>1, <1>2, <2>1 DEF NoStageSkipped
<1>5. AdvancedWereAssessed
  BY <1>2 DEF AdvancedWereAssessed
<1>6. \A o \in Opps : qual[o].passed => qual[o].revision # 0
  BY DEF Init
<1> QED
  BY <1>4, <1>5, <1>6 DEF PathInv

LEMMA PathStep == DeskInv /\ PathInv /\ [Next]_vars => PathInv'
BY StepsMove, RestKeepsPath, MoveKeepsPath

\* What a deal's history rests on holds of every reachable state.
THEOREM PathInvariant == Spec => []PathInv
BY PathInit, PathStep, DeskInvariant, PTL DEF Spec

\* The history of a deal is one legal path: its events lead without a gap from where it began to
\* where it is, no stage is passed over, no outcome is left but for the other, and nothing comes
\* beyond LEAD without an assessment.
THEOREM TrailIsWhole == Spec => []StageTrail
<1>1. DeskInv /\ PathInv => StageTrail
  BY DEF DeskInv, PathInv, StageTrail
<1> QED
  BY <1>1, DeskInvariant, PathInvariant, PTL

-----------------------------------------------------------------------------
(* The first assessment of a deal *)

\* A record is one of those that were there, or the last one, of that kind, deal and revision.
OnlyAdds(op, o, n) ==
    \A i \in DOMAIN chain' :
       \/ i \in DOMAIN chain /\ chain'[i] = chain[i]
       \/ /\ i = Len(chain) + 1
          /\ chain'[i].op = op /\ chain'[i].opp = o /\ chain'[i].revision = n

LEMMA RecordedAs ==
    ASSUME DataOK, NEW cmd \in Command, NEW o \in Opps, NEW f \in CANONICAL_STAGES \cup {None},
           NEW t \in CANONICAL_STAGES \cup {None}, NEW n \in Nat,
           chain' = WithRecord(cmd, o, f, t, n)
    PROVE  OnlyAdds(Contract(cmd), o, n)
<1> DEFINE r == [op |-> Contract(cmd), key |-> KeyOf(cmd), opp |-> o, from |-> f, to |-> t, revision |-> n]
<1>1. r \in AuditRecord /\ r.op = Contract(cmd) /\ r.opp = o /\ r.revision = n
  BY DEF Command, AuditRecord, Contract, Ops, Locked, KeyOf
<1>2. chain' = chain \/ chain' = Append(chain, r)
  BY DEF WithRecord
<1> HIDE DEF r
<1>3. chain \in Seq(AuditRecord)
  BY DEF DataOK
<1>4. CASE chain' = chain
  BY <1>4 DEF OnlyAdds
<1>5. CASE chain' = Append(chain, r)
  <2>1. /\ Len(chain) \in Nat /\ DOMAIN chain = 1..Len(chain)
        /\ DOMAIN chain' = 1..(Len(chain) + 1) /\ chain'[Len(chain) + 1] = r
        /\ \A i \in 1..Len(chain) : chain'[i] = chain[i]
    BY <1>1, <1>3, <1>5
  <2>2. \A i \in 1..(Len(chain) + 1) : i \in 1..Len(chain) \/ i = Len(chain) + 1
    BY <2>1
  <2> QED
    BY <1>1, <2>1, <2>2 DEF OnlyAdds
<1> QED
  BY <1>2, <1>4, <1>5

\* A step that records no assessment and takes none away.
LEMMA OthersKeepFirst ==
    ASSUME FirstInv,
           \A i \in DOMAIN chain' :
              (i \in DOMAIN chain /\ chain'[i] = chain[i]) \/ chain'[i].op # "qualify",
           qual' = qual
    PROVE  FirstInv'
<1>1. \A i \in DOMAIN chain' : chain'[i].op = "qualify" => i \in DOMAIN chain /\ chain'[i] = chain[i]
  OBVIOUS
<1>2. OneFirstAssessment'
  BY <1>1 DEF FirstInv, OneFirstAssessment
<1> QED
  BY <1>1, <1>2 DEF FirstInv

\* The command of a call that writes, and the deal it writes to.
LEMMA Writer ==
    ASSUME DeskInv, NEW s \in Sessions, call[s].step \in {"ready", "written"}
    PROVE  /\ DataOK /\ call[s].cmd \in Command /\ Proper(s)
           /\ call[s].from \in CANONICAL_STAGES \cup {None}
BY TypeParts DEF DeskInv, CallInv, SessionsOK, Call, Proper

LEMMA RecordsKeepFirst ==
    ASSUME DeskInv, FirstInv, NEW s \in Sessions, call[s].step \in {"ready", "written"},
           call[s].cmd.op # "qualify", qual' = qual,
           NEW o \in Opps, NEW f \in CANONICAL_STAGES \cup {None},
           NEW t \in CANONICAL_STAGES \cup {None}, chain' = WithRecord(call[s].cmd, o, f, t, 0)
    PROVE  FirstInv'
<1>1. DataOK /\ call[s].cmd \in Command /\ 0 \in Nat
  BY Writer
<1>2. Contract(call[s].cmd) # "qualify"
  BY DEF Contract
<1>3. \A i \in DOMAIN chain' :
         (i \in DOMAIN chain /\ chain'[i] = chain[i]) \/ chain'[i].op # "qualify"
  <2>1. OnlyAdds(Contract(call[s].cmd), o, 0)
    BY <1>1, RecordedAs
  <2> QED
    BY <1>2, <2>1 DEF OnlyAdds
<1> QED
  BY <1>3, OthersKeepFirst

\* An INSERT finds no assessment, so that none is on record; an UPDATE makes no first one.
LEMMA QualifyKeepsFirst ==
    ASSUME DeskInv, FirstInv, NEW s \in Sessions, qualifyOpportunity(s)
    PROVE  FirstInv'
<1>1. PICK cmd \in Command, o \in Opps, n \in Nat :
         cmd = call[s].cmd /\ o = cmd.opp /\ n = cmd.expectedRevision /\ cmd.op = "qualify"
  <2>1. call[s].cmd \in Command /\ Proper(s) /\ call[s].cmd.op = "qualify"
    BY Writer DEF qualifyOpportunity
  <2> QED
    BY <2>1 DEF Proper, WellFormed, Command
<1>2. DataOK /\ n + 1 \in Nat /\ (n + 1 = 1 <=> n = 0) /\ n + 1 # 0
  BY TypeParts DEF DeskInv
<1>3. /\ n = 0 => qual[o].revision = 0
      /\ qual' = [qual EXCEPT ![o] = [revision |-> n + 1, passed |-> cmd.passed]]
      /\ chain' = WithRecord(cmd, o, None, None, n + 1)
  BY <1>1 DEF qualifyOpportunity
<1>4. qual'[o].revision # 0 /\ \A x \in Opps \ {o} : qual'[x] = qual[x]
  BY <1>2, <1>3 DEF DataOK
<1>5. \A i \in DOMAIN chain' :
         \/ i \in DOMAIN chain /\ chain'[i] = chain[i]
         \/ i = Len(chain) + 1 /\ chain'[i].opp = o /\ chain'[i].revision = n + 1
  <2>1. OnlyAdds(Contract(cmd), o, n + 1)
    <3>1. None \in CANONICAL_STAGES \cup {None}
      OBVIOUS
    <3> QED
      BY <1>2, <1>3, <3>1, RecordedAs
  <2> QED
    BY <2>1 DEF OnlyAdds
<1>6. \A i \in DOMAIN chain : chain[i].opp \in Opps
  <2>1. chain \in Seq(AuditRecord)
    BY <1>2 DEF DataOK
  <2>2. \A i \in DOMAIN chain : chain[i] \in AuditRecord
    BY <2>1
  <2> QED
    BY <2>2 DEF AuditRecord
<1>7. \A i \in DOMAIN chain' : chain'[i].op = "qualify" => qual'[chain'[i].opp].revision # 0
  BY <1>4, <1>5, <1>6 DEF FirstInv
<1>8. n = 0 => \A i \in DOMAIN chain : chain[i].opp = o => chain[i].op # "qualify"
  BY <1>3 DEF FirstInv
<1>9. ASSUME NEW i \in DOMAIN chain', NEW j \in DOMAIN chain',
             chain'[i].op = "qualify", chain'[j].op = "qualify", chain'[i].opp = chain'[j].opp,
             chain'[i].revision = 1, chain'[j].revision = 1
      PROVE  i = j
  <2>1. CASE n = 0
    BY <1>5, <1>8, <1>9, <2>1 DEF FirstInv, OneFirstAssessment
  <2>2. CASE n # 0
    BY <1>2, <1>5, <1>9, <2>2 DEF FirstInv, OneFirstAssessment
  <2> QED
    BY <2>1, <2>2
<1> QED
  BY <1>7, <1>9 DEF FirstInv, OneFirstAssessment

LEMMA FirstStep == DeskInv /\ FirstInv /\ [Next]_vars => FirstInv'
<1> SUFFICES ASSUME DeskInv, FirstInv, [Next]_vars PROVE FirstInv'
  OBVIOUS
<1>1. ASSUME UNCHANGED <<chain, qual>> PROVE FirstInv'
  BY <1>1, OthersKeepFirst
<1>2. ASSUME NEW s \in Sessions,
             \/ Request(s) \/ Fail(s) \/ VersionConflict(s) \/ WriteConflict(s)
             \/ linkPocProject(s)
      PROVE  FirstInv'
  BY <1>1, <1>2 DEF Request, lockAndRead, writeFirst, claimArchivedEntity, createPocProject, Fail,
                    VersionConflict, WriteConflict, Leave, Unchanged, linkPocProject
<1>3. ASSUME NEW o \in Opps, NEW status \in Verdicts, upsertDealRegistration(o, status)
      PROVE  FirstInv'
  BY <1>1, <1>3 DEF upsertDealRegistration
<1>4. ASSUME NEW s \in Sessions, NEW t \in Tokens, NEW o \in Opps, createOpportunity(s, o, t)
      PROVE  FirstInv'
  <2>1. /\ call[s].step \in {"ready", "written"} /\ call[s].cmd.op # "qualify" /\ qual' = qual
        /\ chain' = WithRecord(call[s].cmd, o, None, "LEAD", 0)
    BY <1>4 DEF createOpportunity
  <2>2. "LEAD" \in CANONICAL_STAGES
    BY Places DEF CANONICAL_STAGES
  <2> QED
    BY <2>1, <2>2, RecordsKeepFirst
<1>5. ASSUME NEW s \in Sessions, NEW t \in Tokens, updateOpportunity(s, t) PROVE FirstInv'
  <2>1. /\ call[s].step = "ready" /\ call[s].cmd.op = "update" /\ CasMatches(call[s].cmd)
        /\ qual' = qual
        /\ chain' = WithRecord(call[s].cmd, call[s].cmd.opp, call[s].from, Target(call[s].cmd), 0)
    BY <1>5 DEF updateOpportunity, MayClaim
  <2>2. call[s].cmd.opp \in Opps /\ Target(call[s].cmd) \in CANONICAL_STAGES
    BY <2>1, Written
  <2>3. call[s].from \in CANONICAL_STAGES \cup {None}
    BY <2>1, Writer
  <2> QED
    BY <2>1, <2>2, <2>3, RecordsKeepFirst
<1>6. ASSUME NEW s \in Sessions, NEW t \in Tokens, archiveOpportunity(s, t) \/ convertOpportunity(s, t)
      PROVE  FirstInv'
  <2>1. /\ call[s].step = "ready" /\ call[s].cmd.op \in {"archive", "convert"}
        /\ CasMatches(call[s].cmd) /\ qual' = qual
        /\ \E f \in {None, call[s].from} :
              chain' = WithRecord(call[s].cmd, call[s].cmd.opp, f, f, 0)
    BY <1>6 DEF archiveOpportunity, convertOpportunity, MayClaim
  <2>2. call[s].cmd.opp \in Opps
    BY <2>1, Written
  <2>3. call[s].from \in CANONICAL_STAGES \cup {None}
    BY <2>1, Writer
  <2> QED
    BY <2>1, <2>2, <2>3, RecordsKeepFirst
<1>7. ASSUME NEW s \in Sessions, addOpportunityLink(s) \/ removeOpportunityLink(s) PROVE FirstInv'
  <2>1. /\ call[s].step \in {"ready", "written"} /\ call[s].cmd.op \in {"addLink", "removeLink"}
        /\ qual' = qual /\ chain' = WithRecord(call[s].cmd, call[s].cmd.opp, None, None, 0)
    BY <1>7 DEF addOpportunityLink, removeOpportunityLink
  <2>2. call[s].cmd.opp \in Opps
    BY <2>1, Writer DEF Proper, WellFormed
  <2> QED
    BY <2>1, <2>2, RecordsKeepFirst
<1>8. ASSUME NEW s \in Sessions, qualifyOpportunity(s) PROVE FirstInv'
  BY <1>8, QualifyKeepsFirst
<1>9. ASSUME UNCHANGED vars PROVE FirstInv'
  BY <1>1, <1>9 DEF vars
<1>10. ASSUME NEW s \in Sessions, NEW t \in Tokens, restoreArchivedEntity(s, t) PROVE FirstInv'
  <2>1. /\ call[s].step \in {"ready", "written"} /\ call[s].cmd.op \in Restores
        /\ qual' = qual /\ chain' = WithRecord(call[s].cmd, call[s].cmd.opp, None, None, 0)
    BY <1>10 DEF restoreArchivedEntity
  <2>2. call[s].cmd.opp \in Opps /\ call[s].cmd.op # "qualify"
    BY <2>1, Writer DEF Proper, WellFormed, Restores
  <2> QED
    BY <2>1, <2>2, RecordsKeepFirst
<1>11. ASSUME NEW s \in Sessions, Proceeds(s) PROVE FirstInv'
  <2>1. CASE VersionConflict(s) \/ WriteConflict(s) \/ linkPocProject(s)
    BY <1>2, <2>1
  <2>2. CASE \E t \in Tokens : \E o \in Opps : createOpportunity(s, o, t)
    BY <1>4, <2>2
  <2>3. CASE \E t \in Tokens : updateOpportunity(s, t)
    BY <1>5, <2>3
  <2>4. CASE \E t \in Tokens : archiveOpportunity(s, t) \/ convertOpportunity(s, t)
    BY <1>6, <2>4
  <2>5. CASE addOpportunityLink(s) \/ removeOpportunityLink(s)
    BY <1>7, <2>5
  <2>6. CASE qualifyOpportunity(s)
    BY <1>8, <2>6
  <2>7. CASE \E t \in Tokens : restoreArchivedEntity(s, t)
    BY <1>10, <2>7
  <2> QED
    BY <1>11, <2>1, <2>2, <2>3, <2>4, <2>5, <2>6, <2>7 DEF Proceeds
<1> QED
  BY <1>2, <1>3, <1>9, <1>11 DEF Next

\* Two assessments of a deal that is not yet assessed never both succeed, although neither reads under
\* a lock: the second INSERT fails. Of later revisions this is not so.
THEOREM FirstAssessmentIsSingle == Spec => []OneFirstAssessment
<1>1. Init => FirstInv
  BY DEF Init, FirstInv, OneFirstAssessment
<1>2. FirstInv => OneFirstAssessment
  BY DEF FirstInv
<1> QED
  BY <1>1, <1>2, FirstStep, DeskInvariant, PTL DEF Spec

-----------------------------------------------------------------------------
(* OpportunityCenter implements DealDesk *)

StageOf == [o \in Opps |-> IF Stored(o) THEN opp[o].stage ELSE None]
LiveOf == {o \in Opps : Live(o)}
PassingOf == {o \in Opps : qual[o].passed}
EvidenceOf == {o \in Opps : HasPocEvidence(o)}

\* A step that leaves every deal at its stage.
LEMMA SameDeals ==
    ASSUME \A x \in Opps : /\ Stored(x)' <=> Stored(x)
                           /\ Stored(x) => /\ opp'[x].stage = opp[x].stage
                                           /\ opp'[x].archived = opp[x].archived
    PROVE  StageOf' = StageOf /\ LiveOf' = LiveOf
BY DEF StageOf, LiveOf, Live

\* Evidence of one deal changes.
LEMMA NewEvidence ==
    ASSUME NEW o \in Opps, \A x \in Opps \ {o} : HasPocEvidence(x)' <=> HasPocEvidence(x)
    PROVE  EvidenceOf' \in {EvidenceOf \cup {o}, EvidenceOf \ {o}}
<1>1. CASE HasPocEvidence(o)'
  <2>1. EvidenceOf' = EvidenceOf \cup {o}
    BY <1>1 DEF EvidenceOf
  <2> QED
    BY <2>1
<1>2. CASE ~HasPocEvidence(o)'
  <2>1. EvidenceOf' = EvidenceOf \ {o}
    BY <1>2 DEF EvidenceOf
  <2> QED
    BY <2>1
<1> QED
  BY <1>1, <1>2

\* DealDesk goes by the same rules.
LEMMA SameRules ==
    /\ Desk!CANONICAL_STAGES = CANONICAL_STAGES /\ Desk!CONVERSION_STAGES = CONVERSION_STAGES
    /\ \A f, g :
          /\ Desk!validateOpportunityStageOrder(f, g) <=> validateOpportunityStageOrder(f, g)
          /\ Desk!RequiresQualification(f, g) <=> RequiresQualification(f, g)
<1>1. Desk!Pipeline = Pipeline /\ \A f : Desk!Place(f) = Place(f)
  BY DEF Desk!Pipeline, Pipeline, Desk!ORDERED_PIPELINE, ORDERED_PIPELINE, Desk!Place, Place
<1> QED
  BY <1>1 DEF Desk!CANONICAL_STAGES, CANONICAL_STAGES, Desk!CONVERSION_STAGES, CONVERSION_STAGES,
     Desk!validateOpportunityStageOrder, validateOpportunityStageOrder, Desk!RequiresQualification,
     RequiresQualification

\* A step that DealDesk does not see.
LEMMA Silent ==
    ASSUME \A x \in Opps : /\ Stored(x)' <=> Stored(x)
                           /\ Stored(x) => /\ opp'[x].stage = opp[x].stage
                                           /\ opp'[x].archived = opp[x].archived,
           UNCHANGED <<qual, links, poc, engagement>>
    PROVE  UNCHANGED Desk!vars
<1>1. StageOf' = StageOf /\ LiveOf' = LiveOf
  BY SameDeals
<1>2. PassingOf' = PassingOf /\ EvidenceOf' = EvidenceOf
  BY DEF PassingOf, EvidenceOf, HasPocEvidence
<1> QED
  BY <1>1, <1>2 DEF Desk!vars, StageOf, LiveOf, PassingOf, EvidenceOf

LEMMA CreateMaps ==
    ASSUME DeskInv, NEW s \in Sessions, NEW o \in Opps, NEW t \in Tokens, createOpportunity(s, o, t)
    PROVE  Desk!Open(o)
<1>1. /\ ~Stored(o) /\ opp' = [opp EXCEPT ![o] = opp'[o]]
      /\ opp'[o].stage = "LEAD" /\ ~opp'[o].archived /\ opp'[o] # None
      /\ UNCHANGED <<qual, links, poc, engagement>>
  <2>1. PICK dealType \in DealTypes :
           opp' = [opp EXCEPT ![o] = [archived |-> FALSE, stage |-> "LEAD", dealType |-> dealType,
                                      title |-> call[s].cmd.title, updatedAt |-> t]]
    BY DEF createOpportunity
  <2>2. opp \in [Opps -> Opportunity \cup {None}]
    BY TypeParts DEF DeskInv, DataOK
  <2>3. opp' \in [Opps -> Opportunity \cup {None}]
    BY CreateStep, TypeParts DEF DeskInv, TypeOK
  <2> DEFINE r == [archived |-> FALSE, stage |-> "LEAD", dealType |-> dealType,
                   title |-> call[s].cmd.title, updatedAt |-> t]
  <2>4. r.stage = "LEAD" /\ ~r.archived
    OBVIOUS
  <2>5. opp' = [opp EXCEPT ![o] = r]
    BY <2>1
  <2>6. WellFormed(call[s].cmd) /\ call[s].cmd.op \in {"create", "merge"}
    BY Reader DEF createOpportunity, Proper
  <2>7. r \in Opportunity
    <3>1. "LEAD" \in CANONICAL_STAGES /\ call[s].cmd.title \in Titles
      BY <2>6 DEF WellFormed, CANONICAL_STAGES, Pipeline, ORDERED_PIPELINE
    <3> QED
      BY <3>1 DEF Opportunity
  <2> HIDE DEF r
  <2>8. r # None
    BY <2>7, OpportunityConstants
  <2>9. opp'[o] = r
    BY <2>2, <2>5
  <2> QED
    BY <2>4, <2>5, <2>8, <2>9 DEF createOpportunity
<1>2. opp \in [Opps -> Opportunity \cup {None}]
  BY TypeParts DEF DeskInv, DataOK
<1>3. \A x \in Opps \ {o} : opp'[x] = opp[x]
  BY <1>1, <1>2
<1>4. StageOf[o] = None /\ StageOf' = [StageOf EXCEPT ![o] = "LEAD"]
  BY <1>1, <1>3 DEF StageOf, Stored
<1>5. LiveOf' = LiveOf \cup {o}
  BY <1>1, <1>3 DEF LiveOf, Live, Stored
<1>6. PassingOf' = PassingOf /\ EvidenceOf' = EvidenceOf
  BY <1>1 DEF PassingOf, EvidenceOf, HasPocEvidence
<1> QED
  BY <1>1, <1>4, <1>5, <1>6 DEF Desk!Open, StageOf, LiveOf, PassingOf, EvidenceOf

\* The row of a deal that is there before and after.
LEMMA RowFacts ==
    ASSUME DeskInv, NEW o \in Opps, NEW r \in Opportunity, opp' = [opp EXCEPT ![o] = r]
    PROVE  /\ opp'[o] = r /\ opp'[o] # None /\ \A x \in Opps \ {o} : opp'[x] = opp[x]
BY TypeParts, OpportunityConstants DEF DeskInv, DataOK, Stored

LEMMA UpdateMaps ==
    ASSUME DeskInv, NEW s \in Sessions, NEW t \in Tokens, updateOpportunity(s, t)
    PROVE  [Desk!Next]_(Desk!vars)
<1> DEFINE cmd == call[s].cmd
<1>1. call[s].step = "ready" /\ cmd.op = "update" /\ CasMatches(cmd) /\ Stands(s)
  BY Reader DEF updateOpportunity, MayClaim
<1>2. /\ cmd.opp \in Opps /\ Stored(cmd.opp) /\ Live(cmd.opp) /\ call[s].from = opp[cmd.opp].stage
      /\ Target(cmd) \in CANONICAL_STAGES /\ JudgedType(cmd) \in DealTypes
      /\ Given(cmd.changes.title, opp[cmd.opp].title) \in Titles
  BY <1>1, Written
<1>3. PICK o \in Opps, g \in CANONICAL_STAGES : o = cmd.opp /\ g = Target(cmd)
  BY <1>2
<1>4. PICK r \in Opportunity : /\ opp' = [opp EXCEPT ![o] = r]
                              /\ r.stage = g /\ ~r.archived
  <2> DEFINE x == [archived |-> FALSE, stage |-> Target(cmd), dealType |-> JudgedType(cmd),
                   title |-> Given(cmd.changes.title, opp[cmd.opp].title), updatedAt |-> t]
  <2>1. x \in Opportunity /\ x.stage = g /\ ~x.archived
    BY <1>2, <1>3 DEF Opportunity
  <2>2. opp' = [opp EXCEPT ![o] = x]
    BY <1>3 DEF updateOpportunity
  <2> HIDE DEF x
  <2> QED
    BY <2>1, <2>2
<1>5. UNCHANGED <<qual, links, poc, engagement>> /\ Stored(o) /\ Live(o)
  BY <1>2, <1>3 DEF updateOpportunity
<1>6. \/ g = opp[o].stage
      \/ /\ validateOpportunityStageOrder(opp[o].stage, g)
         /\ RequiresQualification(opp[o].stage, g) => qual[o].passed
  BY <1>1, <1>2, <1>3 DEF Stands
<1>7. opp'[o] = r /\ opp'[o] # None /\ \A x \in Opps \ {o} : opp'[x] = opp[x]
  BY <1>4, RowFacts
<1>8. CASE g = opp[o].stage
  <2>1. \A x \in Opps : /\ Stored(x)' <=> Stored(x)
                        /\ Stored(x) => opp'[x].stage = opp[x].stage /\ opp'[x].archived = opp[x].archived
    <3>1. Stored(o)' /\ opp'[o].stage = opp[o].stage /\ opp'[o].archived = opp[o].archived
      <4>1. opp[o] \in Opportunity
        BY <1>5, TypeParts DEF DeskInv, DataOK, Stored
      <4> QED
        BY <1>4, <1>5, <1>7, <1>8, <4>1 DEF Stored, Live, Opportunity
    <3> QED
      BY <1>5, <1>7, <3>1 DEF Stored
  <2> QED
    BY <1>5, <2>1, Silent
<1>9. CASE g # opp[o].stage
  <2>1. StageOf[o] = opp[o].stage /\ StageOf' = [StageOf EXCEPT ![o] = g]
    <3>1. opp'[o].stage = g /\ Stored(o)' /\ \A x \in Opps \ {o} : Stored(x)' <=> Stored(x)
      BY <1>4, <1>7 DEF Stored
    <3> QED
      BY <1>5, <1>7, <3>1 DEF StageOf
  <2>2. LiveOf' = LiveOf /\ o \in LiveOf
    BY <1>4, <1>5, <1>7 DEF LiveOf, Live, Stored
  <2>3. PassingOf' = PassingOf /\ EvidenceOf' = EvidenceOf
    BY <1>5 DEF PassingOf, EvidenceOf, HasPocEvidence
  <2>4. qual[o].passed => o \in PassingOf
    BY DEF PassingOf
  <2>5. /\ Desk!validateOpportunityStageOrder(StageOf[o], g)
        /\ Desk!RequiresQualification(StageOf[o], g) => o \in PassingOf
    <3>1. /\ validateOpportunityStageOrder(StageOf[o], g)
          /\ RequiresQualification(StageOf[o], g) => o \in PassingOf
      BY <1>6, <1>9, <2>1, <2>4
    <3>2. /\ Desk!validateOpportunityStageOrder(StageOf[o], g) <=> validateOpportunityStageOrder(StageOf[o], g)
          /\ Desk!RequiresQualification(StageOf[o], g) <=> RequiresQualification(StageOf[o], g)
      BY SameRules
    <3> QED
      BY <3>1, <3>2
  <2>6. Desk!Move(o, g)
    BY <1>5, <2>1, <2>2, <2>3, <2>5 DEF Desk!Move, StageOf, LiveOf, PassingOf, EvidenceOf
  <2> QED
    BY <2>6, SameRules DEF Desk!Next
<1> QED
  BY <1>8, <1>9

LEMMA ArchiveMaps ==
    ASSUME DeskInv, NEW s \in Sessions, NEW t \in Tokens, archiveOpportunity(s, t)
    PROVE  [Desk!Next]_(Desk!vars)
<1> DEFINE cmd == call[s].cmd
<1>1. call[s].step = "ready" /\ cmd.op = "archive" /\ CasMatches(cmd)
  BY DEF archiveOpportunity, MayClaim
<1>2. cmd.opp \in Opps /\ Stored(cmd.opp) /\ Live(cmd.opp) /\ opp[cmd.opp] \in Opportunity
  BY <1>1, Written
<1>3. PICK o \in Opps : o = cmd.opp
  BY <1>2
<1>4. PICK r \in Opportunity : /\ opp' = [opp EXCEPT ![o] = r]
                              /\ r.stage = opp[o].stage /\ r.archived
  <2> DEFINE x == [archived |-> TRUE, stage |-> opp[o].stage, dealType |-> opp[o].dealType,
                   title |-> opp[o].title, updatedAt |-> t]
  <2>1. x \in Opportunity /\ x.stage = opp[o].stage /\ x.archived
    BY <1>2, <1>3 DEF Opportunity
  <2>2. opp' = [opp EXCEPT ![o] = x]
    BY <1>3 DEF archiveOpportunity
  <2> HIDE DEF x
  <2> QED
    BY <2>1, <2>2
<1>5. UNCHANGED <<qual, links, poc, engagement>> /\ Stored(o) /\ Live(o)
  BY <1>2, <1>3 DEF archiveOpportunity
<1>6. opp'[o] = r /\ opp'[o] # None /\ \A x \in Opps \ {o} : opp'[x] = opp[x]
  BY <1>4, RowFacts
<1>7. StageOf' = StageOf
  BY <1>4, <1>5, <1>6 DEF StageOf, Stored
<1>8. o \in LiveOf /\ LiveOf' = LiveOf \ {o}
  BY <1>4, <1>5, <1>6 DEF LiveOf, Live, Stored
<1>9. PassingOf' = PassingOf /\ EvidenceOf' = EvidenceOf
  BY <1>5 DEF PassingOf, EvidenceOf, HasPocEvidence
<1>10. Desk!Archive(o)
  BY <1>5, <1>7, <1>8, <1>9 DEF Desk!Archive, StageOf, LiveOf, PassingOf, EvidenceOf
<1> QED
  BY <1>10 DEF Desk!Next

LEMMA ConvertMaps ==
    ASSUME DeskInv, NEW s \in Sessions, NEW t \in Tokens, convertOpportunity(s, t)
    PROVE  [Desk!Next]_(Desk!vars)
<1> DEFINE cmd == call[s].cmd
<1>1. call[s].step = "ready" /\ cmd.op = "convert" /\ CasMatches(cmd) /\ Stands(s)
  BY Reader DEF convertOpportunity, MayClaim
<1>2. cmd.opp \in Opps /\ Stored(cmd.opp) /\ Live(cmd.opp) /\ opp[cmd.opp] \in Opportunity
  BY <1>1, Written
<1>3. PICK o \in Opps : o = cmd.opp
  BY <1>2
<1>4. PICK r \in Opportunity : /\ opp' = [opp EXCEPT ![o] = r]
                              /\ r.stage = opp[o].stage /\ r.archived = opp[o].archived
  <2> DEFINE x == [opp[o] EXCEPT !.updatedAt = t]
  <2>1. x \in Opportunity /\ x.stage = opp[o].stage /\ x.archived = opp[o].archived
    BY <1>2, <1>3 DEF Opportunity
  <2>2. opp' = [opp EXCEPT ![o] = x]
    BY <1>3 DEF convertOpportunity
  <2> HIDE DEF x
  <2> QED
    BY <2>1, <2>2
<1>5. /\ UNCHANGED <<qual, links, poc>> /\ Stored(o) /\ Live(o)
      /\ engagement' = [engagement EXCEPT ![o] = EngagementOf(o)]
      /\ opp[o].stage \in CONVERSION_STAGES /\ HasPocEvidence(o)
  BY <1>1, <1>2, <1>3 DEF convertOpportunity, Stands
<1>6. opp'[o] = r /\ opp'[o] # None /\ \A x \in Opps \ {o} : opp'[x] = opp[x]
  BY <1>4, RowFacts
<1>7. \A x \in Opps : /\ Stored(x)' <=> Stored(x)
                      /\ Stored(x) => opp'[x].stage = opp[x].stage /\ opp'[x].archived = opp[x].archived
  BY <1>4, <1>5, <1>6 DEF Stored
<1>8. CASE engagement[o] # None
  <2>1. engagement \in [Opps -> Engagements \cup {None}]
    BY TypeParts DEF DeskInv, DataOK
  <2>2. engagement' = engagement
    BY <1>5, <1>8, <2>1 DEF EngagementOf
  <2> QED
    BY <1>5, <1>7, <2>2, Silent
<1>9. CASE engagement[o] = None
  <2>1. StageOf' = StageOf /\ LiveOf' = LiveOf
    BY <1>7, SameDeals
  <2>2. PassingOf' = PassingOf /\ EvidenceOf' = EvidenceOf
    BY <1>5 DEF PassingOf, EvidenceOf, HasPocEvidence
  <2>3. StageOf[o] = opp[o].stage /\ o \in LiveOf /\ o \in EvidenceOf
    BY <1>5 DEF StageOf, LiveOf, EvidenceOf
  <2>4. engagement' = [engagement EXCEPT ![o] =
                          IF StageOf[o] = "WON" THEN "planned" ELSE "pre_engagement"]
    BY <1>5, <1>9, <2>3 DEF EngagementOf
  <2>5. Desk!Convert(o)
    BY <1>5, <1>9, <2>1, <2>2, <2>3, <2>4, SameRules DEF Desk!Convert, StageOf, LiveOf, PassingOf, EvidenceOf
  <2> QED
    BY <2>5 DEF Desk!Next
<1> QED
  BY <1>8, <1>9

LEMMA QualifyMaps ==
    ASSUME DeskInv, NEW s \in Sessions, qualifyOpportunity(s)
    PROVE  [Desk!Next]_(Desk!vars)
<1> DEFINE cmd == call[s].cmd
<1>1. Proper(s) /\ cmd.op = "qualify"
  BY DEF qualifyOpportunity, DeskInv, CallInv
<1>2. cmd.opp \in Opps /\ Stored(cmd.opp) /\ qual \in [Opps -> Qualification]
  BY <1>1, TypeParts DEF Proper, WellFormed, DeskInv, DataOK
<1>3. PICK o \in Opps : o = cmd.opp
  BY <1>2
<1>4. PICK q : qual' = [qual EXCEPT ![o] = q] /\ q.passed = cmd.passed
  <2> DEFINE x == [revision |-> cmd.expectedRevision + 1, passed |-> cmd.passed]
  <2>1. qual' = [qual EXCEPT ![o] = x] /\ x.passed = cmd.passed
    BY <1>3 DEF qualifyOpportunity
  <2> HIDE DEF x
  <2> QED
    BY <2>1
<1>5. Stored(o) /\ UNCHANGED <<opp, links, poc, engagement>>
  BY <1>2, <1>3 DEF qualifyOpportunity
<1>6. qual'[o] = q /\ \A x \in Opps \ {o} : qual'[x] = qual[x]
  BY <1>2, <1>4
<1>7. StageOf' = StageOf /\ LiveOf' = LiveOf /\ EvidenceOf' = EvidenceOf
  BY <1>5 DEF StageOf, LiveOf, Live, Stored, EvidenceOf, HasPocEvidence
<1>8. StageOf[o] # None
  BY <1>5, TypeParts, OpportunityConstants DEF StageOf, Stored, DeskInv, DataOK, Opportunity
<1>9. PassingOf' \in {PassingOf \cup {o}, PassingOf \ {o}}
  <2>1. CASE q.passed
    <3>1. PassingOf' = PassingOf \cup {o}
      BY <1>6, <2>1 DEF PassingOf
    <3> QED
      BY <3>1
  <2>2. CASE ~q.passed
    <3>1. PassingOf' = PassingOf \ {o}
      BY <1>6, <2>2 DEF PassingOf
    <3> QED
      BY <3>1
  <2> QED
    BY <2>1, <2>2
<1>10. Desk!Assess(o)
  BY <1>5, <1>7, <1>8, <1>9 DEF Desk!Assess, StageOf, LiveOf, PassingOf, EvidenceOf
<1> QED
  BY <1>10 DEF Desk!Next

\* An archived deal comes back as it was; the restore of a proposal is not seen.
LEMMA RestoreMaps ==
    ASSUME DeskInv, NEW s \in Sessions, NEW t \in Tokens, restoreArchivedEntity(s, t)
    PROVE  [Desk!Next]_(Desk!vars)
<1> DEFINE cmd == call[s].cmd
<1>1. PICK o \in Opps, r \in Opportunity :
         /\ Stored(o) /\ opp[o] \in Opportunity /\ opp' = [opp EXCEPT ![o] = r]
         /\ r.stage = opp[o].stage
         /\ r.archived = (opp[o].archived /\ cmd.op = "restoreProposal")
  BY Restored
<1>2. UNCHANGED <<qual, links, poc, engagement>>
  BY DEF restoreArchivedEntity
<1>3. opp'[o] = r /\ opp'[o] # None /\ \A x \in Opps \ {o} : opp'[x] = opp[x]
  BY <1>1, RowFacts
<1>4. opp[o].archived \in BOOLEAN
  BY <1>1 DEF Opportunity
<1>5. CASE r.archived = opp[o].archived
  <2>1. \A x \in Opps : /\ Stored(x)' <=> Stored(x)
                        /\ Stored(x) => opp'[x].stage = opp[x].stage /\ opp'[x].archived = opp[x].archived
    BY <1>1, <1>3, <1>5 DEF Stored
  <2> QED
    BY <1>2, <2>1, Silent
<1>6. CASE opp[o].archived /\ ~r.archived
  <2>1. StageOf' = StageOf
    BY <1>1, <1>3 DEF StageOf, Stored
  <2>2. o \notin LiveOf /\ LiveOf' = LiveOf \cup {o}
    BY <1>1, <1>3, <1>6 DEF LiveOf, Live, Stored
  <2>3. PassingOf' = PassingOf /\ EvidenceOf' = EvidenceOf
    BY <1>2 DEF PassingOf, EvidenceOf, HasPocEvidence
  <2>4. StageOf[o] # None
    BY <1>1, OpportunityConstants DEF StageOf, Opportunity
  <2>5. Desk!Restore(o)
    BY <1>2, <2>1, <2>2, <2>3, <2>4 DEF Desk!Restore, StageOf, LiveOf, PassingOf, EvidenceOf
  <2> QED
    BY <2>5 DEF Desk!Next
<1> QED
  BY <1>1, <1>4, <1>5, <1>6

\* A link or a proof of concept comes or goes.
LEMMA EvidenceMaps ==
    ASSUME NEW o \in Opps, UNCHANGED <<opp, qual, engagement>>,
           \A x \in Opps \ {o} : HasPocEvidence(x)' <=> HasPocEvidence(x)
    PROVE  [Desk!Next]_(Desk!vars)
<1>1. EvidenceOf' \in {EvidenceOf \cup {o}, EvidenceOf \ {o}}
  BY NewEvidence
<1>2. StageOf' = StageOf /\ LiveOf' = LiveOf /\ PassingOf' = PassingOf
  BY DEF StageOf, LiveOf, Live, Stored, PassingOf
<1>3. Desk!Evidence(o)
  BY <1>1, <1>2 DEF Desk!Evidence, StageOf, LiveOf, PassingOf, EvidenceOf
<1> QED
  BY <1>3 DEF Desk!Next

LEMMA InitMaps == Init => Desk!Init
<1> SUFFICES ASSUME Init PROVE Desk!Init
  OBVIOUS
<1>1. DeskInv
  BY DeskInit
<1>2. opp \in [Opps -> Opportunity \cup {None}]
  BY <1>1, TypeParts DEF DeskInv, DataOK
<1>3. StageOf \in [Opps -> CANONICAL_STAGES \cup {None}]
  BY <1>2 DEF StageOf, Stored, Opportunity
<1>4. LiveOf \in SUBSET {o \in Opps : StageOf[o] # None}
  <2>1. \A o \in Opps : Stored(o) => opp[o].stage # None
    BY <1>2, OpportunityConstants DEF Stored, Opportunity
  <2> QED
    BY <2>1 DEF LiveOf, StageOf, Live
<1>5. PassingOf \in SUBSET Opps /\ EvidenceOf \in SUBSET Opps /\ engagement = [o \in Opps |-> None]
  BY DEF PassingOf, EvidenceOf, Init
<1> QED
  BY <1>3, <1>4, <1>5, SameRules DEF Desk!Init, StageOf, LiveOf, PassingOf, EvidenceOf

LEMMA StepMaps == DeskInv /\ [Next]_vars => [Desk!Next]_(Desk!vars)
<1> SUFFICES ASSUME DeskInv, [Next]_vars PROVE [Desk!Next]_(Desk!vars)
  OBVIOUS
<1>1. ASSUME UNCHANGED <<opp, qual, links, poc, engagement>> PROVE [Desk!Next]_(Desk!vars)
  BY <1>1, Silent DEF Stored
<1>2. ASSUME NEW s \in Sessions, NEW cmd \in Asked,
             lockAndRead(s, cmd) \/ writeFirst(s, cmd) \/ claimArchivedEntity(s, cmd)
      PROVE  [Desk!Next]_(Desk!vars)
  BY <1>1, <1>2 DEF lockAndRead, writeFirst, claimArchivedEntity, Unchanged
<1>3. ASSUME NEW s \in Sessions, NEW cmd \in Asked, createPocProject(s, cmd)
      PROVE  [Desk!Next]_(Desk!vars)
  <2>1. cmd.opp \in Opps /\ poc' = poc \cup {cmd.opp} /\ UNCHANGED <<opp, qual, links, engagement>>
    BY <1>3, AskedAssumption DEF createPocProject, WellFormed
  <2>2. \A x \in Opps \ {cmd.opp} : HasPocEvidence(x)' <=> HasPocEvidence(x)
    BY <2>1 DEF HasPocEvidence
  <2> QED
    BY <2>1, <2>2, EvidenceMaps
<1>4. ASSUME NEW s \in Sessions, VersionConflict(s) \/ WriteConflict(s) \/ Fail(s)
      PROVE  [Desk!Next]_(Desk!vars)
  BY <1>1, <1>4 DEF VersionConflict, WriteConflict, Fail, Leave, Unchanged
<1>5. ASSUME NEW s \in Sessions, NEW t \in Tokens, NEW o \in Opps, createOpportunity(s, o, t)
      PROVE  [Desk!Next]_(Desk!vars)
  BY <1>5, CreateMaps DEF Desk!Next
<1>6. ASSUME NEW s \in Sessions, NEW t \in Tokens,
             \/ updateOpportunity(s, t) \/ archiveOpportunity(s, t) \/ convertOpportunity(s, t)
             \/ restoreArchivedEntity(s, t)
      PROVE  [Desk!Next]_(Desk!vars)
  BY <1>6, UpdateMaps, ArchiveMaps, ConvertMaps, RestoreMaps
<1>7. ASSUME NEW s \in Sessions, qualifyOpportunity(s) PROVE [Desk!Next]_(Desk!vars)
  BY <1>7, QualifyMaps
<1>8. ASSUME NEW s \in Sessions, addOpportunityLink(s) \/ removeOpportunityLink(s) \/ linkPocProject(s)
      PROVE  [Desk!Next]_(Desk!vars)
  <2> DEFINE o == call[s].cmd.opp
  <2>1. Proper(s) /\ call[s].cmd.op \in {"addLink", "removeLink", "createPoc"}
    BY <1>8 DEF DeskInv, CallInv, addOpportunityLink, removeOpportunityLink, linkPocProject, Proper, OpsOf
  <2>2. o \in Opps /\ links \in [Opps -> SUBSET Pocs]
    BY <2>1, TypeParts DEF Proper, WellFormed, DeskInv, DataOK
  <2>3. UNCHANGED <<opp, qual, poc, engagement>> /\ \A x \in Opps \ {o} : links'[x] = links[x]
    BY <1>8, <2>2 DEF addOpportunityLink, removeOpportunityLink, linkPocProject
  <2>4. \A x \in Opps \ {o} : HasPocEvidence(x)' <=> HasPocEvidence(x)
    BY <2>3 DEF HasPocEvidence
  <2> QED
    BY <2>2, <2>3, <2>4, EvidenceMaps
<1>9. ASSUME NEW o \in Opps, NEW status \in Verdicts, upsertDealRegistration(o, status)
      PROVE  [Desk!Next]_(Desk!vars)
  BY <1>1, <1>9 DEF upsertDealRegistration
<1>10. ASSUME UNCHANGED vars PROVE [Desk!Next]_(Desk!vars)
  BY <1>1, <1>10 DEF vars
<1> QED
  BY <1>2, <1>3, <1>4, <1>5, <1>6, <1>7, <1>8, <1>9, <1>10 DEF Next, Request, Proceeds

\* The interleaved calls of any number of sessions on any number of deals implement DealDesk: a deal
\* moves on an assessment that passes when it moves, becomes a project on evidence that is there, and
\* comes back from the archive at the stage it was archived at.
THEOREM CallsImplementDealDesk == Spec => ImplementsDealDesk
BY InitMaps, StepMaps, DeskInvariant, PTL DEF Spec, ImplementsDealDesk, Desk!Spec

=============================================================================
