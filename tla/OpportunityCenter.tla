--------------------------- MODULE OpportunityCenter ---------------------------
(***************************************************************************)
(* The opportunities of one project and the calls that change them         *)
(* (packages/business/src/crm: opportunity-center.ts, engagement-center.ts,*)
(* deal-qualification.ts, deal-registration.ts, poc-center.ts).            *)
(*                                                                         *)
(* Every transaction is READ COMMITTED.  create, merge, update, archive    *)
(* and convert take the project's audit-chain lock before they read, and   *)
(* hold it until they end.  A qualification and the two link commands read *)
(* and write first and take the lock only to append their audit event; a   *)
(* registration and a proof of concept are written without it.  A write is *)
(* visible when its transaction commits, so a transaction's writes and its *)
(* commit are one step here.  What link commands and qualifications have   *)
(* written while they wait is never written by a holder of the lock, which *)
(* so does not wait for them.                                              *)
(*                                                                         *)
(* restoreArchivedEntity (packages/business/src/governance/archive-        *)
(* lifecycle.ts) writes a row of opportunities too, and then takes the     *)
(* chain's lock: here its claim of the row is a step of its own, and who   *)
(* would write a claimed row waits.  A holder of the chain's lock may wait *)
(* for the row of a restore that waits for the lock; the database ends     *)
(* that by failing one of the two, and any call may fail here.             *)
(*                                                                         *)
(* updatedAt is a clock reading in milliseconds: a write stores any token, *)
(* even the one it replaces.  Left out: the actor's role, related          *)
(* customers and partners, owners, dealStatus, the replies (a replay and a *)
(* conflict over a used key both end the call unchanged).                  *)
(***************************************************************************)
EXTENDS OpportunityStage, FiniteSets

CONSTANTS
    Opps,           \* rows of opportunities, stored or not
    Sessions,       \* requests being served
    Keys,           \* idempotency keys
    Tokens,         \* values of updatedAt
    Titles,         \* canonical titles
    DealTypes,
    Pocs,           \* entities that a poc link may name
    Changes,        \* the changes that an update may ask for
    Verdicts,       \* values of regStatus that a registration may be given
    Early,          \* the rows that may be stored at the start
    Seeds,          \* what is stored in them
    Asked,          \* the commands that are asked for
    MaxRecords,     \* bound on the records of the chain
    None

Opportunity == [archived : BOOLEAN, stage : CANONICAL_STAGES, dealType : DealTypes,
                title : Titles, updatedAt : Tokens]

ASSUME OpportunityConstants ==
    /\ MaxRecords \in Nat
    /\ Seeds \subseteq Opportunity
    /\ Verdicts \subseteq RegStatuses
    /\ Changes \subseteq [stage : CANONICAL_STAGES \cup {None}, dealType : DealTypes \cup {None},
                          title : Titles \cup {None}]
    /\ None \notin CANONICAL_STAGES \cup DealTypes \cup Titles
    /\ None \notin Sessions /\ None \notin Changes /\ None \notin Opportunity
    /\ Tokens # {} /\ DealTypes # {}

VARIABLES
    opp,        \* opportunities, None for a row that is not stored
    began,      \* the stage each one had at the start (history)
    qual,       \* deal_qualifications, revision 0 for none
    reg,        \* regStatus of deal_registrations
    links,      \* opportunity_links of type poc
    poc,        \* opportunities that a poc_projects row names
    engagement, \* the status an engagement was created with
    trail,      \* opportunity_stage_events of each opportunity
    chain,      \* audit_logs of the project
    lock,       \* holder of the chain's advisory lock
    call        \* what each session is doing

vars == <<opp, began, qual, reg, links, poc, engagement, trail, chain, lock, call>>

Locked == {"create", "merge", "update", "archive", "convert"}
Unlocked == {"qualify", "addLink", "removeLink"}

\* restoreArchivedEntity of the entity types "opportunity", which brings an archived deal back, and
\* "proposal", which sets the dealStatus of a lost one to OPEN.
Restores == {"restoreOpportunity", "restoreProposal"}
Ops == Locked \cup Unlocked \cup Restores \cup {"createPoc"}

Engagements == {"planned", "pre_engagement"}
StageEvent == [from : CANONICAL_STAGES \cup {None}, to : CANONICAL_STAGES]

\* A command of any kind; None, 0 or FALSE where the kind has no such field.
Command == [op : Ops, key : Keys \cup {None}, opp : Opps \cup {None},
            token : Tokens \cup {None}, changes : Changes \cup {None},
            title : Titles \cup {None}, poc : Pocs \cup {None},
            expectedRevision : Nat, passed : BOOLEAN]

\* What the schemas of the commands require.
WellFormed(cmd) ==
    /\ cmd.op \notin {"create", "merge"} => cmd.opp \in Opps
    /\ cmd.op \in {"create", "merge"} => cmd.title \in Titles
    /\ cmd.op = "update" => cmd.changes \in Changes
    /\ cmd.op \in {"addLink", "removeLink", "createPoc"} => cmd.poc \in Pocs
    /\ cmd.op \in Restores => cmd.token \in Tokens

ASSUME AskedAssumption ==
    Asked \subseteq Command /\ None \notin Command /\ \A cmd \in Asked : WellFormed(cmd)

\* previousStage and the stage of the result, which are equal unless the command moved the deal.
Qualification == [revision : Nat, passed : BOOLEAN]
AuditRecord == [op : Ops, key : Keys \cup Tokens \cup {None}, opp : Opps,
                from : CANONICAL_STAGES \cup {None}, to : CANONICAL_STAGES \cup {None},
                revision : Nat]

Call == [step : {"idle", "ready", "written", "linking"},
         cmd : Command \cup {None}, from : CANONICAL_STAGES \cup {None}]
Idle == [step |-> "idle", cmd |-> None, from |-> None]

Stored(o) == opp[o] # None
Live(o) == Stored(o) /\ ~opp[o].archived

\* Opportunities may be stored at the start, whatever their assessment and their registration, which
\* may have changed since they reached their stage.
Init ==
    /\ opp \in [Opps -> Seeds \cup {None}]
    /\ \A o \in Opps : Stored(o) => o \in Early
    /\ began = [o \in Opps |-> IF Stored(o) THEN opp[o].stage ELSE None]
    /\ qual \in [Opps -> [revision : {0, 1}, passed : BOOLEAN]]
    /\ \A o \in Opps : qual[o].passed => qual[o].revision = 1
    /\ reg \in [Opps -> Verdicts]
    /\ \A o \in Opps : ~Stored(o) => qual[o].revision = 0 /\ reg[o] = "NOT_SUBMITTED"
    /\ links = [o \in Opps |-> {}]
    /\ poc = {}
    /\ engagement = [o \in Opps |-> None]
    /\ trail = [o \in Opps |-> <<>>]
    /\ chain = <<>>
    /\ lock = None
    /\ call = [s \in Sessions |-> Idle]

-----------------------------------------------------------------------------
(* The transaction of a call *)

Unchanged == UNCHANGED <<opp, began, qual, reg, links, poc, engagement, trail, chain>>

\* The call ends: its transaction, if it has the lock, gives it back.
Ended(s) == [call EXCEPT ![s] = Idle]
Released(s) == IF lock = s THEN None ELSE lock

\* The call is refused or answered from the ledger, it fails, times out or loses its connection.
Leave(s) ==
    /\ call' = Ended(s)
    /\ lock' = Released(s)
    /\ Unchanged

Fail(s) == call[s].step # "idle" /\ Leave(s)

\* Slip: the lock is shared.
LockIsShared == TRUE

LockIsFree == lock = None

\* A merge creates under the contract of create.
Contract(cmd) == IF cmd.op = "merge" THEN "create" ELSE cmd.op

\* The key of a restore is the row and the version it expects.
KeyOf(cmd) == IF cmd.op \in Restores THEN cmd.token ELSE cmd.key

\* replay: the scope and key of the command have an audit row.
Used(cmd) ==
    /\ KeyOf(cmd) # None
    /\ \E i \in DOMAIN chain :
          /\ chain[i].op = Contract(cmd) /\ chain[i].key = KeyOf(cmd)
          /\ cmd.op \in Restores => chain[i].opp = cmd.opp

\* Slip: the keys of the chain lack the prefix of their contract.
WithRecordUnderBareKey(cmd, o, from, to, revision) ==
    IF cmd.key # None /\ \E i \in DOMAIN chain : chain[i].key = cmd.key THEN chain
    ELSE Append(chain, [op |-> Contract(cmd), key |-> cmd.key, opp |-> o, from |-> from,
                        to |-> to, revision |-> revision])

\* appendAuditEvent takes an existing row of the key as its own.
WithRecord(cmd, o, from, to, revision) ==
    IF Used(cmd) THEN chain
    ELSE Append(chain, [op |-> Contract(cmd), key |-> KeyOf(cmd), opp |-> o, from |-> from,
                        to |-> to, revision |-> revision])

-----------------------------------------------------------------------------
(* What a command needs, read under the lock *)

\* Slip: only deals that are still leads are searched.
NamesakeAmongLeads(title) == {o \in Opps : Live(o) /\ opp[o].title = title /\ opp[o].stage = "LEAD"}

NamesakeOf(title) == {o \in Opps : Live(o) /\ opp[o].title = title}

\* The stage that an update leaves the deal at, and the type its registration is judged by.
Target(cmd) == IF cmd.changes.stage = None THEN opp[cmd.opp].stage ELSE cmd.changes.stage
JudgedType(cmd) == IF cmd.changes.dealType = None THEN opp[cmd.opp].dealType ELSE cmd.changes.dealType

MayMove(cmd) ==
    LET from == opp[cmd.opp].stage
        to == Target(cmd)
    IN
    \/ to = from
    \/ /\ validateOpportunityStageOrder(from, to)
       /\ RequiresQualification(from, to) => qual[cmd.opp].passed
       /\ validateRegistrationGate(from, to, JudgedType(cmd), reg[cmd.opp])

HasPocEvidence(o) == links[o] # {} \/ o \in poc

MayConvert(cmd) ==
    /\ opp[cmd.opp].updatedAt = cmd.token
    /\ opp[cmd.opp].stage \in CONVERSION_STAGES
    /\ HasPocEvidence(cmd.opp)

Admissible(cmd) ==
    \/ cmd.op \in {"create", "archive"}
    \/ cmd.op = "merge" /\ NamesakeOf(cmd.title) = {}
    \/ cmd.op = "update" /\ Live(cmd.opp) /\ MayMove(cmd)
    \/ cmd.op = "convert" /\ Live(cmd.opp) /\ MayConvert(cmd)

\* lockAuditChain, then the reads of the command, which find it new and admissible.  A command that they
\* refuse, answer from the ledger or merge with a deal that is there leaves nothing behind.
lockAndRead(s, cmd) ==
    /\ call[s].step = "idle" /\ cmd.op \in Locked
    /\ Len(chain) < MaxRecords
    /\ LockIsFree
    /\ ~Used(cmd) /\ Admissible(cmd)
    /\ lock' = s
    /\ call' = [call EXCEPT ![s] =
          [step |-> "ready", cmd |-> cmd,
           from |-> IF cmd.op \in {"update", "convert"} THEN opp[cmd.opp].stage ELSE None]]
    /\ Unchanged

-----------------------------------------------------------------------------
(* The writes of a locked command and its commit *)

\* The WHERE of updateMany: not archived, and the token the user saw.
CasMatches(cmd) == Live(cmd.opp) /\ opp[cmd.opp].updatedAt = cmd.token

\* A restore that has not ended has the row.
Claimed(o) ==
    \E s \in Sessions : call[s].step = "written" /\ call[s].cmd.op \in Restores /\ call[s].cmd.opp = o

\* updateMany finds the row and may write it.
MayClaim(cmd) == CasMatches(cmd) /\ ~Claimed(cmd.opp)

Commits(s) ==
    /\ call' = Ended(s)
    /\ lock' = Released(s)

Given(change, value) == IF change = None THEN value ELSE change

\* createOpportunityInScopedTransaction
createOpportunity(s, o, t) ==
    LET cmd == call[s].cmd IN
    /\ call[s].step = "ready" /\ cmd.op \in {"create", "merge"}
    /\ ~Stored(o)
    /\ \E dealType \in DealTypes :
          opp' = [opp EXCEPT ![o] = [archived |-> FALSE, stage |-> "LEAD", dealType |-> dealType,
                                     title |-> cmd.title, updatedAt |-> t]]
    /\ trail' = [trail EXCEPT ![o] = Append(trail[o], [from |-> None, to |-> "LEAD"])]
    /\ chain' = WithRecord(cmd, o, None, "LEAD", 0)
    /\ Commits(s)
    /\ UNCHANGED <<began, qual, reg, links, poc, engagement>>

updateOpportunity(s, t) ==
    LET cmd == call[s].cmd
        o == cmd.opp
    IN
    /\ call[s].step = "ready" /\ cmd.op = "update"
    /\ MayClaim(cmd)
    /\ opp' = [opp EXCEPT ![o] = [archived |-> FALSE, stage |-> Target(cmd),
                                  dealType |-> JudgedType(cmd),
                                  title |-> Given(cmd.changes.title, opp[o].title),
                                  updatedAt |-> t]]
    /\ trail' = IF Target(cmd) = call[s].from THEN trail
                ELSE [trail EXCEPT ![o] = Append(trail[o], [from |-> call[s].from, to |-> Target(cmd)])]
    /\ chain' = WithRecord(cmd, o, call[s].from, Target(cmd), 0)
    /\ Commits(s)
    /\ UNCHANGED <<began, qual, reg, links, poc, engagement>>

archiveOpportunity(s, t) ==
    LET cmd == call[s].cmd
        o == cmd.opp
    IN
    /\ call[s].step = "ready" /\ cmd.op = "archive"
    /\ MayClaim(cmd)
    /\ opp' = [opp EXCEPT ![o] = [archived |-> TRUE, stage |-> opp[o].stage,
                                  dealType |-> opp[o].dealType, title |-> opp[o].title,
                                  updatedAt |-> t]]
    /\ chain' = WithRecord(cmd, o, None, None, 0)
    /\ Commits(s)
    /\ UNCHANGED <<began, qual, reg, links, poc, engagement, trail>>

\* Slip: the engagement starts at the stage of the deal.
EngagementAtStage(o) == IF engagement[o] # None THEN engagement[o] ELSE opp[o].stage

\* The materializer of convertOpportunityToProject: the engagement of the opportunity, or a new one.
EngagementOf(o) ==
    IF engagement[o] # None THEN engagement[o]
    ELSE IF opp[o].stage = "WON" THEN "planned" ELSE "pre_engagement"

\* executeOpportunityConversion: claims the row, materializes and leaves an event at the same stage.
convertOpportunity(s, t) ==
    LET cmd == call[s].cmd
        o == cmd.opp
    IN
    /\ call[s].step = "ready" /\ cmd.op = "convert"
    /\ MayClaim(cmd)
    /\ opp' = [opp EXCEPT ![o].updatedAt = t]
    /\ engagement' = [engagement EXCEPT ![o] = EngagementOf(o)]
    /\ trail' = [trail EXCEPT ![o] = Append(trail[o], [from |-> call[s].from, to |-> call[s].from])]
    /\ chain' = WithRecord(cmd, o, call[s].from, call[s].from, 0)
    /\ Commits(s)
    /\ UNCHANGED <<began, qual, reg, links, poc>>

\* updateMany matched no row: opportunity_version_conflict.
VersionConflict(s) ==
    /\ call[s].step = "ready" /\ call[s].cmd.op \in {"update", "archive", "convert"}
    /\ ~CasMatches(call[s].cmd)
    /\ Leave(s)

-----------------------------------------------------------------------------
(* The commands that take the lock only to append *)

\* The reads of a qualification, archived deals included, and of a link command.
MayWrite(cmd) ==
    \/ /\ cmd.op = "qualify" /\ ~Used(cmd) /\ Stored(cmd.opp)
       /\ qual[cmd.opp].revision = cmd.expectedRevision
    \/ cmd.op \in {"addLink", "removeLink"} /\ CasMatches(cmd)

writeFirst(s, cmd) ==
    /\ call[s].step = "idle" /\ cmd.op \in Unlocked
    /\ Len(chain) < MaxRecords
    /\ MayWrite(cmd)
    /\ call' = [call EXCEPT ![s] = [step |-> "written", cmd |-> [cmd EXCEPT !.token = None], from |-> None]]
    /\ Unchanged /\ UNCHANGED lock

\* Slip: the audit event is appended without the lock.
qualifyThenAppend(s) ==
    LET cmd == call[s].cmd
        o == cmd.opp
    IN
    /\ call[s].step = "written" /\ cmd.op = "qualify"
    /\ cmd.expectedRevision = 0 => qual[o].revision = 0
    /\ qual' = [qual EXCEPT ![o] = [revision |-> cmd.expectedRevision + 1, passed |-> cmd.passed]]
    /\ chain' = WithRecord(cmd, o, None, None, cmd.expectedRevision + 1)
    /\ Commits(s)
    /\ UNCHANGED <<opp, began, reg, links, poc, engagement, trail>>

\* qualifyOpportunity: an INSERT at revision 0, which a row that came in between makes fail; else an
\* UPDATE that looks at the revision no more.
qualifyOpportunity(s) ==
    LET cmd == call[s].cmd
        o == cmd.opp
    IN
    /\ call[s].step = "written" /\ cmd.op = "qualify"
    /\ LockIsFree
    /\ cmd.expectedRevision = 0 => qual[o].revision = 0
    /\ qual' = [qual EXCEPT ![o] = [revision |-> cmd.expectedRevision + 1, passed |-> cmd.passed]]
    /\ chain' = WithRecord(cmd, o, None, None, cmd.expectedRevision + 1)
    /\ Commits(s)
    /\ UNCHANGED <<opp, began, reg, links, poc, engagement, trail>>

addOpportunityLink(s) ==
    LET cmd == call[s].cmd IN
    /\ call[s].step = "written" /\ cmd.op = "addLink"
    /\ LockIsFree
    /\ links' = [links EXCEPT ![cmd.opp] = links[cmd.opp] \cup {cmd.poc}]
    /\ chain' = WithRecord(cmd, cmd.opp, None, None, 0)
    /\ Commits(s)
    /\ UNCHANGED <<opp, began, qual, reg, poc, engagement, trail>>

removeOpportunityLink(s) ==
    LET cmd == call[s].cmd IN
    /\ call[s].step = "written" /\ cmd.op = "removeLink"
    /\ LockIsFree
    /\ cmd.poc \in links[cmd.opp]
    /\ links' = [links EXCEPT ![cmd.opp] = links[cmd.opp] \ {cmd.poc}]
    /\ chain' = WithRecord(cmd, cmd.opp, None, None, 0)
    /\ Commits(s)
    /\ UNCHANGED <<opp, began, qual, reg, poc, engagement, trail>>

\* The unique violation of an INSERT, and a link that is gone.
WriteConflict(s) ==
    LET cmd == call[s].cmd IN
    /\ call[s].step = "written"
    /\ \/ cmd.op = "qualify" /\ cmd.expectedRevision = 0 /\ qual[cmd.opp].revision # 0
       \/ cmd.op = "removeLink" /\ cmd.poc \notin links[cmd.opp]
    /\ Leave(s)

\* restoreArchivedEntity, up to its updateMany, whose WHERE repeats the reads: it waits for another
\* restore of the row, and then finds the row as it has read it or leaves nothing behind.
claimArchivedEntity(s, cmd) ==
    /\ call[s].step = "idle" /\ cmd.op \in Restores
    /\ Len(chain) < MaxRecords
    /\ Stored(cmd.opp) /\ opp[cmd.opp].updatedAt = cmd.token
    /\ cmd.op = "restoreOpportunity" => opp[cmd.opp].archived
    /\ ~Claimed(cmd.opp)
    /\ call' = [call EXCEPT ![s] = [step |-> "written", cmd |-> cmd, from |-> None]]
    /\ Unchanged /\ UNCHANGED lock

\* restoreArchivedEntity: a deal comes back as it was; its audit event is appended and it commits.
restoreArchivedEntity(s, t) ==
    LET cmd == call[s].cmd
        o == cmd.opp
    IN
    /\ call[s].step = "written" /\ cmd.op \in Restores
    /\ LockIsFree
    /\ opp' = [opp EXCEPT ![o] = [archived |-> opp[o].archived /\ cmd.op = "restoreProposal",
                                  stage |-> opp[o].stage, dealType |-> opp[o].dealType,
                                  title |-> opp[o].title, updatedAt |-> t]]
    /\ chain' = WithRecord(cmd, o, None, None, 0)
    /\ Commits(s)
    /\ UNCHANGED <<began, qual, reg, links, poc, engagement, trail>>

-----------------------------------------------------------------------------
(* The writes that never take the lock *)

\* upsertDealRegistration
upsertDealRegistration(o, status) ==
    /\ Stored(o)
    /\ reg' = [reg EXCEPT ![o] = status]
    /\ UNCHANGED <<opp, began, qual, links, poc, engagement, trail, chain, lock, call>>

\* createPocProject: the project is stored first, its link in a statement of its own.
createPocProject(s, cmd) ==
    /\ call[s].step = "idle" /\ cmd.op = "createPoc"
    /\ Stored(cmd.opp)
    /\ Len(chain) < MaxRecords
    /\ poc' = poc \cup {cmd.opp}
    /\ call' = [call EXCEPT ![s] = [step |-> "linking", cmd |-> cmd, from |-> None]]
    /\ UNCHANGED <<opp, began, qual, reg, links, engagement, trail, chain, lock>>

linkPocProject(s) ==
    LET cmd == call[s].cmd IN
    /\ call[s].step = "linking"
    /\ links' = [links EXCEPT ![cmd.opp] = links[cmd.opp] \cup {cmd.poc}]
    /\ call' = Ended(s)
    /\ UNCHANGED <<opp, began, qual, reg, poc, engagement, trail, chain, lock>>

-----------------------------------------------------------------------------
Request(s) ==
    \E cmd \in Asked :
        \/ lockAndRead(s, cmd) \/ writeFirst(s, cmd)
        \/ claimArchivedEntity(s, cmd) \/ createPocProject(s, cmd)

\* The steps of a call that is served.
Proceeds(s) ==
    \/ VersionConflict(s)
    \/ \E t \in Tokens : \/ \E o \in Opps : createOpportunity(s, o, t)
                         \/ updateOpportunity(s, t)
                         \/ archiveOpportunity(s, t)
                         \/ convertOpportunity(s, t)
                         \/ restoreArchivedEntity(s, t)
    \/ WriteConflict(s)
    \/ qualifyOpportunity(s) \/ addOpportunityLink(s) \/ removeOpportunityLink(s)
    \/ linkPocProject(s)

Next ==
    \/ \E s \in Sessions : Request(s) \/ Proceeds(s) \/ Fail(s)
    \/ \E o \in Opps, status \in Verdicts : upsertDealRegistration(o, status)

Spec == Init /\ [][Next]_vars
-----------------------------------------------------------------------------
(* Properties *)

\* Rows, records, the lock and calls have their declared shape.
TypeOK ==
    /\ opp \in [Opps -> Opportunity \cup {None}]
    /\ began \in [Opps -> CANONICAL_STAGES \cup {None}]
    /\ qual \in [Opps -> Qualification]
    /\ reg \in [Opps -> RegStatuses]
    /\ links \in [Opps -> SUBSET Pocs]
    /\ poc \subseteq Opps
    /\ engagement \in [Opps -> Engagements \cup {None}]
    /\ trail \in [Opps -> Seq(StageEvent)]
    /\ chain \in Seq(AuditRecord)
    /\ lock \in Sessions \cup {None}
    /\ call \in [Sessions -> Call]

\* The stage events of a deal lead without a gap from where it began to where it is: no event was
\* written for a stage the deal had left, although updatedAt may not tell two writes apart.
TrailLeads ==
    \A o \in Opps :
        LET t == trail[o] IN
        /\ t # <<>> => t[1].from = began[o]
        /\ \A i \in 1..(Len(t) - 1) : t[i].to = t[i + 1].from
        /\ Stored(o) => opp[o].stage = IF t = <<>> THEN began[o] ELSE t[Len(t)].to

\* Where a deal starts and the stages that it has been at since.
First(o) == IF began[o] = None THEN "LEAD" ELSE began[o]
Reached(o) == {began[o]} \cup {trail[o][i].to : i \in DOMAIN trail[o]}

\* A deal comes up the pipeline through every stage on the way, wins only a negotiation or a deal it
\* has lost, and never comes back from an outcome.
NoStageSkipped ==
    \A o \in Opps :
        /\ \A q \in Reached(o) \cap Pipeline, r \in Pipeline :
              First(o) \in Pipeline /\ Place(First(o)) <= Place(r) /\ Place(r) <= Place(q)
              => r \in Reached(o)
        /\ "WON" \in Reached(o) =>
              First(o) = "WON" \/ Reached(o) \cap {"NEGOTIATION", "LOST"} # {}
        /\ \A i \in DOMAIN trail[o] :
              trail[o][i].from \in {"WON", "LOST"} => trail[o][i].to \in {"WON", "LOST"}

\* A deal that began as a lead and has come further had been assessed by then.
AdvancedWereAssessed ==
    \A o \in Opps : First(o) = "LEAD" /\ Reached(o) \cap (Pipeline \ {"LEAD"}) # {} =>
        qual[o].revision # 0

\* However the commands of several users interleave, the history of a deal is one legal path through
\* the pipeline, without a gap and without a stage passed over, on an assessment.
StageTrail == TrailLeads /\ NoStageSkipped /\ AdvancedWereAssessed

\* The records of the chain that stand for an event of a deal.
Moves(r) == r.op \in {"create", "convert"} \/ r.from # r.to
MovesAt(o) == {i \in DOMAIN chain : chain[i].opp = o /\ Moves(chain[i])}

\* A deal's events and the records of the chain about them are the same moves in the same order: none
\* is taken twice under one key, none goes unrecorded, and none is recorded out of order.
EveryMoveIsAudited ==
    \A o \in Opps :
        /\ Cardinality(MovesAt(o)) = Len(trail[o])
        /\ \A i \in MovesAt(o) :
              LET n == Cardinality({j \in MovesAt(o) : j <= i}) IN
              trail[o][n] = [from |-> chain[i].from, to |-> chain[i].to]

\* "Project-local canonical merge": a mail never opens a second deal beside a live one of its title,
\* whatever was created, renamed or archived while it was converted.
MergeFindsNamesake ==
    [][\A s \in Sessions :
          (call[s].step = "ready" /\ call[s].cmd.op = "merge" /\ call'[s] = Idle /\ opp' # opp)
          => ~\E o \in Opps : Live(o) /\ opp[o].title = call[s].cmd.title]_vars

\* The interleaved transactions are the atomic steps of DealDesk: a deal moves on an assessment that
\* passes at that very moment, although the assessment is read earlier and without a row lock, and
\* becomes a project on evidence that is there when it does.
Desk == INSTANCE DealDesk WITH
    stage <- [o \in Opps |-> IF Stored(o) THEN opp[o].stage ELSE None],
    live <- {o \in Opps : Live(o)},
    passing <- {o \in Opps : qual[o].passed},
    evidence <- {o \in Opps : HasPocEvidence(o)},
    project <- engagement
ImplementsDealDesk == Desk!Spec

\* What holds of a call: the lock belongs to the session that has read under it and not yet written, and
\* until then what it read stands, because every writer of what it read needs the lock to commit.
OpsOf(step) ==
    IF step = "ready" THEN Locked
    ELSE IF step = "written" THEN Unlocked \cup Restores ELSE {"createPoc"}

Proper(s) ==
    /\ call[s].cmd # None /\ WellFormed(call[s].cmd)
    /\ call[s].cmd.op \in OpsOf(call[s].step)
    /\ call[s].cmd.op \in {"qualify"} \cup Restores => Stored(call[s].cmd.opp)

CallInv == \A s \in Sessions : call[s].step # "idle" => Proper(s)

LockInv == \A s \in Sessions : lock = s <=> call[s].step = "ready"

\* Only the registration, which is written without the lock, may have changed since it was read.
Stands(s) ==
    LET cmd == call[s].cmd IN
    /\ ~Used(cmd)
    /\ cmd.op = "merge" => NamesakeOf(cmd.title) = {}
    /\ cmd.op \in {"update", "convert"} => Live(cmd.opp) /\ call[s].from = opp[cmd.opp].stage
    /\ cmd.op = "update" =>
          \/ Target(cmd) = call[s].from
          \/ /\ validateOpportunityStageOrder(call[s].from, Target(cmd))
             /\ RequiresQualification(call[s].from, Target(cmd)) => qual[cmd.opp].passed
    /\ cmd.op = "convert" => opp[cmd.opp].stage \in CONVERSION_STAGES /\ HasPocEvidence(cmd.opp)

ReadsStand == \A s \in Sessions : call[s].step = "ready" => Stands(s)

Unopened == \A o \in Opps : ~Stored(o) => trail[o] = <<>> /\ began[o] = None /\ MovesAt(o) = {}

DeskInv ==
    /\ TypeOK /\ CallInv /\ LockInv /\ ReadsStand /\ Unopened /\ TrailLeads /\ EveryMoveIsAudited

\* What a deal's history rests on: an assessment that passes has a revision.
PathInv ==
    /\ NoStageSkipped /\ AdvancedWereAssessed
    /\ \A o \in Opps : qual[o].passed => qual[o].revision # 0

\* The first assessment of a deal has one winner, however many were computed at once: what the code
\* promises of every revision holds of the one that an INSERT makes.
OneFirstAssessment ==
    \A i, j \in DOMAIN chain :
        (/\ chain[i].op = "qualify" /\ chain[j].op = "qualify" /\ chain[i].opp = chain[j].opp
         /\ chain[i].revision = 1 /\ chain[j].revision = 1) => i = j

\* A deal that the chain has an assessment of has one, of some revision.
FirstInv ==
    /\ OneFirstAssessment
    /\ \A i \in DOMAIN chain : chain[i].op = "qualify" => qual[chain[i].opp].revision # 0

\* "concurrent writer CAS revision updates with single winner": one assessment for each revision.
OneWinnerPerRevision ==
    \A i, j \in DOMAIN chain :
        (/\ chain[i].op = "qualify" /\ chain[j].op = "qualify" /\ chain[i].opp = chain[j].opp
         /\ chain[i].revision = chain[j].revision) => i = j
=============================================================================
