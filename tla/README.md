# Sangfor Agentic Company OS: verification project

TLA+ models of the governance core of this repository and of the sales pipeline
that runs on it, the TLC runs that check them on small instances, and theorems about them that TLAPS checks for every
value of the constants.

All paths below are relative to the repository root.

## 1. The system

A pnpm monorepo: a Next.js portal (`apps/web`), an Express finance API
(`apps/api`), the business services (`packages/business`), the PostgreSQL schema
with its triggers (`packages/db`), authentication (`packages/auth`), connector
utilities (`packages/infra`), and two stand-alone services (`services/*`). The
portal's route handlers resolve the caller from the session and call exactly one
service operation. A service operation is one interactive PostgreSQL transaction
(Prisma `$transaction`), almost always READ COMMITTED; it reads rows without
locks, checks them in TypeScript, and writes with a compare-and-swap
(`updateMany ... where revision, status`). Triggers repeat the most important
checks, and unique indexes catch what the reads could not see. There are no
in-process locks that matter: several processes may run the same code, and the
interleaving that counts is the interleaving of statements in the database.

### Inventory

| Component | State | Operations | Hard behaviour | What makes it correct |
|---|---|---|---|---|
| Approval kernel (`governance/approval-kernel.ts`, migration `20260715180000`) | `approval_requests`, `approval_decisions`, `approval_current_validity` | create/ready/submit, decide, cancel, expire, markValidityStale, revokeValidity | decide reads role, request and projection without locks, then CASes; three writers of the projection, two of which leave the revision alone | quorum of distinct people, projection = history, nothing ends twice, one open request per binding |
| Audit chain and replay ledger (`governance/audit-db.ts`, `audit-chain.ts`, `internal-principal-replay.ts`, `external-action-release.ts`, migration `20260715210000`) | `audit_logs` per chain | append, claim of a jti and nonce, consumption of a receipt, verification | advisory lock held to the end of the caller's transaction; callers at two isolation levels; multi-row claims | committed chain verifies, a handle is granted once, appends do not lose to each other |
| Workflow runtime (`orchestration/workflow-runtime.ts`, migration `20260715190000`) | `workflow_runs`, `workflow_run_steps`, `workflow_run_events` | start, transition of a run, transition of a step | idempotent start racing itself; SERIALIZABLE transitions that race on the aggregate status; cascade by trigger | the run's status agrees with its steps; the events explain the rows; one run per key |
| Release gate and external actions (`governance/artifact-release.ts`, `external-action-release.ts`) | reads versions and the kernel's projection, writes the ledger | evaluate, issue, consume | a gate of several statements; bearer tokens that are presented twice or late; lost answers | what is released was in force; an action is released once |
| Ownership transfer and role change (`governance/ownership-transfer.ts`, `role-change.ts`) | role-change requests, owners of records | create, preview, apply, finalize | preview drift; re-scan and item-by-item CAS; writes rows of the kernel | no record is left with an owner who lost the role; the role changes last |
| Retention and archive (`governance/retention-*.ts`, `archive-lifecycle.ts`) | policies, legal holds, purge receipts; rows of other components | hold, release, purge, restore | a hold placed while a purge runs; a restore that writes a row before it takes the lock its other writers take first | what is held is not deleted; what comes back is what was archived |
| AI quality and release evaluation (`governance/ai-*.ts`) | evaluation runs, reviews, decisions | evaluate, review, release | idempotent creation, evaluations that go stale | a release rests on a current evaluation |
| Scheduler, autopilot, watchdog (`orchestration/scheduler-runtime.ts`, ...) | scheduler jobs and runs | trigger, tick | two transactions around a handler | no run stays RUNNING |
| Resilience (`packages/infra/src/resilience.ts`) | breaker: failures, openedAt, open | exec, withRetry | concurrent calls across the await | opens after the threshold, recovers, does not flood |
| MCP workflow engine (`services/sangfor-mcp-workflow/packages/workflow-engine`) | steps, completed set, cache | parallel execution with dependencies, retry, timeout | failed steps, late handlers | every execution ends; dependencies are respected |
| Nonce authority (`services/production-nonce-authority`) | consumed nonces | consume | a lost answer and its retry | a nonce is consumed once |
| Sessions and MFA (`packages/auth`, `apps/web/src/lib/auth`) | sessions, tokens, used codes | login, rotate, revoke, verify | reuse of a code, revocation racing a request | a revoked session decides nothing |
| CRM: opportunities (`crm/opportunity-center.ts`, `engagement-center.ts`, `deal-qualification.ts`, `deal-registration.ts`, `poc-center.ts`, `archive-lifecycle.ts`) | opportunities, stage events, assessments, registrations, links, engagements | create, merge, update, archive, restore, convert, qualify, link, register | some commands hold the project's chain lock from their first read, others take it only to append, others never | stages move by the rules on an assessment that passes; events and audit rows agree; a retry moves nothing twice |
| CRM: quotes (`crm/quote-service.ts`, `governance/artifact-service.ts`) | quotes, lines, artifact versions, pointer | make a quote version, edit its artifact | three locks taken one after the other; rebasing over an editor's version; a trigger that compares two spellings of one number | one line of quotes, one artifact, nothing half written |
| CRM: customers, partners, proposals (`crm/*`) | master data, documents | edits | revisions | straight persistence |
| Mail intelligence (`mail/*`) | messages, candidates, ground truth | classify, triage, convert | conversion creates several records | a candidate is converted once |
| Catalog (`catalog/*`) | products, rule versions | import, activate | one active version | one active rule set |
| Support (`support/*`) | tickets, SLA clocks, renewals, vendor requests | status changes | clock arithmetic | single-row status graphs |
| Finance API (`apps/api`) | ledger, month close, tax invoices | post, close, receive, issue | inbound documents delivered twice; postings against a close | a closed month does not move |
| Tenant scope, backfill, restore (`packages/db`) | every table | scoped reads and writes | import of a partial set | nothing crosses a tenant |
| Domain AI, skills, web pages, scripts | prompts, pages, files | - | - | not stateful protocols |

Interactions that matter for the models:

- every governed operation appends to the **audit chain** inside its own
  transaction, so the chain's lock is the one point all operations of a scope
  share;
- the **workflow runtime** and the **release gate** read the kernel's projection
  (`approval_current_validity`) and never write it;
- **external actions** are released through the same gate twice, before a receipt
  is issued and before it is consumed, and both calls write to the audit chain;
- **opportunity** commands use the chain's lock as their own mutual exclusion, and
  the conversion of a mail candidate (`mail/mail-candidates-convert.ts`) calls the
  merge under a lock it has taken already;
- a **quote** is a version of an artifact, which an editor may version too, and an
  approval names such a version; making it needs the assessment of the
  opportunity;
- roles (`user_company_roles`) are read by every operation and locked by none.

The hazards of the code, each at its line and with the properties that watch it,
are the list "hazards" of `PROJECT.json`.

## 2. Plan

The order of work, the most important behaviour first; all of it is done. Each row
is a detailed module over the abstract one it is shown to implement.

1. **ApprovalKernel** over **Approval**: every governed operation rests on it.
2. **AuditChain** over **AuditLedger**, with the replay claims: every operation
   appends to it. The chain must besides pass the code's own verification.
3. **WorkflowRuns** over **Workflow**: a transition is one atomic step.
   **WorkflowStart** over **StartOnce**: a key names one run.
4. **ExternalRelease** over **ReleaseOnce**: the gate, with the chain reduced to its
   lock and keys and the kernel to **ApprovalStanding**, which ApprovalKernel
   implements.
5. **OpportunityCenter** over **DealDesk**, with the pipeline's rules in
   **OpportunityStage**.
6. **QuoteVersions** over **QuoteBook**.

What would come next is named in section 6. The runs are in section 4, the theorems
in section 5.

Every module takes its sets as CONSTANTS with named assumptions, has one action
per statement that others can tell apart, and declares no RECURSIVE operator, so
that it can be proved about as well as checked.

## 3. What is modelled

### ApprovalKernel (and Approval)

`ApprovalKernel.tla` follows `approval-kernel.ts` statement by statement.

| Model | Code |
|---|---|
| `request`, `validity`, `decisions` | committed rows of the three tables |
| `rowLock` | the row lock an UPDATE of `approval_requests` holds to commit |
| `tx` | what a session's open transaction has read into TypeScript variables |
| `active`, `overdue` | the result of `resolveActiveCompanyRole` and of comparing `expiresAt` with now |
| `submitApprovalRequest` | create, ready and submit, which commit together |
| `DecideBegin`, `DecideReadRequest`, `DecideReadValidity`, `CasRequest`, `DecideCommit` | the statements of `decideApprovalWithClient` |
| `CloseRead`, `CasRequest`, `CloseCommit` | `cancelApprovalRequest`, `expireIfDue` |
| `ProjectionRead`, `ProjectionCas` | `markValidityStale`, `revokeValidity` |
| `Rollback` | any failure: trigger, audit append, outbox, time-out, lost connection |
| `BecomeOverdue`, `RoleLapse` | the clock, role administration |
| `StatusEdge`, `ValidityEdge`, `ValidityGuard`, `DecisionGuard`, `OpenUnique` | the triggers and indexes |

Writes become visible at commit, so the statements between the CAS and the commit
are one action; the row lock taken by the CAS is what separates them. Left out:
tenant scope, MFA age, input validation (refusals before any row is read),
hashes, reason codes and returned values. An owner never changes: the only writer of
`owner_assignment_id`, a completed ownership transfer, cannot complete (section 6).

Two things the model shows that the code's comments do not say. The CAS is not "the
sole authoritative conflict detector" (`approval-kernel.ts:619-622`): staleness and
revocation move the projection without touching the revision, so that a decision
whose CAS matched is refused later by the projection's trigger; nothing is written,
but the caller gets a raw database error and not `STALE_REVISION`. And a request
whose projection went stale while it was open can never be decided, cancelled or
expired (`StaleRequestNeverCloses`), and keeps its slot in the partial unique index.

`Approval.tla` is what the kernel promises: open requests collect votes of distinct
people other than the requester; the vote that completes the quorum approves in
the same step; an ended request never changes again; a projection is pending,
valid or dead. The mapping takes `request.status`, collapses the four dead states
of the projection and the decisions to the set of approvers.

`ApprovalStanding.tla` is the little that the release gate needs of the kernel: an
approval is given once, and withdrawn for good. The theorem `KernelKeepsStandings`
shows that the kernel is one, and `ExternalRelease` takes its approvals from it, so that
what is proved of the gate holds over the kernel.

### AuditChain (and AuditLedger)

| Model | Code |
|---|---|
| `rows` | committed `audit_logs` rows of a chain |
| `lock` | `pg_advisory_xact_lock(hashtextextended(chainScopeKey, 0))` |
| `granted` | how often a caller has been told that a handle is its own (history) |
| `tx[t].snapshot` | what a SERIALIZABLE transaction sees, fixed at its first statement |
| `DomainAppend`, `WorkflowAppend`, `Claim` | the three kinds of callers |
| `AcquireLock`, `FindExisting`, `InsertNext`, `Commit`, `Rollback` | the statements of `appendAuditEvent` and the end of the caller's transaction |
| `Collides` | the two unique indexes |
| `verifyAuditChainRows` | `audit-chain.ts` |

A digest is modelled as the history it stands for, which is the collision freedom
of SHA-256 and nothing else. The lookups and the INSERT of one append are one
action because only the holder of the lock writes the chain between them.

The lock serialises the appends, as `audit-db.ts:54-55` says, but not what a
SERIALIZABLE caller (`workflow-runtime.ts:312`, `:337`) sees: its snapshot is taken at
its first statement, so one that has waited for the lock computes an old sequence,
and the unique index refuses it. `ReadCommittedNeverCollides` is the other half: at
READ COMMITTED the lock suffices.

`AuditLedger.tla` is what appends and claims promise, one call at a time: an event goes
behind all others, once under its key; a claim is granted as a whole, its handles next
to each other and each for the first time, or leaves nothing behind. The mapping takes
the keys of a chain in the order of their sequences and keeps `granted`.

### WorkflowRuns (and Workflow)

`WorkflowContracts.tla` holds the two status graphs, which TypeScript and the
triggers state alike. `WorkflowRuns.tla` is about one run, from the commit of its
start on.

| Model | Code |
|---|---|
| `run`, `steps`, `events` | committed rows of `workflow_runs`, `workflow_run_steps`, `workflow_run_events` |
| `lock` | the row locks of the UPDATEs and the advisory lock `workflow-run-event:<run>` |
| `tx[t].run`, `.steps`, `.events` | the SERIALIZABLE snapshot of the transaction's first statement |
| `tx[t].todo` | rows the transaction still has to update: its own row, then the steps of the cascade |
| `Begin` | the reads and checks of `transitionRunWithClient`, `transitionStepWithClient` |
| `LockRow` | one UPDATE, waiting for its row and refused (40001) when the row has changed since the snapshot |
| `AppendRunEvent` | `lockRun`, the last sequence of the snapshot, the INSERT and its unique index |
| `Commit`, `Rollback` | the end of the transaction |
| `WaitsFor` | the locks a transaction may have to ask for next, in another's hands |

The triggers repeat the checks of `Begin` on the same snapshot, with one exception:
the guard of `workflow_runs` also compares, on every UPDATE of the run, the run
approval it names with the `approval_requests` row of the moment (its revision, its
artifact version and hash, its policy hash) and refuses the UPDATE when one of them
has moved. Approvals are not in this module. A transition refused that way is a
`Rollback`, so the module allows every transition the code does and more, and what is
checked of it holds of the code. PostgreSQL's predicate locks may refuse more than row and index
conflicts; that is `Rollback`, and no property needs it. This is worth knowing:
what makes an overlap of two transitions safe here is the unique index on the
event's sequence. Every transition appends an event, so two that overlap compute
the same sequence and one of them fails, even when they touch different rows.

`Workflow.tla` makes each transition one atomic step. The mapping is the identity
on `run`, `steps` and `events`.

### WorkflowStart (and StartOnce)

`WorkflowStart.tla` is about the calls of `startWorkflowRun` for one project and
one active definition.

| Model | Code |
|---|---|
| `required` | `requiresRunApproval` of the definition, either value, fixed |
| `runs` | committed rows of `workflow_runs` |
| `valid` | what `evaluateArtifactRelease` would say now of the approvals that the definition and the requests name |
| `call[c]` | the local state of a call: attempt, approvals checked so far, answer; its `since`, the approvals that were releasable when the attempt began or have become so during it, is history |
| `Lookup`, `Recover` | `existingRunForIdempotency`, inside the attempt and in the fresh transaction of the loop |
| `CheckActivation`, `CheckRunGate` | `assertCurrentActivation`, `runGateSnapshot` |
| `Insert` | `workflowRun.create` under the unique index: waits for an open insert of the key, loses to a committed one |
| `Commit` | the commit, with or without its acknowledgement |
| `WriteConflict`, `Break` | an error of the database that the loop retries (P2034), any other one |
| `Retry` | the loop up to `START_TRANSACTION_MAX_ATTEMPTS` |
| `Grant`, `Revoke` | the environment: an approval becomes releasable, or stops being so |

Keys are trimmed on insert and not on lookup, so a request knows whether its
spelling is padded and the rows do not. The lookup that the loser of the race makes
in its own aborted transaction fails with an error that the client library chooses;
the model allows one that the loop retries and one that it does not. The steps, the
event and the audit row are written with the run and are left out.

A definition may be started without approval in force, and an approval that a request
names may be granted while an attempt runs: `runGateSnapshot` then accepts it
(`workflow-runtime.ts:165-171`). `Grant` and `Revoke` allow more than the kernel, which
brings no revoked approval back. What a run is promised is therefore stated of a moment:
`CreatedUnderApproval` says that each approval of a run was releasable at some moment of
the very attempt that creates it, and that none it needs is missing. It does not say, and
at READ COMMITTED it is not true, that both were at one moment, or still are when the run
is committed.

`StartOnce.tla` is the promise: a key names at most one run, a caller is given the
run of its own key and input or told of a conflict with it, and a caller that is
refused has created nothing. A run is named by the call that created it.

### ExternalRelease (and ReleaseOnce, ApprovalStanding)

| Model | Code |
|---|---|
| `current`, `standing`, `overdue` | `artifact.currentRevision`, the approval's status with its projection, its `expiresAt` |
| `issued`, `claimed` | audit rows `external-action.issue:K` and `external-action.consume:KIND:VALUE` |
| `lapsed` | receipts whose 60 seconds have passed |
| `handed`, `acts` | answers that reached a client or an executor (history) |
| `GateVersion`, `GateApproval` | the two reads of `evaluateArtifactRelease` |
| `IssueBegin`, `LookUp`, `AppendAudit`, `CommitIssue` | `issueExternalActionRelease` |
| `ConsumeBegin`, `AppendAudit`, `CommitConsume` | `consumeExternalActionRelease` |
| `Rollback` | any failure |
| `AppendVersion`, `Approve`, `Withdraw`, `BecomeOverdue`, `Lapse` | `artifact-service.ts`, the kernel, the clock |

The kernel appears as `ApprovalStanding`, the chain as its lock and its keys. A decision
compares `expiresAt` with the time at which it began, so that an approval may be overdue
when it commits. The commits of other writers of the chain wait while a call holds its lock.
`standing` is one value although request and projection are two rows: an approved
request stays approved, which is a theorem about `ApprovalKernel`. The signature of a
receipt and the rotation of its key are left out.

`ReleaseOnce.tla` promises that a key is granted for one approval, and spent at most
once, for an approval that was in force at some moment: approved, not withdrawn or
overdue, while its version was the current one.

What the model shows besides: the gate reads the version before the approval, so
that a receipt may be issued for an approval that was given only after its version
had been superseded. The gate of the consumption makes up for it, which is why
`SpentWasInForce` speaks of what is spent and not of what was issued. A retry under a
key whose receipt has lapsed unspent is refused for good, since the key's row stays
(`DeadKeysStayDead`): the client needs another key. And when
the answer to a consumption is lost, its retry is refused as a replay: an action is
released at most once, and may be released never.

### OpportunityCenter (and OpportunityStage, DealDesk)

`OpportunityStage.tla` holds the rules of `opportunity-stage.ts` and of the services
that ask for a stage.

| Model | Code |
|---|---|
| `opp`, `trail`, `qual`, `reg`, `links`, `poc`, `engagement` | rows of `opportunities`, `opportunity_stage_events`, `deal_qualifications`, `deal_registrations`, `opportunity_links`, `poc_projects`, `engagements` |
| `began` | the stage a deal had at the start (history) |
| `chain`, `lock` | `audit_logs` of the project, its advisory lock |
| `call` | a session's command and the stage it has read |
| `lockAndRead` | `lockAuditChain`, the lookup of the key and the reads and checks of create, merge, update, archive, convert |
| `createOpportunity`, `updateOpportunity`, `archiveOpportunity`, `convertOpportunity` | their writes, audit row and commit |
| `VersionConflict` | `updateMany` matched nothing |
| `writeFirst`, `qualifyOpportunity`, `addOpportunityLink`, `removeOpportunityLink`, `WriteConflict` | the commands that take the lock only to append |
| `upsertDealRegistration` | a write that never takes it |
| `createPocProject`, `linkPocProject` | `poc-center.ts:120` and `:141`, two commits |
| `claimArchivedEntity`, `restoreArchivedEntity` | `restoreArchivedEntity` up to its `updateMany`, and from there to its commit, of the entity types "opportunity" and "proposal" |
| `Fail` | any failure |

A transaction's writes and its commit are one step: they become visible together. Of
the rows that a transaction locks while it waits for the chain's lock, a holder of that
lock writes one kind only: the opportunity of a restore, which is written before the
audit event is appended (`archive-lifecycle.ts:201`). That claim is a step of its own
(`Claimed`, `MayClaim`): an update, archive or conversion of the row waits for it while
it holds the lock that the restore needs. PostgreSQL breaks such a ring by failing one of
the two, as any call may fail here, so that no liveness is claimed of these commands.

A restore of entity type "proposal" sets the `dealStatus` of a lost deal to OPEN and
leaves its archiving as it is. `dealStatus` decides nothing in these commands and is left
out: such a restore claims any stored deal, writes a new token and an audit row.
`updatedAt` has milliseconds, so the model lets a write store the token it replaces.
It follows that the compare-and-swap protects nothing by itself; `StageTrail` and
`EveryMoveIsAudited` hold because of the lock.

`DealDesk.tla` makes each command one step: a deal moves only on an assessment that
passes at that moment, becomes a project once and on evidence that is there at that
moment, does not move while it is archived, and comes back from the archive at the stage
it was archived at. An archived deal whose title another deal has taken meanwhile comes
back beside it: the restore looks for no namesake, and `MergeFindsNamesake` is about what
a mail opens.

Not promised by `DealDesk`, because the code does not keep it: that the registration
a move was checked against still stands when it commits (`deal-registration.ts:55` takes
no lock, `opportunity-center.ts:753` reads it); and that an archived deal gets no more
links (the link commands check the token before they wait). `advanceOpportunityStage`
(`opportunity-center.ts:878`) reads the stage in a transaction of its own and calls the
update; it is one of the updates asked for here, and its retry after a lost answer
asks for the stage after next. The outcome correction LOST to WON
(`opportunity-stage.ts:349-350`) asks for no assessment (line 283 asks for it only
when LEAD is left, LOST excepted), so that a lead may be lost and then won without one and
without a negotiation: `NoStageSkipped` says what is left, that a win follows a
negotiation or a loss. And `appendAuditEvent` takes an existing row of its key for its
own: two assessments under one key that both looked it up before either committed leave
one audit row, the first one's. `createPocProject` may stop between its two commits,
with a project that no link names; its name in the row is evidence enough.

### QuoteVersions (and QuoteBook)

| Model | Code |
|---|---|
| `quotes`, `versions`, `pointer`, `trail` | rows of `quotes`, `artifact_versions`, the artifact's current version and revision, `audit_logs` |
| `passing` | whether the opportunity's assessment passes under the current scoring version |
| `AskQuote`, `AskEdit` | the two routes, with what they do to an expectation |
| `Lock`, `ReadDeal`, `ReadLatest`, `ReadArtifact` | `createQuoteVersion` up to its artifact |
| `CheckPointer`, `InsertVersion`, `AppendAudit` | `createArtifactVersion` as both callers run it |
| `CommitQuote`, `CommitEdit`, `Rollback` | the last writes and the end of the transaction |
| `InSnapshot`, `InColumn`, `LineIsKept` | the two spellings of a quantity and the trigger that compares them |

Who holds a lock is read off the steps of the calls: the quote lock from `Lock` on, an
uncommitted version from `InsertVersion` on, the chain's lock from `AppendAudit` on.

`QuoteBook.tla` is a book to which entries are appended: a caller who names the quote
it builds on is put right behind that one or refused.

Two things the code's comments suggest are not promised, since the code does not keep
them. The advisory lock is there so that there is "exactly one winner even for the
first-ever quote version" (`quote-service.ts:64-66`); the route turns
`expectedCurrentQuoteId: null` into no expectation, so that two requests for the first
quote both succeed, as version 1 and 2. The route also drops the idempotency key it
accepts, so that a request sent again makes another version. Further: the service
rebases a quote on whatever version of the artifact is current, an editor's included;
the unique index over an artifact's content hashes makes going back to an earlier
content fail as `STALE_CURRENT`; the assessment and the catalog may have changed by the
commit; and a product line without a cost counts as one that costs nothing.

## 4. What is checked

| Run | Question | Bounds | Result |
|---|---|---|---|
| ApprovalConcurrency | two sessions decide, cancel, expire, stale and revoke one request | 1 request, 3 people, 2 sessions, quorum up to 2; 71,234 states | the invariants and action properties hold, and every behaviour is one of `Approval` |
| ApprovalBindings | two requests compete for one binding | 2 requests, 2 people, 1 session; 58,700 states | one is open at a time, and it is undecided |
| ApprovalRevokedRole | can a revoked role decide? | as ApprovalConcurrency | violated: the role is read first and never again |
| AuditChains | appends and claims at both isolation levels | 1 chain, 2 sessions, 3 handles, 1 key, 4 rows; 19,041 states | chains verify, READ COMMITTED never collides, every behaviour is one of `AuditLedger`, every call ends |
| WorkflowTransitions | two sessions move one run and its steps | 1 run, 2 steps, 2 sessions, 4 transitions; 326,705 states | rows, steps and events agree, an ended run is quiet, every behaviour is one of `Workflow`, every transition ends without the deadlock detector |
| WorkflowStarts | starts race, retry, lose their acknowledgement, while approvals come and go | 2 calls, 1 key, padded or not, 2 inputs, 2 attempts, run approval required or not; 102,032 states | every behaviour is one of `StartOnce`, a run has the approvals it needs, each from its own attempt, every start ends, and an unpadded one finds the winner |
| WorkflowStartPadded | does a padded start find the winner? | 2 calls, 1 key, 8 attempts | violated: a padded key never finds its run |
| ExternalReleases | receipts are issued, retried, presented twice and late while versions and approvals move | 2 sessions, 1 key, 2 receipts, 2 versions with an approval each; 160,496 states | a key has one receipt and is spent once, for an approval that was in force; a key whose receipt lapsed stays dead; every call ends; every behaviour is one of `ReleaseOnce` |
| OpportunityCalls | commands with and without the lock meet on two deals | 2 deals, 2 sessions, 1 key, 2 tokens, 2 titles, 2 records; 521,692 states | the history of a deal is one legal path without a stage passed over, on an assessment, and agrees with the audit rows; a merge finds its namesake, every behaviour is one of `DealDesk` |
| QualificationRevision | has a revision of an assessment one winner? | as OpportunityCalls | violated: the UPDATE looks at the revision no more |
| QuoteVersions | quotes and edits of one opportunity race and fail | 3 requests, 1 opportunity, quantities 1.50 and 10; 55,962 states | one line over one artifact without a gap, a call is told of success exactly if its rows are there, the trail tells both, every call ends, every behaviour is one of `QuoteBook` |
| QuoteQuantity | is every quantity the service lets pass kept? | as QuoteVersions, 1 request | violated: 10 units are refused by the trigger |

Why the bounds are enough: a race of this code is between what one transaction
read and what another committed, so two sessions show every pair of operations. A
third person is what a quorum of two needs besides the requester. The claims of the
chain run overlap pairwise in a handle. Four transitions take a run with two steps
from pending to each of its ends while another session moves it, and `MaxEvents` only
stops new calls, as `MaxRows` and `MaxRecords` do in their modules. Two attempts of a
start are a last one and one that is not. Two versions are one that is current and
one that was; two receipts are one on record and a fresh one. Two deals are what a
merge and its namesake need, and the two records let any command meet any other; a
third would only follow one of them. The second deal of that run gets no proof of
concept and is neither archived nor restored, a key comes with the commands that a client
may send twice and with the first assessment of the first deal, and `Seeds` starts deals
at LEAD and at POC, the latter archived or not, so that both ends of the pipeline and the
way back from the archive are within reach. A padded start comes with one input and an
approval, since it finds no run whatever it asks for. Three requests for quotes are two that race and
one that has ended before or edits between. 10 units are the least quantity whose two
spellings differ. The theorems below cover every other size.

Symmetry is used for the people, requests and sessions of the approval runs and for
sessions and tokens of the opportunity runs, whose properties are invariants and
action properties only; no liveness is checked with it.

Fairness: PostgreSQL grants a lock to its waiters in order, so a waiter whose lock is
free again and again gets it (strong fairness on the statements that wait); a process
keeps executing the transaction it has begun, and a start's timers fire (weak fairness
on its statements, which strong fairness includes); a transaction that hit a unique
violation can only end (weak fairness on its rollback). Nothing obliges a healthy
transaction to fail, a client to ask or an approval to be given. The approval and
opportunity runs assume no fairness.

Deadlock is checked where something can always happen (`ExternalReleases`,
`QuoteVersions`) and is off where the system rightly may have nothing left to do: a
request, a run or a start ends, every role lapses, the chain is full. That no session
waits for ever is what `EveryCallEnds`, `EveryTransitionEnds` and `EveryStartEnds` say.
They leave PostgreSQL's deadlock detector out on purpose: the order in which locks are
taken must suffice.

The violated properties are sentences of the repository's own comments, tests and
plans, quoted in "findings" of `PROJECT.json`. The one of `QuoteQuantity` is a fault a
user meets: `quote-service.ts:208` takes the trailing zeros off whole numbers, 10 becomes
"1", the trigger of migration `20260716003500` finds "10" in the typed column, and a quote
with 10, 20 or 100 units of anything cannot be saved.

Each property of a passing run is paired with a mutant: a plausible slip in a mapped
definition (the definitions marked `Slip`) under which TLC finds the property violated.

## 5. What is proved

The modules named `...Proofs` hold for every value of the constants that satisfies the
named assumptions of the module they extend (`KernelConstants`, `ChainConstants`,
`RunConstants`, `StartConstants`, `ReleaseConstants`, `OpportunityConstants` with
`AskedAssumption`, `QuoteConstants`). The list "theorems" of `PROJECT.json` names the
results; each module has an inductive invariant, the safety properties that follow from
it, and the refinement where there is an abstract module.

**Kernel.** `ProjectionAgreesWithHistory` is not inductive: it survives a
`DecideCommit` only because the counters that the transaction read long before it
held a lock are still right. The strengthening is `KernelInv`: `ReadsAreExactOrStale`
(what was read is exact while the revision is the one read, because every write of
the counters bumps the revision), `LocksAgree` (a locked row has not moved since
its CAS), `RowsAgree` (how far a request has come, its decisions and its projection
agree) and `BindingsAreExclusive`. `KernelInvariant` is the inductive proof, one step
per action; `TypeCorrect`, `ProjectionIsExact`, `QuorumIsDistinct`, `OpenIsUndecided`
follow from it, `NothingResurrects` and `StaleStaysOpen` are step properties under it,
and `KernelImplementsApproval` maps every step to a step of `Approval` or a stutter.
`KernelKeepsStandings` does the same for `ApprovalStanding`: only a decision that makes
the projection valid approves a request, and the projection's graph has no way back.

**Chain.** A transaction has uncommitted rows, and a SERIALIZABLE one reads an old
snapshot. `ChainInv` says that a snapshot is a prefix of the committed chain
(`SnapshotIsPrefix`), that what a transaction has written continues the committed
chain under new keys (`WritesExtend`), that a claim's handles are written or still
to do (`ClaimIsPending`) and that the lock's holder is the one appender
(`LocksAgree`). From it: `CommittedChainsVerify`, `ClaimsAreExclusive`,
`LockSufficesAtReadCommitted`, `ChainIsAppendOnly`. That a commit is one call of
`AuditLedger` needs more than that the chain verifies: `LedgerInv` adds what each
transaction owes. Together, what it has written and what it still has to do are one
event or one whole claim in its order (`UnderWay`), and it has written no key twice. It
is inductive (`LedgerInvariant`), and `ChainImplementsLedger` maps a commit to `Grant` or
`Record`, or to a stutter when the event was there already.

**Workflow runs.** A committed transition is legal because what its transaction
saw is still true. `RunsInv` says so: an open transaction's transition is legal in
its snapshot (`LegalInSnapshot`), the snapshot is the current one unless an event
has been appended since (`SnapshotIsDated`), and a transaction that is about to
commit holds the advisory lock and has seen every event. So `Commit` is a step of
`Workflow` (`CommitIsAtomic`), and `AtomicAggregate` and `AtomicEvents` show what such
a step preserves. From it: `AggregateIsRight`, `EventLogIsComplete`,
`EndedRunsAreQuiet`, `RunsImplementWorkflow`.

`TransitionsNeverDeadlock` is the safety half of `EveryTransitionEnds`, for any number of
transactions: of any set of them one waits for none of the others (`NoRingOfWaiters`),
although a cascade takes the steps in no fixed order. `LocksAgree` is why: a transaction
locks its own row first, only a cascade locks others, and the holder of the advisory
lock has nothing left to lock. So whoever is past its rows goes on, or waits for the
advisory lock only, which nobody who still wants rows has; if all still want rows, the
one that has begun is the cascade that holds the run's row, and the others, who have not
got their first row, hold nothing it could wait for.

**Starts.** A commit creates the run of a key that is free, which is not visible in
the commit itself. `StartInv` carries it there: an open insert is the only holder of
its key and no committed row has it; what an attempt has checked, and whatever is
releasable now, has been releasable during the attempt, and an attempt past a gate has
what the gate asks for (`CallOK`); and whoever has committed a run is over, so a refused
caller has none. `RunsAreApproved` is a step property under it, since a commit is the one
step that adds a run (`OnlyCommitAdds`). From the same invariant:
`StartsImplementStartOnce` (every step is a step of `StartOnce` or a stutter) and
`UnpaddedStartsFindTheWinner`.

**External release.** `SpentWasInForce` relates a row to a moment that may be long
past, and no gate reads version and approval together. `ReleaseInv` carries the fact
through the call: an approval that has left "open" came too late, or names an existing
version and was in force if that version is still current (`InForceIsKept`, `Kept`); so a consuming call that has
found the version current, for a receipt on record whose approval was no longer open
(`RecordsAreSound`), has an approval that was in force (`CallIsSound`), whatever
happens next. The lock's holder is the one call that has appended, and its keys are
free. From it: `HandedAreRecorded`, `ActsOnce`, `SpentInForce`,
`CallsImplementReleaseOnce`. `LapsedKeysAreLost` is a step property under it: whoever
presents a receipt presents the one on record, and that one does not verify any more.

**Opportunities.** `DeskInv` says that what a command has read under the lock still
stands when it writes (`ReadsStand`), because whoever could change it, a qualification
that commits or a link that is removed, needs the lock to append; the registration is
the one exception and is left out of it. A restore needs the lock to commit as well, and
writes the row it has claimed as it was but for the archive (`Restored`). That an audit row's key is unused by then
makes events and rows grow together. From it: `MovesAreAudited`, `MergesFindNamesakes`,
`CallsImplementDealDesk`.

`TrailIsWhole` is about the whole history of a deal, of which a step sees the last stage
only. Where a deal is, it has been (`HereIsReached`), and every step leaves all deals
where they are or makes one move that the rules allow on what was read before
(`StepsMove`). `PathInv` adds what the moves add up to: above its start a deal has been at
every stage up to the highest it has reached, and beyond LEAD it has an assessment, which
is never taken away. It is inductive (`PathInvariant`), because a legal move climbs one
stage at most and leaves an outcome only for the other (`LegalMove`).

`FirstAssessmentIsSingle` is the part of `OneWinnerPerRevision` that the code keeps. A
first assessment is an INSERT that finds no row; `FirstInv` says that a deal with an
assessment on record has a row, so that none is on record when one is made. The
violated run shows that this does not go on to the revisions after it.

**Quotes.** `QuoteInv` says that the quote lock has one holder for an opportunity, that
what the holder has read of the quotes stands (`ReadsStand`), that an artifact's pointer
is at its highest version (`VersionIsSound`) and that an uncommitted version is the only
one of its artifact and expects the pointer where it is (`HoldersAreSound`). So the
commit appends the next quote of the line to the one artifact. From it: `LineIsWhole`,
`CallsImplementQuoteBook`.

That the artifact's versions have no gap and no content twice, and that a caller is told
of success exactly if its rows are there, needs `BookInv` on top of it. An insert has
compared its content with the committed versions, and none of its artifact can be
committed before it (`HoldersAreNew`). And `createArtifactVersion` answers with success
and no new row when the content is the current one already, which would leave a quote
without a version; no quote meets that, because its content is its own
(`ContentsAreOwn`, `QuotesAreNews`). From both: `ArtifactIsOne`, `TrailIsTold`, and
`VersionsStand`, that a published version, which approvals are bound to, never changes
and the pointer moves by one to a new one.

Every invariant of a passing run is proved, and every action property and refinement.
Only model-checked: `EveryCallEnds`, `EveryTransitionEnds` and `EveryStartEnds` (liveness
under fairness is out of the prover's reach), and the violations.

## 6. What is not modelled

The repository is large (some 1,200 files of implementation) and most of it is not
stateful protocol: pages that parse a request and call one service, generators of
documents and configuration, text classification rules, prompts, contract test scripts.
A model of those would restate them. What is modelled is the part in which several
transactions meet. Listed here is what is left, with the reason; the same components
have the status `not_modelled` or `partly` in `PROJECT.json`.

Left because the code does not get as far as the behaviour worth checking:

- **Ownership transfer.** The CHECK `ownership_transfers_shape_chk` (migration
  `20260716004200`, line 436) asks for `execute_input_hash` in a completed transfer, and
  `ownership-transfer.ts:290-299` never sets it, so that completing always fails. A
  requested transfer then blocks the decision of its role change for good.
- **Retention.** `retention-service.ts:130` stores the user's id as `actorAssignmentId`,
  whose foreign key `retention_runs_actor_assignment_id_fkey` points to
  `user_company_roles`, so that no preview is stored and no purge can follow one. The
  race of a legal hold with a purge is worth a model once that works.
- **Resilience, parallel executor.** `CircuitBreaker` and `ParallelExecutor` are not used
  by any other module of the repository.

Left because there is nothing to interleave:

- **Nonce authority**: one INSERT under a primary key, in an object that serves one
  request at a time. A retry after a lost answer is told the nonce is used, as it is.
- **Scheduler**: a run is recorded in two transactions around its handler, and nothing
  recovers one that a crash left RUNNING. The code promises nothing about it.
- **Support**: status graphs over single rows. `vendor-request.ts` reads a revision and
  then updates by id alone, so that one of two concurrent changes is lost; the plan
  (`canonical-design-ledger.md:102`) says "one serializable idempotent transaction". The
  hazard is listed.
- **Connector state, mail classification, domain AI, skills, web pages, scripts**: pure
  functions, or I/O.

Left for want of room, though a model checker would reach it:

- **Sessions and MFA**: revocation against a request in flight, reuse of a code.
- **AI quality and release evaluation**: leases of evaluation jobs.
- **Catalog**: activation of one rule version by a CAS.
- **Finance API**: postings against a month close, invoices delivered twice.
- **Workflow definitions**: versions and their activation; a start takes their effect as
  an approval that comes and goes.
- **Commercial release and discount approval**: the same gate in front of a status change.
- **Opportunities**: `assignOwner` (`opportunity-center.ts:810-872`), which takes the
  chain's lock like the other commands and writes the owner and the row's token;
  `dealStatus`; checklists and issues of a proof of concept; contacts. The archive
  commands restore customers, partners, contacts, tasks and proofs of concept by the same
  code, on rows that no module has.
- **Quotes**: prices, margins and catalog rules; approval and sending of a quote.

Left out of every model: cryptography and token formats, and tenant scoping, which is a
filter on every query (the models take place inside one company or project).
