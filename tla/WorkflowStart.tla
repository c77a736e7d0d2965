---------------------------- MODULE WorkflowStart -----------------------------
(***************************************************************************)
(* startWorkflowRun (packages/business/src/orchestration/workflow-runtime  *)
(* .ts): concurrent and repeated starts of workflow runs under one         *)
(* definition that is active.                                              *)
(*                                                                         *)
(* An attempt is a READ COMMITTED transaction: each check reads the        *)
(* committed state of its own moment.  The insert of a run waits for an    *)
(* open transaction that has inserted the same key, and is refused by      *)
(* workflow_runs_project_id_idempotency_key_key if that one commits.  The  *)
(* transaction is aborted then, and the lookup that startWithClient makes  *)
(* inside it fails with an error of the client library's choosing: the     *)
(* caller of the transaction sees a code it retries, or another one, and   *)
(* both are possible here.                                                 *)
(*                                                                         *)
(* Keys are trimmed when they are inserted and not when they are looked    *)
(* up: a call is about a trimmed key and knows whether its own spelling of *)
(* it is padded.  A definition and a normalised input are one value.  The  *)
(* steps, the run.created event and the audit row are written with the run *)
(* or not at all and are left out, like scope and assignments; a call with *)
(* a transaction of its caller's (nobody in the repository makes one) has  *)
(* no second attempt and is left out too.                                  *)
(***************************************************************************)
EXTENDS Naturals

CONSTANTS
    Calls,                  \* calls of startWorkflowRun
    Keys,                   \* trimmed idempotency keys of the project
    Inputs,                 \* pairs of a definition and a normalised input
    Requests,               \* what the calls may ask for
    START_TRANSACTION_MAX_ATTEMPTS,
    None                    \* no run, no request

Request == [key : Keys, padded : BOOLEAN, input : Inputs, approval : BOOLEAN]

ASSUME StartConstants ==
    /\ START_TRANSACTION_MAX_ATTEMPTS \in Nat \ {0}
    /\ Requests \subseteq Request
    /\ None \notin Calls \cup Request \cup [key : Keys, input : Inputs]

VARIABLES
    required,   \* requiresRunApproval of the definition, which does not change
    valid,      \* the actions whose approval is releasable now
    runs,       \* the committed workflow_runs rows
    call        \* the calls

vars == <<required, valid, runs, call>>

Gates == {"workflow.activate", "workflow.run"}
Phases == {"idle", "lookup", "activation", "gate", "insert", "commit", "recover", "done"}
InTransaction == {"lookup", "activation", "gate", "insert", "commit"}
Answers == [kind : {"none", "run", "conflict", "refused", "exhausted", "failed"},
            run : Calls \cup {None}]
Answer(kind, run) == [kind |-> kind, run |-> run]

Run == [key : Keys, input : Inputs, by : Calls, gates : SUBSET Gates]

\* gates are the approvals the attempt has checked; since, those that were releasable when the
\* attempt began or have become so during it (history).
Call == [pc : Phases, asked : Request \cup {None}, attempt : 0..START_TRANSACTION_MAX_ATTEMPTS - 1,
         gates : SUBSET Gates, since : SUBSET Gates, answer : Answers]
Idle == [pc |-> "idle", asked |-> None, attempt |-> 0, gates |-> {}, since |-> {},
         answer |-> Answer("none", None)]

Init ==
    /\ required \in BOOLEAN
    /\ valid \in SUBSET Gates
    /\ runs = {}
    /\ call = [c \in Calls |-> Idle]

\* The call begins its attempt n.
Attempts(c, q, n) ==
    call' = [call EXCEPT ![c] = [pc |-> "lookup", asked |-> q, attempt |-> n, gates |-> {},
                                 since |-> valid, answer |-> Answer("none", None)]]

\* The call goes on, with the approvals gs checked as well.
GoesOn(c, pc, gs) ==
    call' = [call EXCEPT ![c] = [call[c] EXCEPT !.pc = pc, !.gates = call[c].gates \cup gs]]

\* The attempt is over, and what it has seen is forgotten.
Abandons(c) ==
    call' = [call EXCEPT ![c] = [call[c] EXCEPT !.pc = "recover", !.gates = {}, !.since = {}]]

\* A call that ends keeps what it asked and what it was told.
Ends(c, a) ==
    call' = [call EXCEPT ![c] = [pc |-> "done", asked |-> call[c].asked, attempt |-> 0, gates |-> {},
                                 since |-> {}, answer |-> a]]

-----------------------------------------------------------------------------
\* Slip: an existing run is returned without comparing what it was started with.
RepliesWithoutComparing(c, r) == Ends(c, Answer("run", r.by))

\* existingRunForIdempotency: what a call makes of the run it has found.
RepliesWith(c, r) ==
    Ends(c, IF r.input = call[c].asked.input THEN Answer("run", r.by) ELSE Answer("conflict", None))

\* existingRunForIdempotency: the lookup is by the spelling of the call, the rows hold trimmed keys.
Found(c) == {r \in runs : r.key = call[c].asked.key /\ ~call[c].asked.padded}

Start(c) ==
    /\ call[c].pc = "idle"
    /\ \E q \in Requests : Attempts(c, q, 0)
    /\ UNCHANGED <<required, valid, runs>>

Lookup(c) ==
    /\ call[c].pc = "lookup"
    /\ \/ \E r \in Found(c) : RepliesWith(c, r)
       \/ Found(c) = {} /\ GoesOn(c, "activation", {})
    /\ UNCHANGED <<required, valid, runs>>

\* Slip: the activation snapshot of the definition is taken for a valid approval.
TrustsTheSnapshot(c) ==
    /\ call[c].pc = "activation"
    /\ GoesOn(c, "gate", {"workflow.activate"})
    /\ UNCHANGED <<required, valid, runs>>

\* assertCurrentActivation.
CheckActivation(c) ==
    /\ call[c].pc = "activation"
    /\ \/ "workflow.activate" \in valid /\ GoesOn(c, "gate", {"workflow.activate"})
       \/ "workflow.activate" \notin valid /\ Ends(c, Answer("refused", None))
    /\ UNCHANGED <<required, valid, runs>>

\* runGateSnapshot: an approval that is given is checked, needed or not.
CheckRunGate(c) ==
    /\ call[c].pc = "gate"
    /\ \/ /\ ~call[c].asked.approval /\ ~required
          /\ GoesOn(c, "insert", {})
       \/ call[c].asked.approval /\ "workflow.run" \in valid /\ GoesOn(c, "insert", {"workflow.run"})
       \/ /\ IF call[c].asked.approval THEN "workflow.run" \notin valid ELSE required
          /\ Ends(c, Answer("refused", None))
    /\ UNCHANGED <<required, valid, runs>>

-----------------------------------------------------------------------------
InsertedBy(d, k) == call[d].pc = "commit" /\ call[d].asked.key = k

\* workflowRun.create under workflow_runs_project_id_idempotency_key_key.
Insert(c) ==
    /\ call[c].pc = "insert"
    /\ \A d \in Calls : ~InsertedBy(d, call[c].asked.key)
    /\ IF \E r \in runs : r.key = call[c].asked.key
       THEN Abandons(c) \/ Ends(c, Answer("failed", None))
       ELSE GoesOn(c, "commit", {})
    /\ UNCHANGED <<required, valid, runs>>

\* The commit, whose acknowledgement may be lost on the way.
Commit(c) ==
    /\ call[c].pc = "commit"
    /\ runs' = runs \cup {[key |-> call[c].asked.key, input |-> call[c].asked.input, by |-> c,
                           gates |-> call[c].gates]}
    /\ Ends(c, Answer("run", c)) \/ Ends(c, Answer("failed", None))
    /\ UNCHANGED <<required, valid>>

\* P2034: the database gave the transaction up, for a deadlock say.
WriteConflict(c) ==
    /\ call[c].pc \in InTransaction
    /\ Abandons(c)
    /\ UNCHANGED <<required, valid, runs>>

\* Any other error of the transaction or of the recovery read reaches the caller.
Break(c) ==
    /\ call[c].pc \in InTransaction \cup {"recover"}
    /\ Ends(c, Answer("failed", None))
    /\ UNCHANGED <<required, valid, runs>>

\* Slip: the last turn is taken twice.
RetryOnceMore(c) ==
    IF call[c].attempt < START_TRANSACTION_MAX_ATTEMPTS
    THEN Attempts(c, call[c].asked, call[c].attempt + 1)
    ELSE Ends(c, Answer("exhausted", None))

\* Slip: the attempts are not counted.
RetryUncounted(c) == Attempts(c, call[c].asked, call[c].attempt)

\* The end of the loop's body, and the next turn of it if there is one.
Retry(c) ==
    IF call[c].attempt + 1 < START_TRANSACTION_MAX_ATTEMPTS
    THEN Attempts(c, call[c].asked, call[c].attempt + 1)
    ELSE Ends(c, Answer("exhausted", None))

\* Slip: the loser of the race gives up its turn without looking for the winner.
RecoverBlindly(c) ==
    /\ call[c].pc = "recover"
    /\ Retry(c)
    /\ UNCHANGED <<required, valid, runs>>

\* The lookup in a fresh transaction.
Recover(c) ==
    /\ call[c].pc = "recover"
    /\ \/ \E r \in Found(c) : RepliesWith(c, r)
       \/ Found(c) = {} /\ Retry(c)
    /\ UNCHANGED <<required, valid, runs>>

\* Environment: an approval is revoked, becomes stale or expires.
Revoke ==
    /\ \E g \in valid : valid' = valid \ {g}
    /\ UNCHANGED <<required, runs, call>>

\* Environment: an approval is granted, or what kept it from being releasable is over.  The
\* attempts that are under way have seen it, if they look.  (The kernel brings no revoked
\* approval back, so this allows more than it does.)
Grant ==
    /\ \E g \in Gates \ valid :
          /\ valid' = valid \cup {g}
          /\ call' = [c \in Calls |->
                         IF call[c].pc \in InTransaction
                         THEN [call[c] EXCEPT !.since = call[c].since \cup {g}] ELSE call[c]]
    /\ UNCHANGED <<required, runs>>

\* What a call does by itself.
Proceeds(c) ==
    Lookup(c) \/ CheckActivation(c) \/ CheckRunGate(c) \/ Insert(c) \/ Commit(c) \/ Recover(c)

Next == Revoke \/ Grant \/ \E c \in Calls : Start(c) \/ Proceeds(c) \/ WriteConflict(c) \/ Break(c)

Spec == Init /\ [][Next]_vars

\* A statement and a timer end, and the lock on a key is granted when its holder is gone: a call
\* that can go on does.  Nothing obliges a call to fail, and nothing is assumed of the callers.
FairSpec == Spec /\ \A c \in Calls : WF_vars(Proceeds(c))

-----------------------------------------------------------------------------
\* Runs, approvals and calls have their declared shape, and no attempt follows the last one.
TypeOK ==
    /\ required \in BOOLEAN /\ valid \subseteq Gates
    /\ runs \subseteq Run /\ call \in [Calls -> Call]

\* The runs that the step adds have the approvals they need, each of them releasable during the
\* attempt that adds them.
AddsApprovedRuns ==
    \A r \in runs' \ runs :
        /\ "workflow.activate" \in r.gates
        /\ required => "workflow.run" \in r.gates
        /\ r.gates \subseteq call[r.by].since

\* A run records the approvals its start has checked.  The activation is among them, and the run
\* approval where the definition asks for it; and each was releasable at some moment of the very
\* attempt that creates the run, however many attempts the call has made before and whatever was
\* granted and revoked meanwhile (assertCurrentActivation and runGateSnapshot in every attempt).
CreatedUnderApproval == [][AddsApprovedRuns]_vars

\* What is true of a call by itself, given what is releasable.
CallOK(x) ==
    /\ x.pc # "idle" <=> x.asked \in Request
    /\ x.answer = Answer("none", None) <=> x.pc # "done"
    /\ x.pc \in InTransaction => valid \cup x.gates \subseteq x.since
    /\ x.pc \in {"gate", "insert", "commit"} => "workflow.activate" \in x.gates
    /\ x.pc \in {"insert", "commit"} /\ required => "workflow.run" \in x.gates

\* The inductive invariant: an open insert is the only holder of its key, and a call that has
\* committed its run is over.
StartInv ==
    /\ TypeOK
    /\ \A c \in Calls : CallOK(call[c])
    /\ \A c \in Calls : call[c].pc = "commit" =>
          /\ \A d \in Calls \ {c} : ~InsertedBy(d, call[c].asked.key)
          /\ \A r \in runs : r.key # call[c].asked.key
    /\ \A r \in runs : call[r.by].pc = "done"

\* The step does not tell c that its attempts are exhausted while a run with its key is committed.
ExhaustsWithoutWinner(c) ==
    call'[c].answer.kind = "exhausted" /\ call[c].answer.kind # "exhausted"
        => \A r \in runs : r.key # call[c].asked.key

\* A start whose key is not padded never runs out of attempts when a run with that key is
\* committed: the loser of a race is given the winner, from a fresh transaction.
UnpaddedWinnerIsResolved ==
    [][\A c \in Calls : call[c].pc # "idle" /\ ~call[c].asked.padded => ExhaustsWithoutWinner(c)]_vars

\* "resolve the committed winner by the same normalized idempotency comparison" (lines 259-261 of
\* workflow-runtime.ts): the same of every start.  Does not hold.
WinnerIsResolved == [][\A c \in Calls : ExhaustsWithoutWinner(c)]_vars

Asked(x) == IF x.pc = "idle" THEN None ELSE [key |-> x.asked.key, input |-> x.asked.input]
Shown(r) == [key |-> r.key, input |-> r.input, by |-> r.by]

\* What the callers see of the interleaved attempts is what StartOnce allows: one run per key,
\* and the right answer to each call.
Abstract == INSTANCE StartOnce WITH
    asked <- [c \in Calls |-> Asked(call[c])],
    runs <- {Shown(r) : r \in runs},
    answer <- [c \in Calls |-> call[c].answer]
ImplementsStartOnce == Abstract!Spec

\* Every start ends, with a run or without: it waits for an inserter of its key at most as long
\* as that one's transaction, and its attempts are counted.
EveryStartEnds == \A c \in Calls : call[c].pc # "idle" ~> call[c].pc = "done"
===============================================================================
