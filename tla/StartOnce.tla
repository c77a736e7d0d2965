------------------------------ MODULE StartOnce -------------------------------
(***************************************************************************)
(* What startWorkflowRun promises its callers                              *)
(* (packages/business/src/orchestration/workflow-runtime.ts:256: "immutable*)
(* U019 snapshots and DB-unique idempotency"): a key names at most one     *)
(* run, whoever asks for it and however often; a caller is given the run   *)
(* of its own key and input, or told of a conflict when the key is bound   *)
(* to another input; a caller that is refused has created nothing.  Only a *)
(* failure of the connection leaves the caller without knowledge.          *)
(***************************************************************************)
CONSTANTS
    Calls,      \* calls of startWorkflowRun; a run is named by the call that created it
    Keys,       \* idempotency keys of the project, trimmed
    Inputs,     \* pairs of a definition and a normalised input
    None        \* nothing yet

VARIABLES
    asked,      \* what each call asked for
    runs,       \* the committed workflow_runs rows
    answer      \* what each call was told

vars == <<asked, runs, answer>>

Answer(kind, run) == [kind |-> kind, run |-> run]

Init ==
    /\ asked = [c \in Calls |-> None]
    /\ runs = {}
    /\ answer = [c \in Calls |-> Answer("none", None)]

Ask(c) ==
    /\ asked[c] = None
    /\ \E k \in Keys, i \in Inputs : asked' = [asked EXCEPT ![c] = [key |-> k, input |-> i]]
    /\ UNCHANGED <<runs, answer>>

Waiting(c) == asked[c] # None /\ answer[c] = Answer("none", None)

Creates(c) ==
    /\ \A r \in runs : r.key # asked[c].key /\ r.by # c
    /\ runs' = runs \cup {[key |-> asked[c].key, input |-> asked[c].input, by |-> c]}

\* What may be said to c once the rows are rs.
Truthful(c, a, rs) ==
    \/ \E r \in rs : /\ r.key = asked[c].key /\ r.input = asked[c].input
                     /\ a = Answer("run", r.by)
    \/ \E r \in rs : /\ r.key = asked[c].key /\ r.input # asked[c].input
                     /\ a = Answer("conflict", None)
    \/ /\ a \in {Answer("refused", None), Answer("exhausted", None)}
       /\ \A r \in rs : r.by # c
    \/ a = Answer("failed", None)

\* The run is committed and the answer given at once; or the answer is given without a new run.
Reply(c) ==
    /\ Waiting(c) /\ UNCHANGED asked
    /\ Creates(c) \/ UNCHANGED runs
    /\ \E a \in [kind : {"run", "conflict", "refused", "exhausted", "failed"}, run : Calls \cup {None}] :
          answer' = [answer EXCEPT ![c] = a] /\ Truthful(c, a, runs')

Next == \E c \in Calls : Ask(c) \/ Reply(c)

Spec == Init /\ [][Next]_vars
===============================================================================
