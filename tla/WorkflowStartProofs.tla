-------------------------- MODULE WorkflowStartProofs -------------------------
(***************************************************************************)
(* Proofs about WorkflowStart, for every set of calls, keys and inputs,    *)
(* padded or not, and every number of attempts.                            *)
(***************************************************************************)
EXTENDS WorkflowStart, TLAPS

\* The initial state satisfies the invariant.
LEMMA StartInvInit == Init => StartInv
<1> SUFFICES ASSUME Init PROVE StartInv
  OBVIOUS
<1> USE StartConstants DEF Init
<1>1. Idle \in Call
  BY DEF Idle, Call, Phases, Answers, Answer
<1>2. TypeOK
  BY <1>1 DEF TypeOK
<1>3. \A c \in Calls : CallOK(call[c])
  BY DEF CallOK, Idle, InTransaction
<1>4. QED
  BY <1>2, <1>3 DEF StartInv, Idle

\* A step that changes one call and no rows.
LEMMA OnlyCallMoves ==
    ASSUME StartInv, NEW c \in Calls, NEW y \in Call, call' = [call EXCEPT ![c] = y],
           UNCHANGED <<required, valid, runs>>, call[c].pc # "done", CallOK(y),
           y.pc = "commit" => /\ \A d \in Calls \ {c} : ~InsertedBy(d, y.asked.key)
                              /\ \A r \in runs : r.key # y.asked.key
    PROVE  StartInv'
<1> USE DEF StartInv
<1>1. call \in [Calls -> Call] /\ runs \subseteq Run
  BY DEF TypeOK
<1>2. \A d \in Calls : call'[d] = IF d = c THEN y ELSE call[d]
  BY <1>1
<1>3. TypeOK'
  BY <1>1 DEF TypeOK
<1>4. (\A d \in Calls : CallOK(call[d]))'
  <2> SUFFICES ASSUME NEW d \in Calls PROVE CallOK(call[d])'
    OBVIOUS
  <2>1. CallOK(call[d]) /\ (d = c => CallOK(y))
    OBVIOUS
  <2>2. call'[d] = IF d = c THEN y ELSE call[d]
    BY <1>2
  <2>3. QED
    BY <2>1, <2>2 DEF CallOK
<1>5. (\A d \in Calls : call[d].pc = "commit" =>
          /\ \A e \in Calls \ {d} : ~InsertedBy(e, call[d].asked.key)
          /\ \A r \in runs : r.key # call[d].asked.key)'
  BY <1>2 DEF InsertedBy
<1>6. (\A r \in runs : call[r.by].pc = "done")'
  BY <1>1, <1>2 DEF Run
<1>7. QED
  BY <1>3, <1>4, <1>5, <1>6

\* A call that begins an attempt.
LEMMA AttemptsInv ==
    ASSUME StartInv, NEW c \in Calls, NEW q \in Request,
           NEW n \in 0..START_TRANSACTION_MAX_ATTEMPTS - 1, Attempts(c, q, n),
           UNCHANGED <<required, valid, runs>>, call[c].pc # "done"
    PROVE  StartInv'
<1> DEFINE y == [pc |-> "lookup", asked |-> q, attempt |-> n, gates |-> {}, since |-> valid,
                 answer |-> Answer("none", None)]
<1>1. y \in Call
  BY DEF StartInv, TypeOK, Call, Phases, Answers, Answer
<1>2. CallOK(y) /\ y.pc = "lookup"
  BY DEF CallOK, InTransaction
<1>3. call' = [call EXCEPT ![c] = y]
  BY DEF Attempts
<1> HIDE DEF y
<1>4. QED
  BY <1>1, <1>2, <1>3, OnlyCallMoves

\* A call that ends without a new row.
LEMMA EndsInv ==
    ASSUME StartInv, NEW c \in Calls, NEW a \in Answers, a.kind # "none", Ends(c, a),
           UNCHANGED <<required, valid, runs>>, call[c].pc \notin {"idle", "done"}
    PROVE  StartInv'
<1> DEFINE y == [pc |-> "done", asked |-> call[c].asked, attempt |-> 0, gates |-> {}, since |-> {},
                 answer |-> a]
<1>1. call[c].asked \in Request
  BY DEF StartInv, CallOK
<1>2. y \in Call
  BY <1>1, StartConstants DEF Call, Phases
<1>3. CallOK(y) /\ y.pc = "done"
  BY <1>1 DEF CallOK, InTransaction, Answer
<1>4. call' = [call EXCEPT ![c] = y]
  BY DEF Ends
<1> HIDE DEF y
<1>5. QED
  BY <1>2, <1>3, <1>4, OnlyCallMoves

\* A call that goes on to another phase, perhaps with one more approval checked.
LEMMA GoesOnInv ==
    ASSUME StartInv, NEW c \in Calls, NEW pc \in InTransaction,
           NEW g \in SUBSET valid, call[c].pc \in InTransaction,
           GoesOn(c, pc, g), UNCHANGED <<required, valid, runs>>,
           pc \in {"gate", "insert", "commit"} => "workflow.activate" \in call[c].gates \cup g,
           pc \in {"insert", "commit"} /\ required
               => "workflow.run" \in call[c].gates \cup g,
           pc = "commit" => /\ \A d \in Calls \ {c} : ~InsertedBy(d, call[c].asked.key)
                            /\ \A r \in runs : r.key # call[c].asked.key
    PROVE  StartInv'
<1> DEFINE y == [call[c] EXCEPT !.pc = pc, !.gates = call[c].gates \cup g]
<1>1. call[c] \in Call /\ CallOK(call[c]) /\ valid \subseteq Gates
  BY DEF StartInv, TypeOK
<1>2. y \in Call
  BY <1>1 DEF Call, Phases, InTransaction
<1>3. /\ y.pc = pc /\ y.gates = call[c].gates \cup g /\ y.asked = call[c].asked
      /\ y.since = call[c].since /\ y.answer = call[c].answer
  BY <1>1 DEF Call
<1>4. call' = [call EXCEPT ![c] = y]
  BY DEF GoesOn
<1> HIDE DEF y
<1>5. CallOK(y)
  BY <1>1, <1>3 DEF CallOK, InTransaction
<1>6. call[c].pc # "done"
  BY DEF InTransaction
<1>7. y.pc = "commit" => /\ \A d \in Calls \ {c} : ~InsertedBy(d, y.asked.key)
                         /\ \A r \in runs : r.key # y.asked.key
  BY <1>3
<1>8. QED
  BY <1>2, <1>4, <1>5, <1>6, <1>7, OnlyCallMoves

\* An attempt that is over leaves nothing of what it has seen.
LEMMA AbandonsInv ==
    ASSUME StartInv, NEW c \in Calls, call[c].pc \in InTransaction, Abandons(c),
           UNCHANGED <<required, valid, runs>>
    PROVE  StartInv'
<1> DEFINE y == [call[c] EXCEPT !.pc = "recover", !.gates = {}, !.since = {}]
<1>1. call[c] \in Call /\ CallOK(call[c])
  BY DEF StartInv, TypeOK
<1>2. y \in Call
  BY <1>1 DEF Call, Phases
<1>3. y.pc = "recover" /\ y.asked = call[c].asked /\ y.answer = call[c].answer
  BY <1>1 DEF Call
<1>4. call' = [call EXCEPT ![c] = y]
  BY DEF Abandons
<1> HIDE DEF y
<1>5. CallOK(y) /\ call[c].pc # "done"
  BY <1>1, <1>3 DEF CallOK, InTransaction
<1>6. QED
  BY <1>2, <1>3, <1>4, <1>5, OnlyCallMoves

\* The answers that are given.
LEMMA GivenAnswers ==
    /\ \A c \in Calls : Answer("run", c) \in Answers /\ Answer("run", c).kind # "none"
    /\ \A k \in {"conflict", "refused", "exhausted", "failed"} :
          Answer(k, None) \in Answers /\ Answer(k, None).kind # "none"
BY DEF Answer, Answers

\* A call that replies with a run it has found.
LEMMA RepliesInv ==
    ASSUME StartInv, NEW c \in Calls, NEW r \in Found(c), RepliesWith(c, r),
           UNCHANGED <<required, valid, runs>>, call[c].pc \notin {"idle", "done"}
    PROVE  StartInv'
<1>1. r.by \in Calls
  BY DEF StartInv, TypeOK, Found, Run
<1>2. Ends(c, Answer("run", r.by)) \/ Ends(c, Answer("conflict", None))
  BY DEF RepliesWith
<1>3. QED
  BY <1>1, <1>2, EndsInv, GivenAnswers

\* The next turn of the loop, if there is one.
LEMMA RetryInv ==
    ASSUME StartInv, NEW c \in Calls, call[c].pc = "recover", Retry(c), UNCHANGED <<required, valid, runs>>
    PROVE  StartInv'
<1>1. CASE /\ call[c].attempt + 1 < START_TRANSACTION_MAX_ATTEMPTS
           /\ Attempts(c, call[c].asked, call[c].attempt + 1)
  <2>1. call[c] \in Call /\ CallOK(call[c])
    BY DEF StartInv, TypeOK
  <2>2. call[c].asked \in Request
    BY <2>1 DEF CallOK
  <2>3. call[c].attempt + 1 \in 0..START_TRANSACTION_MAX_ATTEMPTS - 1
    BY <1>1, <2>1, StartConstants DEF Call
  <2>4. QED
    BY <1>1, <2>2, <2>3, AttemptsInv
<1>2. CASE Ends(c, Answer("exhausted", None))
  BY <1>2, EndsInv, GivenAnswers
<1>3. QED
  BY <1>1, <1>2 DEF Retry

\* The two approval checks, which pass only what is releasable at their moment.
LEMMA ChecksInv ==
    ASSUME StartInv, NEW c \in Calls, CheckActivation(c) \/ CheckRunGate(c)
    PROVE  StartInv'
<1>1. CallOK(call[c])
  BY DEF StartInv
<1>2. CASE CheckActivation(c)
  <2>1. CASE "workflow.activate" \in valid /\ GoesOn(c, "gate", {"workflow.activate"})
    BY <1>2, <2>1, GoesOnInv DEF CheckActivation, InTransaction
  <2>2. CASE Ends(c, Answer("refused", None))
    BY <1>2, <2>2, EndsInv, GivenAnswers DEF CheckActivation
  <2>3. QED
    BY <1>2, <2>1, <2>2 DEF CheckActivation
<1>3. CASE CheckRunGate(c)
  <2>1. "workflow.activate" \in call[c].gates
    BY <1>1, <1>3 DEF CallOK, CheckRunGate
  <2>2. CASE ~required /\ GoesOn(c, "insert", {})
    BY <1>3, <2>1, <2>2, GoesOnInv DEF CheckRunGate, InTransaction
  <2>3. CASE "workflow.run" \in valid /\ GoesOn(c, "insert", {"workflow.run"})
    BY <1>3, <2>1, <2>3, GoesOnInv DEF CheckRunGate, InTransaction
  <2>4. CASE Ends(c, Answer("refused", None))
    BY <1>3, <2>4, EndsInv, GivenAnswers DEF CheckRunGate
  <2>5. QED
    BY <1>3, <2>2, <2>3, <2>4 DEF CheckRunGate
<1>4. QED
  BY <1>2, <1>3

\* The insert, which waits for an open one of the same key and fails on a committed one.
LEMMA InsertInv == ASSUME StartInv, NEW c \in Calls, Insert(c) PROVE StartInv'
<1>1. CallOK(call[c]) /\ call[c].pc = "insert" /\ UNCHANGED <<required, valid, runs>>
  BY DEF StartInv, Insert
<1>2. CASE Abandons(c)
  BY <1>1, <1>2, AbandonsInv DEF InTransaction
<1>3. CASE Ends(c, Answer("failed", None))
  BY <1>1, <1>3, EndsInv, GivenAnswers
<1>4. CASE GoesOn(c, "commit", {}) /\ \A r \in runs : r.key # call[c].asked.key
  <2>1. "workflow.activate" \in call[c].gates /\ (required => "workflow.run" \in call[c].gates)
    BY <1>1 DEF CallOK
  <2>2. \A d \in Calls \ {c} : ~InsertedBy(d, call[c].asked.key)
    BY DEF Insert
  <2>3. QED
    BY <1>1, <1>4, <2>1, <2>2, GoesOnInv DEF InTransaction
<1>5. QED
  BY <1>2, <1>3, <1>4 DEF Insert

\* The run that a call commits.
RunOf(c) == [key |-> call[c].asked.key, input |-> call[c].asked.input, by |-> c,
             gates |-> call[c].gates]

\* The commit: its key was free and nobody else was about to take it.
LEMMA CommitInv == ASSUME StartInv, NEW c \in Calls, Commit(c) PROVE StartInv'
<1>1. /\ call \in [Calls -> Call] /\ runs \subseteq Run /\ valid \subseteq Gates
      /\ required \in BOOLEAN /\ CallOK(call[c]) /\ call[c].pc = "commit" /\ call[c] \in Call
  BY DEF StartInv, TypeOK, Commit
<1>2. call[c].asked \in Request
  BY <1>1 DEF CallOK
<1>3. PICK a \in {Answer("run", c), Answer("failed", None)} : Ends(c, a)
  BY DEF Commit
<1>4. a \in Answers /\ a.kind # "none"
  BY GivenAnswers
<1> DEFINE y == [pc |-> "done", asked |-> call[c].asked, attempt |-> 0, gates |-> {}, since |-> {},
                 answer |-> a]
<1>5. y \in Call /\ y.pc = "done"
  BY <1>2, <1>4, StartConstants DEF Call, Phases
<1>6. CallOK(y)
  BY <1>2, <1>4 DEF CallOK, InTransaction, Answer
<1>7. call' = [call EXCEPT ![c] = y]
  BY <1>3 DEF Ends
<1> HIDE DEF y
<1>8. \A d \in Calls : call'[d] = IF d = c THEN y ELSE call[d]
  BY <1>1, <1>7
<1>9. runs' = runs \cup {RunOf(c)} /\ valid' = valid /\ required' = required
  BY DEF Commit, RunOf
<1>10. RunOf(c) \in Run /\ RunOf(c).by = c /\ RunOf(c).key = call[c].asked.key
  BY <1>1, <1>2 DEF RunOf, Run, Request, Call
<1>11. TypeOK'
  BY <1>1, <1>5, <1>7, <1>9, <1>10 DEF TypeOK
<1>12. (\A d \in Calls : CallOK(call[d]))'
  <2> SUFFICES ASSUME NEW d \in Calls PROVE CallOK(call[d])'
    OBVIOUS
  <2>1. CallOK(call[d]) /\ (d = c => CallOK(y))
    BY <1>6 DEF StartInv
  <2>2. QED
    BY <2>1, <1>8, <1>9 DEF CallOK
<1>13. (\A d \in Calls : call[d].pc = "commit" =>
          /\ \A e \in Calls \ {d} : ~InsertedBy(e, call[d].asked.key)
          /\ \A r \in runs : r.key # call[d].asked.key)'
  BY <1>1, <1>5, <1>8, <1>9, <1>10 DEF InsertedBy, StartInv
<1>14. (\A r \in runs : call[r.by].pc = "done")'
  BY <1>1, <1>5, <1>8, <1>9, <1>10 DEF StartInv, Run
<1>15. QED
  BY <1>11, <1>12, <1>12, <1>13, <1>14 DEF StartInv

\* A revocation takes nothing from what an attempt has seen.
LEMMA RevokeInv == ASSUME StartInv, Revoke PROVE StartInv'
<1>1. valid' \subseteq valid /\ UNCHANGED <<required, runs, call>>
  BY DEF Revoke
<1>2. TypeOK'
  BY <1>1 DEF StartInv, TypeOK
<1>3. (\A c \in Calls : CallOK(call[c]))'
  BY <1>1 DEF StartInv, CallOK
<1>4. QED
  BY <1>1, <1>2, <1>3 DEF StartInv, InsertedBy

\* A grant changes nothing of a call but what it has seen.
LEMMA GrantKeepsCalls ==
    ASSUME StartInv, NEW g \in Gates, NEW c \in Calls,
           call' = [d \in Calls |->
                      IF call[d].pc \in InTransaction
                      THEN [call[d] EXCEPT !.since = call[d].since \cup {g}] ELSE call[d]]
    PROVE  /\ call'[c] \in Call
           /\ call'[c].pc = call[c].pc /\ call'[c].asked = call[c].asked
           /\ call'[c].gates = call[c].gates /\ call'[c].answer = call[c].answer
           /\ call'[c].since = IF call[c].pc \in InTransaction THEN call[c].since \cup {g}
                               ELSE call[c].since
BY DEF StartInv, TypeOK, Call

\* A grant is seen by the attempts that are under way.
LEMMA GrantInv == ASSUME StartInv, Grant PROVE StartInv'
<1>1. PICK g \in Gates \ valid :
        /\ valid' = valid \cup {g}
        /\ call' = [c \in Calls |->
                      IF call[c].pc \in InTransaction
                      THEN [call[c] EXCEPT !.since = call[c].since \cup {g}] ELSE call[c]]
  BY DEF Grant
<1>2. UNCHANGED <<required, runs>>
  BY DEF Grant
<1>3. \A c \in Calls :
        /\ call'[c] \in Call
        /\ call'[c].pc = call[c].pc /\ call'[c].asked = call[c].asked
        /\ call'[c].gates = call[c].gates /\ call'[c].answer = call[c].answer
        /\ call'[c].since = IF call[c].pc \in InTransaction THEN call[c].since \cup {g}
                            ELSE call[c].since
  BY <1>1, GrantKeepsCalls
<1>4. TypeOK'
  <2>1. call' \in [Calls -> Call]
    BY <1>1, <1>3
  <2>2. QED
    BY <1>1, <1>2, <2>1 DEF StartInv, TypeOK
<1>5. (\A c \in Calls : CallOK(call[c]))'
  <2> SUFFICES ASSUME NEW c \in Calls PROVE CallOK(call[c])'
    OBVIOUS
  <2>1. CallOK(call[c])
    BY DEF StartInv
  <2>2. QED
    BY <1>1, <1>2, <1>3, <2>1 DEF CallOK
<1>6. (\A c \in Calls : call[c].pc = "commit" =>
          /\ \A d \in Calls \ {c} : ~InsertedBy(d, call[c].asked.key)
          /\ \A r \in runs : r.key # call[c].asked.key)'
  <2> SUFFICES ASSUME NEW c \in Calls, call'[c].pc = "commit"
               PROVE  /\ \A d \in Calls \ {c} : ~InsertedBy(d, call[c].asked.key)'
                      /\ \A r \in runs' : r.key # call'[c].asked.key
    OBVIOUS
  <2>1. /\ \A d \in Calls \ {c} : ~InsertedBy(d, call[c].asked.key)
        /\ \A r \in runs : r.key # call[c].asked.key
    BY <1>3 DEF StartInv
  <2>2. QED
    BY <1>2, <1>3, <2>1 DEF InsertedBy
<1>7. (\A r \in runs : call[r.by].pc = "done")'
  BY <1>2, <1>3 DEF StartInv, TypeOK, Run
<1>8. QED
  BY <1>4, <1>5, <1>6, <1>7 DEF StartInv

\* The invariant holds for every number of calls, keys, inputs and attempts.
THEOREM StartInvariant == Spec => []StartInv
<1>1. StartInv /\ [Next]_vars => StartInv'
  <2> SUFFICES ASSUME StartInv, [Next]_vars PROVE StartInv'
    OBVIOUS
  <2>1. CASE Revoke \/ Grant
    BY <2>1, RevokeInv, GrantInv
  <2>2. ASSUME NEW c \in Calls, Start(c) PROVE StartInv'
    BY <2>2, StartConstants, AttemptsInv DEF Start
  <2>3. ASSUME NEW c \in Calls, Lookup(c) PROVE StartInv'
    <3>1. CASE \E r \in Found(c) : RepliesWith(c, r)
      BY <2>3, <3>1, RepliesInv DEF Lookup
    <3>2. CASE GoesOn(c, "activation", {})
      BY <2>3, <3>2, GoesOnInv DEF Lookup, InTransaction
    <3>3. QED
      BY <2>3, <3>1, <3>2 DEF Lookup
  <2>4. ASSUME NEW c \in Calls, CheckActivation(c) \/ CheckRunGate(c) PROVE StartInv'
    BY <2>4, ChecksInv
  <2>5. ASSUME NEW c \in Calls, Insert(c) PROVE StartInv'
    BY <2>5, InsertInv
  <2>6. ASSUME NEW c \in Calls, Commit(c) PROVE StartInv'
    BY <2>6, CommitInv
  <2>7. ASSUME NEW c \in Calls, WriteConflict(c) PROVE StartInv'
    BY <2>7, AbandonsInv DEF WriteConflict
  <2>8. ASSUME NEW c \in Calls, Break(c) PROVE StartInv'
    BY <2>8, EndsInv, GivenAnswers DEF Break, InTransaction
  <2>9. ASSUME NEW c \in Calls, Recover(c) PROVE StartInv'
    <3>1. CASE \E r \in Found(c) : RepliesWith(c, r)
      BY <2>9, <3>1, RepliesInv DEF Recover
    <3>2. CASE Retry(c)
      BY <2>9, <3>2, RetryInv DEF Recover
    <3>3. QED
      BY <2>9, <3>1, <3>2 DEF Recover
  <2>10. CASE UNCHANGED vars
    BY <2>10 DEF vars, StartInv, TypeOK, CallOK, InsertedBy
  <2>11. QED
    BY <2>1, <2>2, <2>3, <2>4, <2>5, <2>6, <2>7, <2>8, <2>9, <2>10 DEF Next, Proceeds
<1>2. QED
  BY <1>1, StartInvInit, PTL DEF Spec

\* The valid approvals, the rows and the calls keep their shape, and no attempt is made after
\* the last one START_TRANSACTION_MAX_ATTEMPTS allows.
THEOREM TypeCorrect == Spec => []TypeOK
<1>1. StartInv => TypeOK
  BY DEF StartInv
<1>2. QED
  BY <1>1, StartInvariant, PTL

\* Only the commit adds a run, and it adds its own.
LEMMA OnlyCommitAdds ==
    ASSUME [Next]_vars, NEW r \in runs' \ runs
    PROVE  \E c \in Calls : call[c].pc = "commit" /\ r.by = c /\ r.gates = call[c].gates
<1>1. ASSUME runs' = runs PROVE FALSE
  BY <1>1
<1>2. \E c \in Calls : Commit(c)
  BY <1>1 DEF Next, vars, Revoke, Grant, Start, Proceeds, Lookup, CheckActivation, CheckRunGate,
              Insert, Recover, WriteConflict, Break
<1>3. QED
  BY <1>2 DEF Commit

\* No run is created without the approvals its definition asks for, each of them releasable at
\* some moment of the attempt that creates it.
THEOREM RunsAreApproved == Spec => CreatedUnderApproval
<1>1. StartInv /\ [Next]_vars => AddsApprovedRuns
  <2> SUFFICES ASSUME StartInv, [Next]_vars, NEW r \in runs' \ runs
               PROVE  /\ "workflow.activate" \in r.gates
                      /\ required => "workflow.run" \in r.gates
                      /\ r.gates \subseteq call[r.by].since
    BY DEF AddsApprovedRuns
  <2>1. PICK c \in Calls : call[c].pc = "commit" /\ r.by = c /\ r.gates = call[c].gates
    BY OnlyCommitAdds
  <2>2. CallOK(call[c])
    BY DEF StartInv
  <2>3. QED
    BY <2>1, <2>2 DEF CallOK, InTransaction
<1>2. QED
  BY <1>1, StartInvariant, PTL DEF Spec, CreatedUnderApproval

\* A step that tells nobody anything is none of StartOnce's.
LEMMA SilentStep ==
    ASSUME StartInv, NEW c \in Calls, NEW y, call' = [call EXCEPT ![c] = y],
           Asked(y) = Asked(call[c]), y.answer = call[c].answer, UNCHANGED runs
    PROVE  UNCHANGED Abstract!vars
<1>1. \A d \in Calls : call'[d] = IF d = c THEN y ELSE call[d]
  BY DEF StartInv, TypeOK
<1>2. [d \in Calls |-> Asked(call'[d])] = [d \in Calls |-> Asked(call[d])]
  BY <1>1
<1>3. [d \in Calls |-> call'[d].answer] = [d \in Calls |-> call[d].answer]
  BY <1>1
<1>4. QED
  BY <1>2, <1>3 DEF Abstract!vars, Asked

\* A call begins by asking.
LEMMA StartAsks == ASSUME StartInv, NEW c \in Calls, Start(c) PROVE Abstract!Ask(c)
<1>1. PICK q \in Request : Attempts(c, q, 0)
  BY StartConstants DEF Start
<1> DEFINE y == [pc |-> "lookup", asked |-> q, attempt |-> 0, gates |-> {}, since |-> valid,
                 answer |-> Answer("none", None)]
<1>2. /\ call' = [call EXCEPT ![c] = y] /\ y.pc = "lookup" /\ y.asked = q
      /\ y.answer = Answer("none", None)
  BY <1>1 DEF Attempts
<1> HIDE DEF y
<1>3. \A d \in Calls : call'[d] = IF d = c THEN y ELSE call[d]
  BY <1>2 DEF StartInv, TypeOK
<1>4. Asked(call[c]) = None /\ call[c].answer = Answer("none", None) /\ runs' = runs
  BY DEF Start, Asked, StartInv, CallOK
<1>5. Asked(y) = [key |-> q.key, input |-> q.input] /\ q.key \in Keys /\ q.input \in Inputs
  BY <1>2 DEF Asked, Request
<1>6. [d \in Calls |-> Asked(call'[d])]
        = [[d \in Calls |-> Asked(call[d])] EXCEPT ![c] = [key |-> q.key, input |-> q.input]]
  BY <1>3, <1>5
<1>7. [d \in Calls |-> call'[d].answer] = [d \in Calls |-> call[d].answer]
  BY <1>2, <1>3, <1>4
<1>8. QED
  BY <1>4, <1>5, <1>6, <1>7 DEF Abstract!Ask, Asked

\* A call that ends replies; rs are the rows after it.
LEMMA EndReplies ==
    ASSUME StartInv, NEW c \in Calls, NEW a \in Answers, a.kind # "none", Ends(c, a),
           call[c].pc \notin {"idle", "done"},
           Abstract!Creates(c) \/ UNCHANGED runs,
           Abstract!Truthful(c, a, {Shown(r) : r \in runs'})
    PROVE  Abstract!Reply(c)
<1> DEFINE y == [pc |-> "done", asked |-> call[c].asked, attempt |-> 0, gates |-> {}, since |-> {},
                 answer |-> a]
<1>1. call[c].asked \in Request /\ call[c].answer = Answer("none", None)
  BY DEF StartInv, CallOK
<1>2. call' = [call EXCEPT ![c] = y] /\ y.pc = "done" /\ y.asked = call[c].asked /\ y.answer = a
  BY DEF Ends
<1> HIDE DEF y
<1>3. \A d \in Calls : call'[d] = IF d = c THEN y ELSE call[d]
  BY <1>2 DEF StartInv, TypeOK
<1>4. Asked(call[c]) # None
  <2>1. [key |-> call[c].asked.key, input |-> call[c].asked.input] \in [key : Keys, input : Inputs]
    BY <1>1 DEF Request
  <2>2. QED
    BY <2>1, StartConstants DEF Asked
<1>5. Abstract!Waiting(c)
  BY <1>1, <1>4 DEF Abstract!Waiting, Abstract!Answer, Answer, Asked
<1>6. [d \in Calls |-> Asked(call'[d])] = [d \in Calls |-> Asked(call[d])]
  BY <1>2, <1>3 DEF Asked
<1>7. [d \in Calls |-> call'[d].answer] = [[d \in Calls |-> call[d].answer] EXCEPT ![c] = a]
  <2>1. \A d \in Calls : call'[d].answer = IF d = c THEN a ELSE call[d].answer
    BY <1>2, <1>3
  <2>2. QED
    BY <2>1
<1>8. a \in [kind : {"run", "conflict", "refused", "exhausted", "failed"}, run : Calls \cup {None}]
  BY DEF Answers
<1>9. Abstract!Creates(c) \/ {Shown(r) : r \in runs'} = {Shown(r) : r \in runs}
  OBVIOUS
<1>10. QED
  BY <1>5, <1>6, <1>7, <1>8, <1>9 DEF Abstract!Reply, Asked, Shown


\* A call whose run was not committed by itself may be refused, and any call may be failed.
LEMMA RefusalsAreTruthful ==
    ASSUME StartInv, NEW c \in Calls, call[c].pc # "done", UNCHANGED runs
    PROVE  \A k \in {"refused", "exhausted", "failed"} :
              Abstract!Truthful(c, Answer(k, None), {Shown(r) : r \in runs'})
<1>1. \A r \in {Shown(s) : s \in runs} : r.by # c
  BY DEF StartInv, Shown
<1>2. QED
  BY <1>1 DEF Abstract!Truthful, Abstract!Answer, Answer

\* A call that ends with a refusal or a failure, and no new row.
LEMMA RefusalReplies ==
    ASSUME StartInv, NEW c \in Calls, NEW k \in {"refused", "exhausted", "failed"},
           Ends(c, Answer(k, None)), UNCHANGED runs, call[c].pc \notin {"idle", "done"}
    PROVE  Abstract!Reply(c)
<1>1. Answer(k, None) \in Answers /\ Answer(k, None).kind # "none"
  BY GivenAnswers
<1>2. Abstract!Truthful(c, Answer(k, None), {Shown(r) : r \in runs'})
  BY RefusalsAreTruthful
<1>3. QED
  BY <1>1, <1>2, EndReplies

\* A call that finds a run of its key is told of it, or of the conflict with it.
LEMMA FoundReplies ==
    ASSUME StartInv, NEW c \in Calls, NEW r \in Found(c), RepliesWith(c, r), UNCHANGED runs,
           call[c].pc \notin {"idle", "done"}
    PROVE  Abstract!Reply(c)
<1>1. r \in runs /\ r \in Run /\ r.key = call[c].asked.key /\ r.by \in Calls
  BY DEF StartInv, TypeOK, Found, Run
<1>2. /\ Shown(r) \in {Shown(s) : s \in runs'} /\ Shown(r).key = r.key
      /\ Shown(r).input = r.input /\ Shown(r).by = r.by
  BY <1>1 DEF Shown
<1>3. CASE r.input = call[c].asked.input
  <2>1. Ends(c, Answer("run", r.by)) /\ Answer("run", r.by) \in Answers
        /\ Answer("run", r.by).kind # "none"
    BY <1>1, <1>3, GivenAnswers DEF RepliesWith
  <2>2. Abstract!Truthful(c, Answer("run", r.by), {Shown(s) : s \in runs'})
    BY <1>1, <1>2, <1>3 DEF Abstract!Truthful, Abstract!Answer, Answer, Asked
  <2>3. QED
    BY <2>1, <2>2, EndReplies
<1>4. CASE r.input # call[c].asked.input
  <2>1. Ends(c, Answer("conflict", None)) /\ Answer("conflict", None) \in Answers
        /\ Answer("conflict", None).kind # "none"
    BY <1>4, GivenAnswers DEF RepliesWith
  <2>2. Abstract!Truthful(c, Answer("conflict", None), {Shown(s) : s \in runs'})
    BY <1>1, <1>2, <1>4 DEF Abstract!Truthful, Abstract!Answer, Answer, Asked
  <2>3. QED
    BY <2>1, <2>2, EndReplies
<1>5. QED
  BY <1>3, <1>4

\* The commit creates the run of its key, whether the caller learns of it or not.
LEMMA CommitReplies == ASSUME StartInv, NEW c \in Calls, Commit(c) PROVE Abstract!Reply(c)
<1>1. call[c].pc = "commit" /\ runs' = runs \cup {RunOf(c)}
  BY DEF Commit, RunOf
<1>2. PICK a \in {Answer("run", c), Answer("failed", None)} : Ends(c, a)
  BY DEF Commit
<1>3. a \in Answers /\ a.kind # "none"
  BY GivenAnswers
<1>4. Shown(RunOf(c)) = [key |-> call[c].asked.key, input |-> call[c].asked.input, by |-> c]
  BY DEF Shown, RunOf
<1>5. {Shown(r) : r \in runs'} = {Shown(r) : r \in runs} \cup {Shown(RunOf(c))}
  BY <1>1
<1>6. \A r \in {Shown(s) : s \in runs} : r.key # call[c].asked.key /\ r.by # c
  BY <1>1 DEF StartInv, Shown
<1>7. Abstract!Creates(c)
  BY <1>1, <1>4, <1>5, <1>6 DEF Abstract!Creates, Asked
<1>8. Abstract!Truthful(c, a, {Shown(r) : r \in runs'})
  <2>1. Shown(RunOf(c)) \in {Shown(r) : r \in runs'}
    BY <1>5
  <2>2. QED
    BY <1>1, <1>2, <1>4, <2>1 DEF Abstract!Truthful, Abstract!Answer, Answer, Asked
<1>9. QED
  BY <1>1, <1>2, <1>3, <1>7, <1>8, EndReplies

\* A call that goes on, or begins another attempt, says nothing.
LEMMA GoingOnIsSilent ==
    ASSUME StartInv, NEW c \in Calls, NEW pc \in InTransaction, NEW g,
           GoesOn(c, pc, g), call[c].pc \notin {"idle", "done"}, UNCHANGED runs
    PROVE  UNCHANGED Abstract!vars
<1> DEFINE y == [call[c] EXCEPT !.pc = pc, !.gates = call[c].gates \cup g]
<1>1. /\ call' = [call EXCEPT ![c] = y] /\ y.pc = pc /\ y.asked = call[c].asked
      /\ y.answer = call[c].answer
  BY DEF GoesOn, StartInv, TypeOK, Call
<1> HIDE DEF y
<1>2. Asked(y) = Asked(call[c])
  BY <1>1 DEF Asked, InTransaction
<1>3. QED
  BY <1>1, <1>2, SilentStep

\* So does an attempt that is over.
LEMMA AbandoningIsSilent ==
    ASSUME StartInv, NEW c \in Calls, Abandons(c), call[c].pc \in InTransaction, UNCHANGED runs
    PROVE  UNCHANGED Abstract!vars
<1> DEFINE y == [call[c] EXCEPT !.pc = "recover", !.gates = {}, !.since = {}]
<1>1. /\ call' = [call EXCEPT ![c] = y] /\ y.pc = "recover" /\ y.asked = call[c].asked
      /\ y.answer = call[c].answer
  BY DEF Abandons, StartInv, TypeOK, Call
<1> HIDE DEF y
<1>2. Asked(y) = Asked(call[c])
  BY <1>1 DEF Asked, InTransaction
<1>3. QED
  BY <1>1, <1>2, SilentStep

\* A grant says nothing to anybody.
LEMMA GrantIsSilent == ASSUME StartInv, Grant PROVE UNCHANGED Abstract!vars
<1>1. \A c \in Calls : Asked(call'[c]) = Asked(call[c]) /\ call'[c].answer = call[c].answer
  BY GrantKeepsCalls DEF Grant, Asked
<1>2. [c \in Calls |-> Asked(call'[c])] = [c \in Calls |-> Asked(call[c])]
  BY <1>1
<1>3. [c \in Calls |-> call'[c].answer] = [c \in Calls |-> call[c].answer]
  BY <1>1
<1>4. QED
  BY <1>2, <1>3 DEF Grant, Abstract!vars, Asked

LEMMA RetryingIsSilent ==
    ASSUME StartInv, NEW c \in Calls, NEW n, Attempts(c, call[c].asked, n),
           call[c].pc = "recover", UNCHANGED runs
    PROVE  UNCHANGED Abstract!vars
<1> DEFINE y == [pc |-> "lookup", asked |-> call[c].asked, attempt |-> n, gates |-> {},
                 since |-> valid, answer |-> Answer("none", None)]
<1>1. /\ call' = [call EXCEPT ![c] = y] /\ y.pc = "lookup" /\ y.asked = call[c].asked
      /\ y.answer = call[c].answer
  BY DEF Attempts, StartInv, CallOK
<1> HIDE DEF y
<1>2. Asked(y) = Asked(call[c])
  BY <1>1 DEF Asked
<1>3. QED
  BY <1>1, <1>2, SilentStep

\* Every step of the interleaved attempts is a step of StartOnce or none.
LEMMA StepMaps == StartInv /\ [Next]_vars => [Abstract!Next]_(Abstract!vars)
<1> SUFFICES ASSUME StartInv, [Next]_vars PROVE Abstract!Next \/ UNCHANGED Abstract!vars
  OBVIOUS
<1>1. CASE Revoke \/ Grant \/ UNCHANGED vars
  BY <1>1, GrantIsSilent DEF Revoke, vars, Abstract!vars, Asked, Shown
<1>2. ASSUME NEW c \in Calls, Start(c) PROVE Abstract!Ask(c)
  BY <1>2, StartAsks
<1>3. ASSUME NEW c \in Calls, Lookup(c) PROVE Abstract!Reply(c) \/ UNCHANGED Abstract!vars
  <2>1. CASE \E r \in Found(c) : RepliesWith(c, r)
    BY <1>3, <2>1, FoundReplies DEF Lookup
  <2>2. CASE GoesOn(c, "activation", {})
    BY <1>3, <2>2, GoingOnIsSilent DEF Lookup, InTransaction
  <2>3. QED
    BY <1>3, <2>1, <2>2 DEF Lookup
<1>4. ASSUME NEW c \in Calls, CheckActivation(c)
      PROVE  Abstract!Reply(c) \/ UNCHANGED Abstract!vars
  <2>1. CASE GoesOn(c, "gate", {"workflow.activate"})
    BY <1>4, <2>1, GoingOnIsSilent DEF CheckActivation, InTransaction
  <2>2. CASE Ends(c, Answer("refused", None))
    BY <1>4, <2>2, RefusalReplies DEF CheckActivation
  <2>3. QED
    BY <1>4, <2>1, <2>2 DEF CheckActivation
<1>5. ASSUME NEW c \in Calls, CheckRunGate(c)
      PROVE  Abstract!Reply(c) \/ UNCHANGED Abstract!vars
  <2>1. ASSUME NEW g, GoesOn(c, "insert", g) PROVE UNCHANGED Abstract!vars
    BY <1>5, <2>1, GoingOnIsSilent DEF CheckRunGate, InTransaction
  <2>2. CASE Ends(c, Answer("refused", None))
    BY <1>5, <2>2, RefusalReplies DEF CheckRunGate
  <2>3. QED
    BY <1>5, <2>1, <2>2 DEF CheckRunGate
<1>6. ASSUME NEW c \in Calls, Insert(c) PROVE Abstract!Reply(c) \/ UNCHANGED Abstract!vars
  <2>1. CASE Abandons(c) \/ GoesOn(c, "commit", {})
    BY <1>6, <2>1, AbandoningIsSilent, GoingOnIsSilent DEF Insert, InTransaction
  <2>2. CASE Ends(c, Answer("failed", None))
    BY <1>6, <2>2, RefusalReplies DEF Insert
  <2>3. QED
    BY <1>6, <2>1, <2>2 DEF Insert
<1>7. ASSUME NEW c \in Calls, Commit(c) PROVE Abstract!Reply(c)
  BY <1>7, CommitReplies
<1>8. ASSUME NEW c \in Calls, WriteConflict(c) PROVE UNCHANGED Abstract!vars
  BY <1>8, AbandoningIsSilent DEF WriteConflict
<1>9. ASSUME NEW c \in Calls, Break(c) PROVE Abstract!Reply(c)
  BY <1>9, RefusalReplies DEF Break, InTransaction
<1>10. ASSUME NEW c \in Calls, Recover(c) PROVE Abstract!Reply(c) \/ UNCHANGED Abstract!vars
  <2>1. CASE \E r \in Found(c) : RepliesWith(c, r)
    BY <1>10, <2>1, FoundReplies DEF Recover
  <2>2. CASE Attempts(c, call[c].asked, call[c].attempt + 1)
    BY <1>10, <2>2, RetryingIsSilent DEF Recover
  <2>3. CASE Ends(c, Answer("exhausted", None))
    BY <1>10, <2>3, RefusalReplies DEF Recover
  <2>4. QED
    BY <1>10, <2>1, <2>2, <2>3 DEF Recover, Retry
<1>11. QED
  BY <1>1, <1>2, <1>3, <1>4, <1>5, <1>6, <1>7, <1>8, <1>9, <1>10 DEF Next, Proceeds, Abstract!Next

\* The interleaved, retried and broken attempts of any number of calls implement StartOnce: a key
\* names one run, and every caller is told the truth about it.
THEOREM StartsImplementStartOnce == Spec => ImplementsStartOnce
<1>1. Init => Abstract!Init
  BY DEF Init, Abstract!Init, Idle, Asked, Abstract!Answer, Answer
<1>2. QED
  BY <1>1, StepMaps, StartInvariant, PTL DEF Spec, ImplementsStartOnce, Abstract!Spec

\* Only the last turn of the loop tells a call that its attempts are exhausted.
LEMMA OnlyRecoverExhausts ==
    ASSUME StartInv, [Next]_vars, NEW c \in Calls, call'[c].answer.kind = "exhausted",
           call[c].answer.kind # "exhausted"
    PROVE  Recover(c) /\ Found(c) = {}
<1> DEFINE Told(d, a) == call'[c].answer = IF c = d THEN a ELSE call[c].answer
<1>1. call \in [Calls -> Call]
  BY DEF StartInv, TypeOK
<1>2. ASSUME NEW d \in Calls, NEW a, Ends(d, a) PROVE Told(d, a)
  BY <1>1, <1>2 DEF Ends
<1>3. ASSUME NEW d \in Calls, (\E pc, g : GoesOn(d, pc, g)) \/ Abandons(d)
      PROVE  call'[c].answer = call[c].answer
  <2>1. CASE \E pc, g : GoesOn(d, pc, g)
    BY <1>1, <2>1 DEF GoesOn, Call
  <2>2. CASE Abandons(d)
    BY <1>1, <2>2 DEF Abandons, Call
  <2>3. QED
    BY <1>3, <2>1, <2>2
<1>4. ASSUME NEW d \in Calls, NEW q, NEW n, Attempts(d, q, n) PROVE Told(d, Answer("none", None))
  BY <1>1, <1>4 DEF Attempts
<1> HIDE DEF Told
<1>5. ASSUME NEW d \in Calls, NEW a, Told(d, a) PROVE d = c /\ a.kind = "exhausted"
  BY <1>5 DEF Told
<1>6. /\ \A k, x : Answer(k, x).kind = k
      /\ \A d \in Calls, r \in runs : RepliesWith(d, r) => FALSE
  BY <1>2, <1>5 DEF RepliesWith, Answer
<1>7. ~Revoke /\ ~Grant /\ ~UNCHANGED vars
  BY GrantKeepsCalls DEF Revoke, Grant, vars
<1>8. ASSUME NEW d \in Calls PROVE ~Start(d)
  BY <1>4, <1>5, <1>6 DEF Start
<1>9. ASSUME NEW d \in Calls PROVE ~Lookup(d)
  BY <1>3, <1>6 DEF Lookup, Found
<1>10. ASSUME NEW d \in Calls PROVE ~CheckActivation(d) /\ ~CheckRunGate(d)
  BY <1>2, <1>3, <1>5, <1>6 DEF CheckActivation, CheckRunGate
<1>11. ASSUME NEW d \in Calls PROVE ~Insert(d) /\ ~Break(d) /\ ~Commit(d) /\ ~WriteConflict(d)
  BY <1>2, <1>3, <1>5, <1>6 DEF Insert, Break, Commit, WriteConflict
<1>12. ASSUME NEW d \in Calls, Recover(d) PROVE d = c /\ Found(d) = {}
  <2>1. Found(d) = {} /\ Retry(d)
    BY <1>6, <1>12 DEF Recover, Found
  <2>2. QED
    BY <2>1, <1>2, <1>4, <1>5, <1>6 DEF Retry
<1>13. QED
  BY <1>7, <1>8, <1>9, <1>10, <1>11, <1>12 DEF Next, Proceeds

\* No start with an unpadded key is told that its attempts are exhausted when a run with its key
\* is committed.
THEOREM UnpaddedStartsFindTheWinner == Spec => UnpaddedWinnerIsResolved
<1>1. StartInv /\ [Next]_vars =>
        \A c \in Calls : call[c].pc # "idle" /\ ~call[c].asked.padded => ExhaustsWithoutWinner(c)
  <2> SUFFICES ASSUME StartInv, [Next]_vars, NEW c \in Calls, ~call[c].asked.padded,
                      call'[c].answer.kind = "exhausted", call[c].answer.kind # "exhausted",
                      NEW r \in runs
               PROVE  r.key # call[c].asked.key
    BY DEF ExhaustsWithoutWinner
  <2>1. Recover(c) /\ Found(c) = {}
    BY OnlyRecoverExhausts
  <2>2. QED
    BY <2>1 DEF Found
<1>2. QED
  BY <1>1, StartInvariant, PTL DEF Spec, UnpaddedWinnerIsResolved
=============================================================================
