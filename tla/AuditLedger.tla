------------------------------ MODULE AuditLedger ------------------------------
(***************************************************************************)
(* What appendAuditEvent (packages/business/src/governance/audit-db.ts)    *)
(* and the two callers that claim keys through it promise, one call at a   *)
(* time: an event is recorded behind all others, at most once under a key, *)
(* and a claim is granted as a whole: all of its handles become rows,      *)
(* next to each other and each for the first time, and the caller is told  *)
(* that they are its own; or nothing happens.                              *)
(***************************************************************************)
EXTENDS Naturals, Sequences

CONSTANTS Chains, Handles, Keys, Claims, None

VARIABLES
    ledger,     \* for each chain the keys of its rows, in their order
    granted     \* how many times each handle was granted

Init ==
    /\ ledger = [c \in Chains |-> <<>>]
    /\ granted = [c \in Chains |-> [k \in Handles |-> 0]]

IsNew(c, k) == \A i \in DOMAIN ledger[c] : ledger[c][i] # k

Record(c, k) ==
    /\ k # None => IsNew(c, k)
    /\ ledger' = [ledger EXCEPT ![c] = Append(@, k)]
    /\ UNCHANGED granted

Grant(c, handles) ==
    /\ \A i \in DOMAIN handles : IsNew(c, handles[i])
    /\ \A i, j \in DOMAIN handles : handles[i] = handles[j] => i = j
    /\ ledger' = [ledger EXCEPT ![c] = @ \o handles]
    /\ granted' = [granted EXCEPT ![c] =
          [k \in Handles |-> IF \E i \in DOMAIN handles : handles[i] = k THEN @[k] + 1 ELSE @[k]]]

Next ==
    \E c \in Chains :
        \/ \E k \in Keys \cup {None} : Record(c, k)
        \/ \E handles \in Claims : Grant(c, handles)

Spec == Init /\ [][Next]_<<ledger, granted>>
=============================================================================
