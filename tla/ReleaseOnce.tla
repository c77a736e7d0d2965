----------------------------- MODULE ReleaseOnce ------------------------------
(***************************************************************************)
(* What a release of an external action promises                           *)
(* (packages/business/src/governance/external-action-release.ts): an       *)
(* idempotency key is granted for one approval and never for another, and  *)
(* it is spent at most once, for an approval that has been in force:       *)
(* approved while the version it names was the current one.                *)
(*                                                                         *)
(* A grant is not limited to approvals that have been in force.  The gate  *)
(* in front of it reads the version and the approval at different moments, *)
(* and only the second gate, in front of the spending, makes up for it.    *)
(***************************************************************************)
CONSTANTS Keys, Approvals, None

VARIABLES
    granted,    \* the approval each key was granted for
    spent,      \* keys whose action was released
    inForce     \* approvals that were releasable at some moment

Init ==
    /\ granted = [k \in Keys |-> None]
    /\ spent = {}
    /\ inForce = {}

Enforce(a) ==
    /\ inForce' = inForce \cup {a}
    /\ UNCHANGED <<granted, spent>>

Grant(k, a) ==
    /\ granted[k] = None
    /\ granted' = [granted EXCEPT ![k] = a]
    /\ UNCHANGED <<spent, inForce>>

Spend(k) ==
    /\ granted[k] \in inForce
    /\ k \notin spent
    /\ spent' = spent \cup {k}
    /\ UNCHANGED <<granted, inForce>>

Next ==
    \/ \E a \in Approvals : Enforce(a)
    \/ \E k \in Keys, a \in Approvals : Grant(k, a)
    \/ \E k \in Keys : Spend(k)

Spec == Init /\ [][Next]_<<granted, spent, inForce>>
=============================================================================
