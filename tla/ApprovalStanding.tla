--------------------------- MODULE ApprovalStanding ---------------------------
(***************************************************************************)
(* An approval as the release gate sees it (evaluateArtifactRelease of     *)
(* packages/business/src/governance/artifact-release.ts): whether request  *)
(* and projection together say that it is approved, and whether expiresAt  *)
(* has passed.  An approval is given once; one that was withdrawn does not *)
(* come back; and time may run out before, after or while it is given.     *)
(* ApprovalKernel implements this, and ExternalRelease is built on it.     *)
(***************************************************************************)
CONSTANT Requests    \* approval requests

VARIABLES
    standing,   \* "open" until it is approved, "withdrawn" when it is stale or revoked after that
    overdue     \* approvals whose expiresAt has passed

Init ==
    /\ standing = [a \in Requests |-> "open"]
    /\ overdue = {}

Approve(a) ==
    /\ standing[a] = "open"
    /\ standing' = [standing EXCEPT ![a] = "approved"]
    /\ UNCHANGED overdue

Withdraw(a) ==
    /\ standing[a] = "approved"
    /\ standing' = [standing EXCEPT ![a] = "withdrawn"]
    /\ UNCHANGED overdue

BecomeOverdue(a) ==
    /\ overdue' = overdue \cup {a}
    /\ UNCHANGED standing

Next == \E a \in Requests : Approve(a) \/ Withdraw(a) \/ BecomeOverdue(a)

Spec == Init /\ [][Next]_<<standing, overdue>>
=============================================================================
