------------------------------- MODULE Approval -------------------------------
(***************************************************************************)
(* What the approval kernel promises, with every operation atomic: a       *)
(* request collects votes of distinct people who are not its requester,    *)
(* the vote that completes the quorum approves it and makes it usable, one *)
(* rejection ends it, and what has ended or lost its standing never comes  *)
(* back.  ApprovalKernel implements this specification.                    *)
(***************************************************************************)
EXTENDS Integers, FiniteSets

CONSTANTS Requests, Assignments, MaxQuorum

VARIABLES
    phase,      \* "absent", "open", or how the request ended
    standing,   \* "absent", "pending", "valid" or "dead"
    quorum,     \* votes needed
    requester,  \* {} or the singleton of who asked
    votes       \* who voted to approve

vars == <<phase, standing, quorum, requester, votes>>

Init ==
    /\ phase = [r \in Requests |-> "absent"]
    /\ standing = [r \in Requests |-> "absent"]
    /\ quorum = [r \in Requests |-> 0]
    /\ requester = [r \in Requests |-> {}]
    /\ votes = [r \in Requests |-> {}]

Submit(r, a, q) ==
    /\ phase[r] = "absent"
    /\ phase' = [phase EXCEPT ![r] = "open"]
    /\ standing' = [standing EXCEPT ![r] = "pending"]
    /\ quorum' = [quorum EXCEPT ![r] = q]
    /\ requester' = [requester EXCEPT ![r] = {a}]
    /\ UNCHANGED votes

\* One more distinct voter.
Vote(r, a) ==
    /\ phase[r] = "open" /\ standing[r] = "pending"
    /\ a \notin votes[r] /\ a \notin requester[r]
    /\ votes' = [votes EXCEPT ![r] = @ \cup {a}]
    /\ UNCHANGED <<quorum, requester>>

\* A vote short of the quorum leaves the request open.
Support(r, a) ==
    /\ Vote(r, a)
    /\ Cardinality(votes[r]) + 1 # quorum[r]
    /\ UNCHANGED <<phase, standing>>

\* The vote that completes the quorum approves the request and makes it usable.
Approve(r, a) ==
    /\ Vote(r, a)
    /\ Cardinality(votes[r]) + 1 = quorum[r]
    /\ phase' = [phase EXCEPT ![r] = "approved"]
    /\ standing' = [standing EXCEPT ![r] = "valid"]

\* A rejection, a cancellation or an expiry ends an open request and its standing together.
End(r, how) ==
    /\ phase[r] = "open" /\ standing[r] = "pending"
    /\ phase' = [phase EXCEPT ![r] = how]
    /\ standing' = [standing EXCEPT ![r] = "dead"]
    /\ UNCHANGED <<quorum, requester, votes>>

\* Staleness or revocation ends the standing and rewrites nothing else.
Invalidate(r) ==
    /\ standing[r] \in {"pending", "valid"}
    /\ standing' = [standing EXCEPT ![r] = "dead"]
    /\ UNCHANGED <<phase, quorum, requester, votes>>

Next ==
    \/ \E r \in Requests, a \in Assignments, q \in 1..MaxQuorum : Submit(r, a, q)
    \/ \E r \in Requests, a \in Assignments : Support(r, a) \/ Approve(r, a)
    \/ \E r \in Requests, how \in {"rejected", "cancelled", "expired"} : End(r, how)
    \/ \E r \in Requests : Invalidate(r)

Spec == Init /\ [][Next]_vars
=============================================================================
