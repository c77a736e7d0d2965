--------------------------- MODULE MCApprovalKernel ---------------------------
(* TLC instances of ApprovalKernel. *)
EXTENDS ApprovalKernel, TLC

\* Nothing distinguishes two requests, two people or two sessions but their identity.
Interchangeable ==
    Permutations(Requests) \cup Permutations(Assignments) \cup Permutations(Txs)
=============================================================================
