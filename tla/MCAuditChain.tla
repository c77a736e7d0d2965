----------------------------- MODULE MCAuditChain -----------------------------
(* TLC instances of AuditChain. *)
EXTENDS AuditChain

CONSTANTS jti, nonce, otherJti

\* A request, a second request that reuses its nonce, and a third that reuses its jti.
ReplayedClaims == {<<jti, nonce>>, <<otherJti, nonce>>, <<jti, otherJti>>}
=============================================================================
