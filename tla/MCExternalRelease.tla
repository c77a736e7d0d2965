--------------------------- MODULE MCExternalRelease --------------------------
(* TLC instances of ExternalRelease. *)
EXTENDS ExternalRelease, TLC

CONSTANTS a1, a2

\* One approval for each of the two versions.
TwoVersions == a1 :> 1 @@ a2 :> 2
=============================================================================
