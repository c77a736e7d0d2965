--------------------------- MODULE MCQuoteVersions ----------------------------
(* TLC instances of QuoteVersions. *)
EXTENDS QuoteVersions
=============================================================================
