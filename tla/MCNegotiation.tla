--------------------------- MODULE MCNegotiation ---------------------------
(* Small instances of Negotiation for TLC.                                 *)
EXTENDS NegotiationInduction

AllManual    == [p \in Party |-> "manual"]
AllAutomatic == [p \in Party |-> "automatic"]
\* The consumer reacts by itself; the provider leaves other offers to its user.
SemiManualProvider ==
  [p \in Party |-> IF p = "provider" THEN "semi-manual" ELSE "automatic"]
=============================================================================
