------------------------- MODULE NegotiationStates -------------------------
(***************************************************************************)
(* The two roles of a contract negotiation, its states, and the table of   *)
(* transitions each role may make (control-plane-api, NegotiationService). *)
(***************************************************************************)

Party == {"consumer", "provider"}

Peer(p) == IF p = "consumer" THEN "provider" ELSE "consumer"

State == {"REQUESTED", "OFFERED", "ACCEPTED", "AGREED", "VERIFIED",
          "FINALIZED", "TERMINATED"}

providerTransitions(s) ==
  CASE s = "REQUESTED" -> {"OFFERED", "AGREED", "TERMINATED"}
    [] s = "OFFERED"   -> {"TERMINATED"}
    [] s = "ACCEPTED"  -> {"AGREED", "TERMINATED"}
    [] s = "VERIFIED"  -> {"FINALIZED", "TERMINATED"}
    [] OTHER           -> {}

consumerTransitions(s) ==
  CASE s = "REQUESTED" -> {"TERMINATED"}
    [] s = "OFFERED"   -> {"REQUESTED", "ACCEPTED", "TERMINATED"}
    [] s = "AGREED"    -> {"VERIFIED", "TERMINATED"}
    [] OTHER           -> {}

\* allowedTransitions: a local change uses the table of the own role, a remote
\* one that of the peer's; either way it is the table of the party that acts.
Allowed(actor, s, to) ==
  to \in IF actor = "provider" THEN providerTransitions(s)
                               ELSE consumerTransitions(s)
=============================================================================
