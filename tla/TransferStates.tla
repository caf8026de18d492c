--------------------------- MODULE TransferStates ---------------------------
(***************************************************************************)
(* The two roles of a transfer, the planes that keep its state, and the    *)
(* table of transitions (control-plane-api, TransferService).              *)
(***************************************************************************)

Party == {"consumer", "provider"}

Peer(p) == IF p = "consumer" THEN "provider" ELSE "consumer"

\* Each party has a control plane and a data plane, with a database each.
Plane == {"control", "data"}

State == {"REQUESTED", "STARTED", "SUSPENDED", "COMPLETED", "TERMINATED"}

\* The two tables differ in one entry: only a provider starts a new transfer.
providerTransitions(s) ==
  CASE s = "STARTED"                    -> {"SUSPENDED", "COMPLETED",
                                            "TERMINATED"}
    [] s \in {"REQUESTED", "SUSPENDED"} -> {"STARTED", "TERMINATED"}
    [] OTHER                            -> {}

consumerTransitions(s) ==
  IF s = "REQUESTED" THEN {"TERMINATED"} ELSE providerTransitions(s)

\* As for negotiations, the table is that of the party that acts.
Allowed(actor, s, to) ==
  to \in IF actor = "provider" THEN providerTransitions(s)
                               ELSE consumerTransitions(s)
=============================================================================
