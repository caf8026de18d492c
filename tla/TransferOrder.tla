--------------------------- MODULE TransferOrder ---------------------------
(***************************************************************************)
(* What a transfer promises, whatever the calls, their interleaving and    *)
(* the faults: the order in which the four rows of a transfer, one in each *)
(* party's control plane and one in each party's data plane, first enter   *)
(* their states.  Data can flow only once the request has been accepted    *)
(* and recorded, the consumer's data plane is opened after the provider's, *)
(* and a control plane records an interruption or an end only when both    *)
(* data planes have been told.                                             *)
(***************************************************************************)
EXTENDS TransferStates

VARIABLE reached \* reached[pl][p]: the states the row of p's plane has been in

\* What must have been recorded before the row of p's control plane enters s ...
ControlNeeds(p, s) ==
  CASE s = "REQUESTED" /\ p = "provider" -> {<<"data", "provider", s>>}
    [] s = "REQUESTED" /\ p = "consumer" -> {<<"control", "provider", s>>}
    [] s = "STARTED"   /\ p = "consumer" -> {<<"data", "consumer", s>>}
    [] s = "STARTED"   /\ p = "provider" -> {<<"control", "consumer", s>>}
    [] OTHER -> {<<"data", "consumer", s>>, <<"data", "provider", s>>}

\* ... and before that of its data plane does.
DataNeeds(p, s) ==
  CASE s = "REQUESTED" /\ p = "consumer" -> {}
    [] s = "REQUESTED" /\ p = "provider" -> {<<"data", "consumer", s>>}
    [] s = "STARTED"   /\ p = "provider" -> {<<"control", p, "REQUESTED">>}
    [] s = "STARTED"   /\ p = "consumer" -> {<<"control", p, "REQUESTED">>,
                                             <<"data", "provider", s>>}
    [] s \in {"SUSPENDED", "COMPLETED"}  -> {<<"control", p, "STARTED">>}
    [] OTHER                             -> {<<"control", p, "REQUESTED">>}

Needs(pl, p, s) ==
  IF pl = "control" THEN ControlNeeds(p, s) ELSE DataNeeds(p, s)

Ready(pl, p, s) == \A n \in Needs(pl, p, s) : n[3] \in reached[n[1]][n[2]]

Init == reached = [pl \in Plane |-> [p \in Party |-> {}]]

Enter(pl, p, s) ==
  /\ Ready(pl, p, s)
  /\ reached' = [reached EXCEPT ![pl][p] = @ \cup {s}]

Next == \E pl \in Plane, p \in Party, s \in State : Enter(pl, p, s)

Spec == Init /\ [][Next]_reached

\* Every state a row has been in rests on the states it needs.
Ordered ==
  \A pl \in Plane, p \in Party : \A s \in reached[pl][p] : Ready(pl, p, s)
=============================================================================
