----------------------------- MODULE Handshake -----------------------------
(***************************************************************************)
(* What a contract negotiation promises, whatever the calls, their         *)
(* interleaving and the faults: the order in which the two parties' rows   *)
(* first enter the states of the protocol.  Each step of the protocol is   *)
(* recorded by one party before the other, and only after the step it      *)
(* builds on; so a party that has recorded a step knows that its peer has  *)
(* taken part in all that precedes it.                                     *)
(***************************************************************************)
EXTENDS NegotiationStates

VARIABLE reached \* reached[p]: the states party p's row has been in

\* What must have been recorded before party p's row enters s.
Needs(p, s) ==
  CASE s = "REQUESTED" /\ p = "provider" -> {}
    [] s = "REQUESTED" /\ p = "consumer" -> {<<"provider", "REQUESTED">>}
    [] s = "OFFERED"   /\ p = "consumer" -> {<<"consumer", "REQUESTED">>}
    [] s = "OFFERED"   /\ p = "provider" -> {<<"consumer", "OFFERED">>}
    [] s = "ACCEPTED"  /\ p = "provider" -> {<<"provider", "OFFERED">>}
    [] s = "ACCEPTED"  /\ p = "consumer" -> {<<"provider", "ACCEPTED">>}
    [] s = "AGREED"    /\ p = "provider" -> {<<"provider", "REQUESTED">>}
    [] s = "AGREED"    /\ p = "consumer" -> {<<"provider", "AGREED">>,
                                             <<"consumer", "REQUESTED">>}
    [] s = "VERIFIED"  /\ p = "consumer" -> {<<"consumer", "AGREED">>}
    [] s = "VERIFIED"  /\ p = "provider" -> {<<"consumer", "VERIFIED">>}
    [] s = "FINALIZED" /\ p = "consumer" -> {<<"provider", "VERIFIED">>}
    [] s = "FINALIZED" /\ p = "provider" -> {<<"consumer", "FINALIZED">>}
    [] OTHER                             -> {<<"consumer", "REQUESTED">>}

Ready(p, s) == \A n \in Needs(p, s) : n[2] \in reached[n[1]]

Init == reached = [p \in Party |-> {}]

Enter(p, s) ==
  /\ Ready(p, s)
  /\ reached' = [reached EXCEPT ![p] = @ \cup {s}]

Next == \E p \in Party, s \in State : Enter(p, s)

Spec == Init /\ [][Next]_reached

\* Every state a party has been in rests on the states it needs.
Ordered == \A p \in Party : \A s \in reached[p] : Ready(p, s)
=============================================================================
