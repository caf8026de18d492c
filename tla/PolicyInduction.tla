--------------------------- MODULE PolicyInduction ---------------------------
(***************************************************************************)
(* The inductive invariant behind the safety properties of PolicyMonitor:  *)
(* what the evaluations that are not saved yet will say of a transfer.     *)
(***************************************************************************)
EXTENDS PolicyMonitor

\* A row's decision is explained by its context under the agreement of t.
Explained(t, row) ==
  /\ row.decision = "DENY" <=> Forbidden(Templates, agreement[t], row.context)
  /\ ~Faulty(Templates, agreement[t], row.context)

\* There was a moment at which a requester was allowed.
AllowedOnce(t, credential, outsider) ==
  \E s \in 0..now :
    Allowed(Templates, agreement[t], RequestContext(credential, outsider, s))

\* The requester that a row is about.
Requester(row) == <<row.context.values.credential, row.context.outsider>>

\* A request that is not recorded has left nothing yet.
NothingYet(t) == monitor[t] = Absent /\ state[t] = "none"

RequestsInv ==
  \A t \in Transfer :
    /\ handler[t].pc = "idle" => NothingYet(t)
    /\ handler[t].pc = "record" =>
         /\ NothingYet(t)
         /\ handler[t].row \in Row
         /\ \E s \in 0..now :
              handler[t].row.context =
                RequestContext(handler[t].row.context.values.credential,
                               handler[t].row.context.outsider, s)

\* An evaluation that is under way is about a transfer that has its row, and
\* about the same requester.
AboutRow(t, row) ==
  /\ t \in Transfer /\ row \in Row /\ monitor[t] # Absent
  /\ Requester(row) = Requester(monitor[t])

UnderWayInv ==
  /\ asked.pc = "record" => AboutRow(asked.at, asked.row)
  /\ round.pc = "record" => AboutRow(round.at, round.row)
  /\ round.pc \in {"record", "suspend", "tell", "save"} =>
       round.at \in Transfer /\ monitor[round.at] # Absent

ExplainedInv ==
  /\ \A t \in Transfer :
       /\ monitor[t] # Absent => Explained(t, monitor[t])
       /\ handler[t].pc = "record" => Explained(t, handler[t].row)
  /\ asked.pc = "record" => Explained(asked.at, asked.row)
  /\ round.pc = "record" => Explained(round.at, round.row)

\* A transfer, and a request about to be saved as one, was allowed.
AdmissionInv ==
  \A t \in Transfer :
    state[t] # "none" \/ handler[t].pc = "save" =>
      /\ monitor[t] # Absent
      /\ AllowedOnce(t, monitor[t].context.values.credential,
                        monitor[t].context.outsider)

\* The transfers a round is about are started or were.
RoundInv ==
  \A t \in round.todo : state[t] # "none"

SuspendInv ==
  round.pc \in {"record", "suspend", "tell", "save"} => state[round.at] # "none"

PolicyInv ==
  /\ RequestsInv /\ UnderWayInv /\ ExplainedInv /\ AdmissionInv
  /\ RoundInv /\ SuspendInv
=============================================================================
