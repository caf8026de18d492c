----------------------------- MODULE PolicyMonitor -----------------------------
(***************************************************************************)
(* The policy enforcement of one control plane: the evaluation on a        *)
(* request (transfer.service.ts), the row it leaves for every transfer and *)
(* the evaluation a data plane asks for (policy.evaluation.service.ts),    *)
(* and the interval that evaluates the started transfers and suspends the  *)
(* denied ones (agreement.monitor.service.ts).                             *)
(*                                                                         *)
(* A transfer is its state here and at its peer and whether its data plane *)
(* serves it: the steps its operations have are in Transfer, and here only *)
(* the monitor's own suspension is in steps.                               *)
(***************************************************************************)
EXTENDS PolicyEvaluation

CONSTANTS
  Transfer,      \* the ids that requests get
  agreement,     \* the agreement that each transfer is under
  Templates,     \* the constraint template of every operand that has one
  Credentials,   \* what a requester may present: sequences of values
  Purposes,      \* what a data plane may tell of a transfer
  MaxTime,       \* bound: the clock stops here
  MaxMoves,      \* bound: commands of users and peers to a transfer
  MaxTrouble     \* bound: peers lost and crashes

ASSUME PolicyAssumption ==
  /\ MaxTime \in Nat /\ MaxMoves \in Nat /\ MaxTrouble \in Nat
  /\ <<>> \in Purposes

\* A rule and a duty fit the context or not.
ASSUME AgreementAssumption ==
  \A t \in Transfer : Shaped(agreement[t])

VARIABLES
  state,     \* the state of the transfer's row, "none" before it is saved
  peer,      \* the state of the transfer's row at the peer
  data,      \* its data plane serves the transfer
  monitor,   \* the transfer's monitor row: last context and decision
  handler,   \* the request's handler
  asked,     \* the evaluation a data plane asked for
  round,     \* the monitor's round
  up,        \* the peer and the data plane of a transfer answer
  now, moves, trouble

transfers == <<state, peer, data>>
vars == <<transfers, monitor, handler, asked, round, up, now, moves, trouble>>

State == {"none", "REQUESTED", "STARTED", "SUSPENDED", "COMPLETED",
          "TERMINATED"}
Final == {"COMPLETED", "TERMINATED"}

Time == 0..MaxTime

Value == [credential : Credentials, purpose : Purposes,
          time : {<<t>> : t \in Time}]
Context == [scope : Trigger, outsider : BOOLEAN, values : Value]

NoContext == [scope |-> "none"]
Absent    == [context |-> NoContext, decision |-> "none"]
Row       == [context : Context, decision : Decision]

\* A constructor of Evaluation stamps the context with the time.
Stamped(context) == [context EXCEPT !.values.time = <<now>>]

\* An evaluation reads nothing but its agreement and its context.
Evaluation == [t \in Transfer |->
  [context \in Context |-> Evaluate(Templates, agreement[t], context)]]

\* evaluate, up to the save of the monitor row.
Outcome(t, context) ==
  [context  |-> Stamped(context),
   decision |-> Evaluation[t][Stamped(context)]]

\* An evaluation that throws decides nothing, and saves nothing.
Decides(t, context) == Outcome(t, context).decision # "THROWS"

Idle == [pc |-> "idle", row |-> Absent]
Over == [pc |-> "over", row |-> Absent]
NotAsked == [pc |-> "idle", at |-> "none", row |-> Absent]
NoRound == [pc |-> "idle", todo |-> {}, at |-> "none", row |-> Absent]

Init ==
  /\ state = [t \in Transfer |-> "none"] /\ peer = state
  /\ data = [t \in Transfer |-> FALSE]
  /\ monitor = [t \in Transfer |-> Absent]
  /\ handler = [t \in Transfer |-> Idle]
  /\ asked = NotAsked
  /\ round = NoRound
  /\ up = [t \in Transfer |-> TRUE]
  /\ now = 0 /\ moves = 0 /\ trouble = 0

----------------------------------------------------------------------------
(* The request.                                                             *)

RequestContext(credential, outsider, time) ==
  [scope    |-> "ON_REQUEST",
   outsider |-> outsider,
   values   |-> [credential |-> credential,
                 purpose    |-> <<>>,
                 time       |-> <<time>>]]

\* A participant asks for a transfer; its context is evaluated.  An outsider is
\* one the agreement does not name.
Request(t) ==
  /\ handler[t].pc = "idle" /\ up[t]
  /\ \E credential \in Credentials, outsider \in BOOLEAN :
       LET context == RequestContext(credential, outsider, now)
       IN handler' = [handler EXCEPT ![t] =
            IF Decides(t, context)
            THEN [pc |-> "record", row |-> Outcome(t, context)] ELSE Over]
  /\ UNCHANGED <<transfers, monitor, asked, round, up, now, moves, trouble>>

\* Mutant: the decision is saved and not looked at.
RecordRequestAnyway(t) ==
  /\ handler[t].pc = "record"
  /\ monitor' = [monitor EXCEPT ![t] = handler[t].row]
  /\ handler' = [handler EXCEPT ![t] = [pc |-> "save", row |-> Absent]]
  /\ UNCHANGED <<transfers, asked, round, up, now, moves, trouble>>

\* Mutant: only a denial is saved.
RecordRequestDenied(t) ==
  /\ handler[t].pc = "record"
  /\ IF handler[t].row.decision = "DENY"
     THEN /\ monitor' = [monitor EXCEPT ![t] = handler[t].row]
          /\ handler' = [handler EXCEPT ![t] = Over]
     ELSE /\ handler' = [handler EXCEPT ![t] = [pc |-> "save", row |-> Absent]]
          /\ UNCHANGED monitor
  /\ UNCHANGED <<transfers, asked, round, up, now, moves, trouble>>

\* The evaluation is saved whatever it says; a denial ends the request.
RecordRequest(t) ==
  /\ handler[t].pc = "record"
  /\ monitor' = [monitor EXCEPT ![t] = handler[t].row]
  /\ handler' = [handler EXCEPT ![t] =
       IF handler[t].row.decision = "DENY" THEN Over
       ELSE [pc |-> "save", row |-> Absent]]
  /\ UNCHANGED <<transfers, asked, round, up, now, moves, trouble>>

\* Both sides have the transfer then.
SaveTransfer(t) ==
  /\ handler[t].pc = "save"
  /\ state' = [state EXCEPT ![t] = "REQUESTED"]
  /\ peer' = [peer EXCEPT ![t] = "REQUESTED"]
  /\ handler' = [handler EXCEPT ![t] = Over]
  /\ UNCHANGED <<data, monitor, asked, round, up, now, moves, trouble>>

----------------------------------------------------------------------------
(* The rest of a transfer's life.  A start is not evaluated.                *)

Follows(s) == CASE s = "REQUESTED" -> {"STARTED", "TERMINATED"}
                [] s = "STARTED"   -> {"SUSPENDED"} \cup Final
                [] s = "SUSPENDED" -> {"STARTED", "TERMINATED"}
                [] OTHER           -> {}

Moves(t, s) == /\ up[t] /\ moves < MaxMoves /\ moves' = moves + 1
               /\ s \in Follows(state[t])
               /\ UNCHANGED <<monitor, handler, asked, round, up, now>>

Serve(t, s) == data' = [data EXCEPT ![t] = s = "STARTED"]

\* A user, the data plane or the peer moves the transfer.  Each side checks the
\* state it has; the data plane has been told when the peer refuses.
Move(t, s) ==
  /\ Moves(t, s) /\ Serve(t, s)
  /\ IF s \in Follows(peer[t])
     THEN /\ state' = [state EXCEPT ![t] = s]
          /\ peer' = [peer EXCEPT ![t] = s]
     ELSE UNCHANGED <<state, peer>>
  /\ UNCHANGED trouble

\* The answer is lost, or a side stops: one has saved the state, the other has
\* not, or neither has.
HalfMove(t, s) ==
  /\ Moves(t, s) /\ s \in Follows(peer[t])
  /\ Serve(t, s) \/ UNCHANGED data
  /\ \/ state' = [state EXCEPT ![t] = s] /\ UNCHANGED peer
     \/ peer' = [peer EXCEPT ![t] = s] /\ UNCHANGED state
     \/ UNCHANGED <<state, peer>>
  /\ trouble < MaxTrouble /\ trouble' = trouble + 1

----------------------------------------------------------------------------
(* evaluateDataPlane: the last context, with what the data plane tells.  One *)
(* such call is under way at a time.                                         *)

Told(t, purpose) == [monitor[t].context EXCEPT !.values.purpose = purpose]

EvaluateDataPlane(t) ==
  /\ asked.pc = "idle" /\ moves < MaxMoves
  /\ monitor[t] # Absent
  /\ \E purpose \in Purposes :
       /\ Decides(t, Told(t, purpose))
       /\ asked' = [pc  |-> "record",
                    at  |-> t,
                    row |-> Outcome(t, Told(t, purpose))]
  /\ moves' = moves + 1
  /\ UNCHANGED <<transfers, monitor, handler, round, up, now, trouble>>

RecordDataPlane ==
  /\ asked.pc = "record"
  /\ monitor' = [monitor EXCEPT ![asked.at] = asked.row]
  /\ asked' = NotAsked
  /\ UNCHANGED <<transfers, handler, round, up, now, moves, trouble>>

----------------------------------------------------------------------------
(* monitorAgreements.                                                       *)

\* The interval fires: the round takes the transfers started now.
BeginRound ==
  /\ round.pc = "idle"
  /\ LET started == {t \in Transfer : state[t] = "STARTED"}
     IN /\ started # {}
        /\ round' = [NoRound EXCEPT !.pc = "next", !.todo = started]
  /\ UNCHANGED <<transfers, monitor, handler, asked, up, now, moves, trouble>>

\* The round goes to its next transfer, or ends.
Advance(todo) ==
  round' = IF todo = {} THEN NoRound
           ELSE [NoRound EXCEPT !.pc = "next", !.todo = todo]

\* What every stop of the process forgets.  A request that was under way is not
\* taken up again.
Forget ==
  /\ handler' = [t \in Transfer |->
       IF handler[t].pc = "idle" THEN Idle ELSE Over]
  /\ asked' = NotAsked
  /\ round' = NoRound

\* The last context, under the continuous scope.
Continued(t) == [monitor[t].context EXCEPT !.scope = "CONTINUOUS"]

\* Mutant: the last context is evaluated under the scope it has.
CheckTransferAsRequested(t) ==
  /\ round.pc = "next" /\ t \in round.todo
  /\ IF monitor[t] = Absent
     THEN Advance(round.todo \ {t})
     ELSE /\ Decides(t, monitor[t].context)
          /\ round' = [pc   |-> "record",
                       todo |-> round.todo \ {t},
                       at   |-> t,
                       row  |-> Outcome(t, monitor[t].context)]
  /\ UNCHANGED <<transfers, monitor, handler, asked, up, now, moves, trouble>>

\* A transfer's last context is evaluated again.  One without a monitor row is
\* passed over.
CheckTransfer(t) ==
  /\ round.pc = "next" /\ t \in round.todo
  /\ IF monitor[t] = Absent
     THEN Advance(round.todo \ {t})
     ELSE /\ Decides(t, Continued(t))
          /\ round' = [pc   |-> "record",
                       todo |-> round.todo \ {t},
                       at   |-> t,
                       row  |-> Outcome(t, Continued(t))]
  /\ UNCHANGED <<transfers, monitor, handler, asked, up, now, moves, trouble>>

\* An evaluation that throws does so out of the interval's callback: nothing
\* catches it, the round is lost and the process stops.
CheckFails(t) ==
  /\ round.pc = "next" /\ t \in round.todo
  /\ monitor[t] # Absent /\ ~Decides(t, Continued(t))
  /\ Forget
  /\ UNCHANGED <<transfers, monitor, up, now, moves, trouble>>

RecordCheck ==
  /\ round.pc = "record"
  /\ monitor' = [monitor EXCEPT ![round.at] = round.row]
  /\ IF round.row.decision = "DENY"
     THEN round' = [round EXCEPT !.pc = "suspend", !.row = Absent]
     ELSE Advance(round.todo)
  /\ UNCHANGED <<transfers, handler, asked, up, now, moves, trouble>>

\* suspend: the transfer is read and its data plane told, ...
Suspend ==
  /\ round.pc = "suspend"
  /\ state[round.at] = "STARTED" /\ up[round.at]
  /\ data' = [data EXCEPT ![round.at] = FALSE]
  /\ round' = [round EXCEPT !.pc = "tell"]
  /\ UNCHANGED <<state, peer, monitor, handler, asked, up, now, moves, trouble>>

\* ... then its peer, which checks the state it has and saves, ...
TellPeer ==
  /\ round.pc = "tell"
  /\ up[round.at] /\ "SUSPENDED" \in Follows(peer[round.at])
  /\ peer' = [peer EXCEPT ![round.at] = "SUSPENDED"]
  /\ round' = [round EXCEPT !.pc = "save"]
  /\ UNCHANGED <<state, data, monitor, handler, asked, up, now, moves, trouble>>

\* ... and the copy is saved.  An answer of the peer that is lost throws, and is
\* a Restart.
SaveSuspended ==
  /\ round.pc = "save"
  /\ state' = [state EXCEPT ![round.at] = "SUSPENDED"]
  /\ Advance(round.todo)
  /\ UNCHANGED <<peer, data, monitor, handler, asked, up, now, moves, trouble>>

\* So does a suspension that is refused or not answered.
SuspendFails ==
  /\ \/ round.pc = "suspend" /\ ~(state[round.at] = "STARTED" /\ up[round.at])
     \/ /\ round.pc = "tell"
        /\ ~(up[round.at] /\ "SUSPENDED" \in Follows(peer[round.at]))
  /\ Forget
  /\ UNCHANGED <<transfers, monitor, up, now, moves, trouble>>

----------------------------------------------------------------------------
(* The environment.                                                         *)

Tick ==
  /\ now < MaxTime
  /\ now' = now + 1
  /\ UNCHANGED <<transfers, monitor, handler, asked, round, up, moves, trouble>>

GoDown(t) ==
  /\ up[t] /\ trouble < MaxTrouble
  /\ up' = [up EXCEPT ![t] = FALSE]
  /\ trouble' = trouble + 1
  /\ UNCHANGED <<transfers, monitor, handler, asked, round, now, moves>>

ComeBack(t) ==
  /\ ~up[t]
  /\ up' = [up EXCEPT ![t] = TRUE]
  /\ UNCHANGED <<transfers, monitor, handler, asked, round, now, moves, trouble>>

Restart ==
  /\ trouble < MaxTrouble
  /\ Forget
  /\ trouble' = trouble + 1
  /\ UNCHANGED <<transfers, monitor, up, now, moves>>

----------------------------------------------------------------------------

RoundStep ==
  \/ BeginRound
  \/ \E t \in Transfer : CheckTransfer(t) \/ CheckFails(t)
  \/ RecordCheck \/ Suspend \/ TellPeer \/ SaveSuspended \/ SuspendFails

Next ==
  \/ \E t \in Transfer :
       \/ Request(t) \/ RecordRequest(t) \/ SaveTransfer(t)
       \/ \E s \in State : Move(t, s) \/ HalfMove(t, s)
       \/ EvaluateDataPlane(t)
       \/ GoDown(t) \/ ComeBack(t)
  \/ RecordDataPlane
  \/ RoundStep
  \/ Tick \/ Restart

Spec == Init /\ [][Next]_vars

\* The interval keeps firing and its callback runs on; a peer or a data plane
\* that is lost comes back.  Commands, losses and crashes need not happen.
Fairness == WF_vars(RoundStep) /\ WF_vars(\E t \in Transfer : ComeBack(t))

FairSpec == Spec /\ Fairness
----------------------------------------------------------------------------
(* Properties.                                                              *)

EvaluationType ==
  Evaluation \in [Transfer -> [Context -> Decision \cup {"THROWS"}]]

TypeOK ==
  /\ state \in [Transfer -> State] /\ peer \in [Transfer -> State]
  /\ data \in [Transfer -> BOOLEAN]
  /\ monitor \in [Transfer -> Row \cup {Absent}]
  /\ handler \in [Transfer -> [pc  : {"idle", "record", "save", "over"},
                               row : Row \cup {Absent}]]
  /\ asked \in [pc  : {"idle", "record"},
                at  : Transfer \cup {"none"},
                row : Row \cup {Absent}]
  /\ round \in [pc   : {"idle", "next", "record", "suspend", "tell", "save"},
                todo : SUBSET Transfer,
                at   : Transfer \cup {"none"},
                row  : Row \cup {Absent}]
  /\ up \in [Transfer -> BOOLEAN]
  /\ now \in Time /\ moves \in 0..MaxMoves /\ trouble \in 0..MaxTrouble
  /\ EvaluationType

\* Every decision kept for a transfer is explained by the context kept with it:
\* it denies exactly when the requester is not the agreement's party, a
\* prohibition is in force, or no permission grants and one is in doubt; and it
\* was not taken when a condition of a rule could not be evaluated at all.
DecisionsExplained ==
  \A t \in Transfer :
    monitor[t] # Absent =>
      /\ monitor[t].decision = "DENY"
           <=> Forbidden(Templates, agreement[t], monitor[t].context)
      /\ ~Faulty(Templates, agreement[t], monitor[t].context)

\* A transfer was admitted at a moment at which the agreement allowed it to this
\* requester, whatever the monitor row was overwritten with since.
AdmittedOnce ==
  \A t \in Transfer :
    state[t] # "none" /\ monitor[t] # Absent =>
      \E s \in 0..now :
        Allowed(Templates, agreement[t],
          RequestContext(monitor[t].context.values.credential,
                         monitor[t].context.outsider, s))

\* Every transfer has its monitor row, so the interval passes none over.
TransfersAreMonitored ==
  \A t \in Transfer : state[t] # "none" => monitor[t] # Absent

\* The continuous evaluation does not allow the transfer from now on, whatever
\* its data plane tells.
DeniedForGood(t) ==
  \A purpose \in Purposes, s \in now..MaxTime :
    Evaluation[t][
      [scope    |-> "CONTINUOUS",
       outsider |-> monitor[t].context.outsider,
       values   |-> [monitor[t].context.values EXCEPT
                       !.purpose = purpose, !.time = <<s>>]]] # "ALLOW"

\* A started transfer ends every round that comes to it: its evaluation throws,
\* or it is denied and its peer, which has it in another state, refuses to
\* suspend it.
EndsRounds(u) ==
  /\ state[u] = "STARTED" /\ monitor[u] # Absent
  /\ CASE Outcome(u, Continued(u)).decision = "THROWS" -> TRUE
       [] Outcome(u, Continued(u)).decision = "DENY"   -> peer[u] # "STARTED"
       [] OTHER                                        -> FALSE

\* The data plane of a started transfer that the agreement no longer allows is
\* told to stop, though suspensions are not answered, rounds are lost with the
\* process and the row is overwritten by evaluations for the data plane: unless
\* the evaluation throws, or the rounds end at another transfer.
DeniedIsStopped ==
  \A t \in Transfer :
    state[t] = "STARTED" /\ DeniedForGood(t)
      ~> \/ state[t] # "STARTED" \/ ~data[t]
         \/ ~Decides(t, Continued(t))
         \/ \E u \in Transfer \ {t} : EndsRounds(u)
=============================================================================
