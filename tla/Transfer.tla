------------------------------ MODULE Transfer ------------------------------
(***************************************************************************)
(* A data transfer under an agreement (control-plane-api, TransferService; *)
(* data planes, handleTransferRequest to handleTransferSuspend).           *)
(*                                                                         *)
(* Each party keeps two rows of the transfer, one in its control plane and *)
(* one in its data plane.  A call to a control plane loads its row, checks *)
(* the transition table, commands the party's own data plane, exchanges    *)
(* one HTTP request with the other control plane, whose handler does the   *)
(* same with its row and its data plane, and last saves the row it loaded. *)
(* Between any two of these steps other calls and handlers run.            *)
(***************************************************************************)
EXTENDS Naturals, TransferStates

CONSTANTS
  UserCall,       \* identifiers of the calls management clients may make
  AutoCall,       \* identifiers of the calls the provider makes by itself
  AddressGiven,   \* can a client's start name a data address (TRUE), or not
  PolicyOutcomes, \* can the provider's policy permit the request, or deny it
  AutoStart,      \* TRUE: the provider's data plane answers with an address
  Faults,         \* TRUE: requests, responses and processes may fail
  SerialClients   \* TRUE: a client call is made when no other is under way

Call == UserCall \cup AutoCall

ASSUME CallAssumption ==
  /\ UserCall \subseteq Nat /\ AutoCall \subseteq Nat
  /\ UserCall \cap AutoCall = {}
ASSUME EnvironmentAssumption ==
  /\ AddressGiven \subseteq BOOLEAN /\ PolicyOutcomes \subseteq BOOLEAN
  /\ AutoStart \in BOOLEAN /\ Faults \in BOOLEAN /\ SerialClients \in BOOLEAN

----------------------------------------------------------------------------
(* Rows and calls.                                                          *)

ClientKind == {"start", "suspend", "complete", "terminate"}
Kind == {"request"} \cup ClientKind

Target(k) == CASE k = "request"   -> "REQUESTED"
               [] k = "start"     -> "STARTED"
               [] k = "suspend"   -> "SUSPENDED"
               [] k = "complete"  -> "COMPLETED"
               [] k = "terminate" -> "TERMINATED"

\* Of a control plane's row, its state and whether it holds a data address.
Row == [state : State, addr : BOOLEAN]
Absent == [state |-> "NONE", addr |-> FALSE]
Copy == Row \cup {Absent}

\* The caller's progress, and that of its request and the peer's handler.
Pc == {"idle", "refusing", "commanding", "posted", "saving", "done", "failed"}
HPc == {"none", "sent", "refusing", "commanding", "handling", "ok", "failed"}

\* copy and hcopy are the rows the caller and the handler loaded; addr tells
\* whether a start message names an endpoint.
CallType ==
  [kind : Kind \cup {"none"}, by : Party, pc : Pc, hpc : HPc,
   copy : Copy, hcopy : Copy, addr : BOOLEAN]

Idle == [kind |-> "none", by |-> "consumer", pc |-> "idle", hpc |-> "none",
         copy |-> Absent, hcopy |-> Absent, addr |-> FALSE]

VARIABLES
  cp,       \* cp[p]: the row of p's control plane, Absent until it exists
  dp,       \* dp[p]: the state of the row of p's data plane
  call,     \* call[i]: call i, with its HTTP exchange and remote handler
  starting, \* the provider's automatic start has been called but not begun
  late,     \* data plane commands whose sender no longer waits for them
  seen      \* history: the states each row has been in

vars == <<cp, dp, call, starting, late, seen>>

TypeOK ==
  /\ cp \in [Party -> Copy]
  /\ dp \in [Party -> State \cup {"NONE"}]
  /\ call \in [Call -> CallType]
  /\ starting \in BOOLEAN
  /\ late \subseteq Party \X State
  /\ seen \in [Plane -> [Party -> SUBSET State]]

Init ==
  /\ cp = [p \in Party |-> Absent]
  /\ dp = [p \in Party |-> "NONE"]
  /\ call = [i \in Call |-> Idle]
  /\ starting = FALSE
  /\ late = {}
  /\ seen = [pl \in Plane |-> [p \in Party |-> {}]]

\* repository.save of a loaded copy: every column is written.
Save(p, s, addr) ==
  /\ cp' = [cp EXCEPT ![p] = [state |-> s, addr |-> addr]]
  /\ seen' = [seen EXCEPT !["control"][p] = @ \cup {s}]

\* A data plane's handler stores the state it is commanded, whatever the old
\* one.
Store(p, s) ==
  /\ dp' = [dp EXCEPT ![p] = s]
  /\ seen' = [seen EXCEPT !["data"][p] = @ \cup {s}]

Running(i) == call[i].pc \notin {"idle", "done", "failed"}
Handling(i) == call[i].hpc \in {"refusing", "commanding", "handling"}

\* The commands the process of p is waiting for on behalf of the calls in S.  A
\* request's is left out: the row it makes would belong to no transfer.
Sending(p, i) == \/ call[i].by = p /\ call[i].pc = "commanding"
                 \/ call[i].by = Peer(p) /\ call[i].hpc = "commanding"
Strays(p, S) ==
  {<<p, Target(call[i].kind)>> :
     i \in {j \in S : Sending(p, j) /\ call[j].kind # "request"}}

\* A control plane process stops and starts again: its calls and handlers are
\* gone, its database and the commands it has sent are not.
Stop(p) ==
  /\ call' = [i \in Call |->
       IF call[i].by = p /\ Running(i)
         THEN [call[i] EXCEPT !.pc = "failed"]
       ELSE IF call[i].by = Peer(p) /\ Handling(i)
         THEN [call[i] EXCEPT !.hpc = "failed", !.hcopy = Absent]
       ELSE call[i]]
  /\ starting' = (starting /\ p # "provider")
  /\ late' = late \cup Strays(p, Call)

\* Call i throws.  A client gets the error; nobody awaits the automatic start,
\* and an unhandled rejection ends the provider's Node process.
Throw(i) ==
  IF i \in AutoCall THEN Stop("provider")
  ELSE /\ call' = [call EXCEPT ![i].pc = "failed"]
       /\ late' = late \cup Strays(call[i].by, {i})
       /\ UNCHANGED starting

----------------------------------------------------------------------------
(* The caller's side.                                                       *)

\* Identifiers are handed out in order.
Fresh(i, S) ==
  /\ i \in S
  /\ call[i].pc = "idle"
  /\ \A j \in S : call[j].pc = "idle" => i <= j

ClientFree == SerialClients => \A j \in UserCall : ~Running(j)

\* initiateTransferProcess, once the consumer's own policy permits it; the
\* modelled transfer is one.
RequestTransfer(i) ==
  /\ Fresh(i, UserCall)
  /\ \A j \in Call : call[j].kind # "request"
  /\ call' = [call EXCEPT ![i] =
        [Idle EXCEPT !.kind = "request", !.pc = "commanding"]]
  /\ UNCHANGED <<cp, dp, starting, late, seen>>

\* Load the row and check the transition.  A start names the address it is
\* given, else the one stored in the row, else an empty one.
Begin(i, p, k, given) ==
  /\ cp[p] # Absent
  /\ call' = [call EXCEPT ![i] =
        [kind |-> k, by |-> p,
         pc |-> IF Allowed(p, cp[p].state, Target(k)) THEN "commanding"
                                                      ELSE "refusing",
         hpc |-> "none", copy |-> cp[p], hcopy |-> Absent,
         addr |-> k = "start" /\ (given \/ cp[p].addr)]]
  /\ UNCHANGED <<cp, dp, late, seen>>

\* A management client of party p, p's data plane on behalf of its own client,
\* or p's agreement monitor makes a call.
ClientCall(i, p, k) ==
  /\ Fresh(i, UserCall)
  /\ ClientFree
  /\ \E given \in IF k = "start" THEN AddressGiven ELSE {FALSE} :
       Begin(i, p, k, given)
  /\ UNCHANGED starting

\* The start handleRequest has called without awaiting it begins.
AutomaticStart(i) ==
  /\ starting
  /\ Fresh(i, AutoCall)
  /\ Begin(i, "provider", "start", TRUE)
  /\ starting' = FALSE

\* checkTransition: a refused call saves the copy it loaded, then throws.
SaveRefusal(i) ==
  LET c == call[i] IN
  /\ c.pc = "refusing"
  /\ Save(c.by, c.copy.state, c.copy.addr)
  /\ Throw(i)
  /\ UNCHANGED dp

\* The own data plane stores the new state and answers; the request is posted.
Command(i) ==
  LET c == call[i] IN
  /\ c.pc = "commanding"
  /\ Store(c.by, Target(c.kind))
  /\ call' = [call EXCEPT ![i].pc = "posted", ![i].hpc = "sent"]
  /\ UNCHANGED <<cp, starting, late>>

\* Mutant: an error response is taken for a success.
ReplyUnchecked(i) ==
  LET c == call[i] IN
  /\ c.pc = "posted"
  /\ c.hpc \in {"ok", "failed"}
  /\ call' = [call EXCEPT ![i].pc = "saving"]
  /\ UNCHANGED <<cp, dp, starting, late, seen>>

\* The HTTP response arrives: an error is thrown and nothing is saved.
Reply(i) ==
  LET c == call[i] IN
  /\ c.pc = "posted"
  /\ \/ /\ c.hpc = "ok"
        /\ call' = [call EXCEPT ![i].pc = "saving"]
        /\ UNCHANGED <<starting, late>>
     \/ /\ c.hpc = "failed"
        /\ Throw(i)
  /\ UNCHANGED <<cp, dp, seen>>

\* The copy is saved with the new state; a request makes the consumer's row.
SaveAfterReply(i) ==
  LET c == call[i] IN
  /\ c.pc = "saving"
  /\ Save(c.by, Target(c.kind), c.copy.addr)
  /\ call' = [call EXCEPT ![i].pc = "done"]
  /\ UNCHANGED <<dp, starting, late>>

----------------------------------------------------------------------------
(* The peer's handler of call i.                                            *)

\* Mutant: the handler does not check the transition.
ReceiveUnchecked(i) ==
  LET c    == call[i]
      row  == cp[Peer(c.by)]
      next == IF c.kind = "request" THEN "commanding"
              ELSE IF c.kind = "start" /\ ~c.addr THEN "failed"
              ELSE IF row = Absent THEN "failed"
              ELSE "commanding"
  IN /\ c.hpc = "sent"
     /\ call' = [call EXCEPT
          ![i].hpc = next,
          ![i].hcopy = IF next = "failed" THEN Absent ELSE row]
     /\ UNCHANGED <<cp, dp, starting, late, seen>>

\* Mutant: no 404 for a transfer that does not exist.
ReceiveMissing(i) ==
  LET c    == call[i]
      row  == cp[Peer(c.by)]
      next == IF c.kind = "request" THEN "commanding"
              ELSE IF c.kind = "start" /\ ~c.addr THEN "failed"
              ELSE IF Allowed(c.by, row.state, Target(c.kind))
                THEN "commanding" ELSE "refusing"
  IN /\ c.hpc = "sent"
     /\ call' = [call EXCEPT
          ![i].hpc = next,
          ![i].hcopy = IF next = "failed" THEN Absent ELSE row]
     /\ UNCHANGED <<cp, dp, starting, late, seen>>

\* A request is not checked against anything yet.  Any other message is: 400 if
\* its data address has no endpoint, 404 if there is no row, and the transition
\* against the sender's table.
Receive(i) ==
  LET c    == call[i]
      row  == cp[Peer(c.by)]
      next == IF c.kind = "request" THEN "commanding"
              ELSE IF c.kind = "start" /\ ~c.addr THEN "failed"
              ELSE IF row = Absent THEN "failed"
              ELSE IF Allowed(c.by, row.state, Target(c.kind))
                THEN "commanding" ELSE "refusing"
  IN /\ c.hpc = "sent"
     /\ call' = [call EXCEPT
          ![i].hpc = next,
          ![i].hcopy = IF next = "failed" THEN Absent ELSE row]
     /\ UNCHANGED <<cp, dp, starting, late, seen>>

\* checkTransition at the peer: it saves its copy and answers 400.
SaveRemoteRefusal(i) ==
  LET c == call[i] IN
  /\ c.hpc = "refusing"
  /\ Save(Peer(c.by), c.hcopy.state, c.hcopy.addr)
  /\ call' = [call EXCEPT ![i].hpc = "failed", ![i].hcopy = Absent]
  /\ UNCHANGED <<dp, starting, late>>

\* Mutant: the handler leaves its data plane as it is.
CommandRemoteNothing(i) ==
  LET c == call[i] IN
  /\ c.hpc = "commanding"
  /\ call' = [call EXCEPT ![i].hpc = "handling"]
  /\ UNCHANGED <<cp, dp, starting, late, seen>>

\* The peer's data plane stores the new state and answers.
CommandRemote(i) ==
  LET c == call[i] IN
  /\ c.hpc = "commanding"
  /\ Store(Peer(c.by), Target(c.kind))
  /\ call' = [call EXCEPT ![i].hpc = "handling"]
  /\ UNCHANGED <<cp, starting, late>>

\* The provider's policy denies the request, after its data plane accepted it.
DenyRequest(i) ==
  /\ call[i].hpc = "handling" /\ call[i].kind = "request"
  /\ FALSE \in PolicyOutcomes
  /\ call' = [call EXCEPT ![i].hpc = "failed", ![i].hcopy = Absent]
  /\ UNCHANGED <<cp, dp, starting, late, seen>>

\* Save the new state, with the address a start names, and answer.  A new
\* request is started at once if the data plane gave an address.
SaveHandled(i) ==
  LET c == call[i] IN
  /\ c.hpc = "handling"
  /\ c.kind = "request" => TRUE \in PolicyOutcomes
  /\ Save(Peer(c.by), Target(c.kind), c.addr \/ c.hcopy.addr)
  /\ call' = [call EXCEPT ![i].hpc = "ok", ![i].hcopy = Absent]
  /\ starting' = (starting \/ (c.kind = "request" /\ AutoStart))
  /\ UNCHANGED <<dp, late>>

----------------------------------------------------------------------------
(* Faults.                                                                  *)

\* The request does not reach the peer, or its handler throws before it acts.
LoseRequest(i) ==
  /\ Faults
  /\ call[i].hpc = "sent"
  /\ call' = [call EXCEPT ![i].hpc = "failed"]
  /\ UNCHANGED <<cp, dp, starting, late, seen>>

\* The response is lost or the 30 s timeout of the HTTP client expires; the
\* request may still be handled.
Timeout(i) ==
  /\ Faults
  /\ call[i].pc = "posted"
  /\ Throw(i)
  /\ UNCHANGED <<cp, dp, seen>>

\* The own data plane cannot be reached, or its answer is lost.
CommandFails(i) ==
  /\ Faults
  /\ call[i].pc = "commanding"
  /\ Throw(i)
  /\ UNCHANGED <<cp, dp, seen>>

\* The same for the handler, which answers with an error.
RemoteCommandFails(i) ==
  LET c == call[i] IN
  /\ Faults
  /\ c.hpc = "commanding"
  /\ call' = [call EXCEPT ![i].hpc = "failed", ![i].hcopy = Absent]
  /\ late' = late \cup Strays(Peer(c.by), {i})
  /\ UNCHANGED <<cp, dp, starting, seen>>

\* A command nobody waits for reaches the data plane after all, or is lost.
LateCommand(p, s) ==
  /\ <<p, s>> \in late
  /\ late' = late \ {<<p, s>>}
  /\ Store(p, s) \/ UNCHANGED <<dp, seen>>
  /\ UNCHANGED <<cp, call, starting>>

Restart(p) ==
  /\ Faults
  /\ Stop(p)
  /\ UNCHANGED <<cp, dp, seen>>

----------------------------------------------------------------------------

Progress(i) ==
  \/ SaveRefusal(i) \/ Command(i) \/ Reply(i) \/ SaveAfterReply(i)
  \/ Receive(i) \/ SaveRemoteRefusal(i) \/ CommandRemote(i)
  \/ DenyRequest(i) \/ SaveHandled(i)

Fail(i) ==
  \/ LoseRequest(i) \/ Timeout(i) \/ CommandFails(i) \/ RemoteCommandFails(i)

Next ==
  \/ \E i \in UserCall : RequestTransfer(i)
  \/ \E i \in UserCall, p \in Party, k \in ClientKind : ClientCall(i, p, k)
  \/ \E i \in AutoCall : AutomaticStart(i)
  \/ \E i \in Call : Progress(i) \/ Fail(i)
  \/ \E p \in Party, s \in State : LateCommand(p, s)
  \/ \E p \in Party : Restart(p)

Spec == Init /\ [][Next]_vars

\* Node's event loop runs every continuation in the end, and every request and
\* command is answered; clients need not call and faults need not happen.
Fairness == /\ \A i \in Call : WF_vars(Progress(i))
            /\ WF_vars(\E i \in AutoCall : AutomaticStart(i))

FairSpec == Spec /\ Fairness

----------------------------------------------------------------------------
(* Properties.                                                              *)

O == INSTANCE TransferOrder WITH reached <- seen

\* The four rows enter their states in the order of a transfer: whatever stale
\* copies are saved and however late a data plane obeys, no data plane is opened
\* before the request is accepted, the consumer's not before the provider's, and
\* no control plane takes an interruption or an end for recorded that either
\* data plane has not been told of.
TransferOrdered == O!Ordered

\* The same as a refinement: every step of the four processes is a step of the
\* abstract transfer, or leaves it unchanged.
ImplementsOrder == O!Spec

\* A client that is told its call succeeded can rely on it: the rows of both
\* control planes and of both data planes have been in the state it leads to.
AcknowledgedByAll ==
  \A i \in Call : call[i].pc = "done" =>
    \A pl \in Plane, p \in Party : Target(call[i].kind) \in seen[pl][p]

\* Nothing is under way: no call, no handler, no start, no stray command.
Quiescent ==
  /\ ~starting /\ late = {}
  /\ \A i \in Call : /\ ~Running(i)
                     /\ call[i].hpc \in {"none", "ok", "failed"}

\* With one call at a time and nothing failing, the four rows agree whenever
\* nothing is under way, also after calls that were refused.
QuietAgreement ==
  Quiescent /\ cp["consumer"] # Absent =>
    \E s \in State : \A p \in Party : cp[p].state = s /\ dp[p] = s

\* A request that was accepted starts by itself when the provider's data plane
\* answers with an address.
RequestedIsStarted ==
  (cp["consumer"].state = "REQUESTED") ~> (cp["consumer"].state = "STARTED")

\* The address is optional in a start: one that the provider's table allows is
\* not refused.
AllowedStartsSucceed ==
  \A i \in UserCall :
    LET c == call[i] IN
    c.kind = "start" /\ c.by = "provider" /\ c.pc = "failed" =>
      ~Allowed(c.by, c.copy.state, "STARTED")

\* Completing a transfer stops the data: when a completion has succeeded and
\* nothing is under way any more, no data plane serves the transfer.
CompletedStopsData ==
  /\ Quiescent
  /\ \E i \in Call : call[i].kind = "complete" /\ call[i].pc = "done"
  => \A p \in Party : dp[p] # "STARTED"
=============================================================================
