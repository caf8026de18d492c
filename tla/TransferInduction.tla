------------------------- MODULE TransferInduction -------------------------
(***************************************************************************)
(* The inductive invariants behind TypeOK, TransferOrdered and             *)
(* AcknowledgedByAll: what a call, its handler, the copies they hold and a *)
(* command that is late may still assume when they save or store, however  *)
(* old the copies are; and the one behind QuietAgreement: which rows a     *)
(* call has already changed when no other call is in its way.              *)
(***************************************************************************)
EXTENDS Transfer

\* A call under way has a kind, and a refused call or handler goes on to save a
\* row that existed.
Loaded ==
  \A i \in Call : LET c == call[i] IN
    /\ c.kind = "none" <=> c.pc = "idle"
    /\ c.hpc # "none" => c.pc # "idle"
    /\ c.pc = "refusing" => c.copy \in Row
    /\ c.hpc = "refusing" => c.hcopy \in Row

\* The types, with what keeps them.
TypeInv == TypeOK /\ Loaded

\* What a call loaded was once in the row, and the change it goes on to make is
\* allowed from there; a request loads nothing and is the consumer's.
CopySeen(i) ==
  LET c == call[i] IN
  /\ c.kind = "request" => c.by = "consumer" /\ c.pc # "refusing"
  /\ c.pc = "refusing" => c.copy.state \in seen["control"][c.by]
  /\ c.kind # "request" /\ (c.hpc # "none" \/ c.pc = "commanding") =>
       /\ c.copy.state \in seen["control"][c.by]
       /\ Allowed(c.by, c.copy.state, Target(c.kind))

\* The same for its handler.
RemoteCopySeen(i) ==
  LET c == call[i] IN
  /\ c.hpc = "refusing" => c.hcopy.state \in seen["control"][Peer(c.by)]
  /\ c.kind # "request" /\ c.hpc \in {"commanding", "handling"} =>
       /\ c.hcopy.state \in seen["control"][Peer(c.by)]
       /\ Allowed(c.by, c.hcopy.state, Target(c.kind))

\* Which rows have been in the new state at which point of the exchange: the
\* sender's data plane, the receiver's, the receiver's control plane, and last
\* the sender's.
Recorded(i) ==
  LET c == call[i]  s == Target(c.kind) IN
  /\ c.hpc # "none" => s \in seen["data"][c.by]
  /\ c.hpc \in {"handling", "ok"} => s \in seen["data"][Peer(c.by)]
  /\ c.hpc = "ok" => s \in seen["control"][Peer(c.by)]
  /\ c.pc \in {"saving", "done"} => c.hpc = "ok"
  /\ c.pc = "done" => s \in seen["control"][c.by]

CallOrder(i) == CopySeen(i) /\ RemoteCopySeen(i) /\ Recorded(i)

\* A row's state is one it has been in.
RowsSeen ==
  \A p \in Party : cp[p] # Absent => cp[p].state \in seen["control"][p]

\* A late command may be obeyed at any time.
LateReady == \A m \in late : O!Ready("data", m[1], m[2])

\* Why the four rows are kept in order.
OrderInv ==
  /\ TypeInv /\ RowsSeen /\ LateReady /\ TransferOrdered
  /\ \A i \in Call : CallOrder(i)

\* One client call at a time, nothing fails, and every start names an address.
OneByOne == ~Faults /\ SerialClients /\ ~AutoStart /\ FALSE \notin AddressGiven

\* Only clients call, one at a time, and a handler runs while its caller waits.
Alone ==
  /\ ~starting /\ late = {}
  /\ \A i \in AutoCall : call[i].pc = "idle"
  /\ \A i, j \in Call : Running(i) /\ Running(j) => i = j
  /\ \A i \in Call :
       /\ call[i].hpc = "sent" \/ Handling(i) => call[i].pc = "posted"
       /\ call[i].pc \in {"refusing", "commanding"} => call[i].hpc = "none"
       /\ call[i].pc = "posted" => call[i].hpc # "none"
       /\ call[i].pc = "saving" => call[i].hpc = "ok"

RowsIn(s) == \A p \in Party : cp[p].state = s /\ dp[p] = s

\* Which of the four rows the call that is under way has brought from the state
\* all of them had into the new one.  Only a request can be turned away, and it
\* leaves no row in a control plane.
Halfway(i) ==
  LET c == call[i]  p == c.by  q == Peer(c.by)
      s == c.copy.state  t == Target(c.kind) IN
  /\ IF c.kind = "request" THEN s = "NONE" /\ p = "consumer" ELSE s \in State
  /\ c.pc \in {"commanding", "posted"} /\ c.kind # "request" => Allowed(p, s, t)
  /\ c.kind = "start" /\ c.pc # "refusing" => c.addr
  /\ c.hpc # "refusing" /\ (c.hpc = "failed" => c.kind = "request")
  /\ cp[p].state = s
  /\ cp[q].state = IF c.hpc = "ok" THEN t ELSE s
  /\ dp[p] = IF c.pc \in {"refusing", "commanding"} THEN s ELSE t
  /\ dp[q] = IF c.hpc \in {"handling", "ok", "failed"} THEN t ELSE s

NoTransfer == \A p \in Party : cp[p] = Absent
Requested == \E i \in Call : call[i].kind = "request"

\* Why the four rows agree when nothing is under way.
QuietInv ==
  /\ Alone
  /\ \A i \in Call : Running(i) => Halfway(i)
  /\ Requested \/ (RowsIn("NONE") /\ \A i \in Call : call[i].pc = "idle")
  /\ (\A i \in Call : ~Running(i)) =>
       (\E s \in State : RowsIn(s)) \/ NoTransfer
=============================================================================
