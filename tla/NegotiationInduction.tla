------------------------ MODULE NegotiationInduction ------------------------
(***************************************************************************)
(* The inductive invariants behind TypeOK, HandshakeOrder,                 *)
(* AcknowledgedByBoth and AgreementIssued: what a call, its handler and    *)
(* the copies they hold may still assume when they save, however old the   *)
(* copies are.  SerialInv, at the end, is the one behind                   *)
(* AgreementMatchesOffer and FinalizedOnSameAgreement.                     *)
(***************************************************************************)
EXTENDS Negotiation

\* A call under way has a kind, and what it or its handler goes on to save is a
\* row that existed.
Loaded ==
  \A i \in Call : LET c == call[i] IN
    /\ c.pc # "idle" => c.kind \in Kind
    /\ c.hpc # "none" => c.pc # "idle"
    /\ c.pc = "refusing" => c.copy \in Row
    /\ c.hpc \in {"refusing", "storing", "linking"} => c.hcopy \in Row

\* The types, with what keeps them.
TypeInv == TypeOK /\ Loaded

\* A call is made by the party whose operation it is, and only three kinds of
\* call have a handler that emits an event.
ByRole(i) ==
  LET c == call[i] IN
  /\ c.kind = "none" <=> c.pc = "idle"
  /\ c.kind \in {"none", "requestNew"} => c.by = "consumer"
  /\ c.kind \notin {"none", "requestNew"} => c.kind \in KindsOf(c.by)
  /\ i \in events => c.kind \in {"requestNew", "agree", "verify"}

\* What a call loaded was once in the row, and the change it goes on to make is
\* allowed from there.
CopySeen(i) ==
  LET c == call[i] IN
  /\ c.pc = "refusing" => c.copy.state \in seen[c.by]
  /\ c.kind # "requestNew"
       /\ (c.hpc # "none" \/ c.pc \in {"storing", "recording", "saving"})
     => /\ c.copy.state \in seen[c.by]
        /\ Allowed(c.by, c.copy.state, Target(c.kind))

\* The same for its handler.
RemoteCopySeen(i) ==
  LET c == call[i] IN
  /\ c.hpc \in {"refusing", "storing", "linking", "handling"} =>
       /\ c.kind # "requestNew"
       /\ c.hcopy.state \in seen[Peer(c.by)]
  /\ c.hpc \in {"storing", "linking", "handling"} =>
       Allowed(c.by, c.hcopy.state, Target(c.kind))

\* Who has recorded the new state at which point of the exchange.
Recorded(i) ==
  LET c == call[i] IN
  /\ c.pc = "recording" => SavesFirst(c.kind)
  /\ c.hpc # "none" /\ SavesFirst(c.kind) => Target(c.kind) \in seen[c.by]
  /\ c.hpc = "ok" => Target(c.kind) \in seen[Peer(c.by)]
  /\ c.pc = "saving" => c.hpc = "ok"
  /\ c.pc = "storing" /\ ~SavesFirst(c.kind) => c.hpc = "ok"
  /\ c.pc = "done" => c.hpc = "ok" /\ Target(c.kind) \in seen[c.by]

CallOrder(i) == ByRole(i) /\ CopySeen(i) /\ RemoteCopySeen(i) /\ Recorded(i)

\* A row's state is one its party has been in.
RowsSeen == \A p \in Party : Exists(p) => db[p].state \in seen[p]

\* Why the handshake is kept in order.
OrderInv ==
  TypeInv /\ RowsSeen /\ HandshakeOrder /\ \A i \in Call : CallOrder(i)

\* Agreement a has been made and stored by the provider.
Issued(a) ==
  a \in Call /\ call[a].kind = "agree" /\ a \in agreements["provider"]

\* A row links, and a copy of a row shows, only such an agreement, and only one
\* the row's own party has stored.
Holds(p, row) ==
  row.agr # None => Issued(row.agr) /\ row.agr \in agreements[p]

\* An agree call has stored its agreement before it saves or posts; the peer's
\* handler has before it saves.
StoredAgreement(i) ==
  LET c == call[i] IN c.kind = "agree" =>
    /\ c.pc \in {"recording", "saving"} \/ c.hpc # "none" =>
         i \in agreements["provider"]
    /\ c.hpc \in {"linking", "handling"} => i \in agreements["consumer"]

CallAgreement(i) ==
  /\ ByRole(i) /\ StoredAgreement(i)
  /\ Holds(call[i].by, call[i].copy)
  /\ Holds(Peer(call[i].by), call[i].hcopy)

\* Why the agreements are the provider's.
AgreementInv ==
  /\ TypeInv
  /\ \A p \in Party : Holds(p, db[p])
  /\ \A i \in Call : CallAgreement(i)

----------------------------------------------------------------------------
(* Behind AgreementMatchesOffer and FinalizedOnSameAgreement, which hold as *)
(* long as clients wait and nothing fails: what one call of each party may  *)
(* do to the rows until the consumer has an agreement, and that from then   *)
(* on no offer changes any more.                                            *)

ClientsWait == ~Faults /\ SerialClients

consumerRow == db["consumer"]
providerRow == db["provider"]

Runs(p, i) == call[i].by = p /\ Running(i)
Serving(i) == call[i].hpc \in {"refusing", "storing", "linking", "handling"}

\* Callers wait for their handlers.
Awaited(i) == LET c == call[i] IN
  /\ c.hpc = "sent" \/ Serving(i) => c.pc = "posted"
  /\ c.pc = "posted" => c.hpc # "none"
  /\ c.pc \in {"refusing", "recording"} => c.hpc = "none"
  /\ c.pc = "storing" => c.hpc = IF c.kind = "agree" THEN "none" ELSE "ok"
  /\ c.pc = "saving" => c.hpc = "ok" /\ ~SavesFirst(c.kind)
  /\ c.pc = "storing" => c.kind \in {"agree", "finalize"}
  /\ c.hpc = "storing" => c.kind \in {"agree", "finalize"}
  /\ c.hpc = "linking" => c.kind = "finalize"

\* Everything begins with the request, which succeeds; there is one.
Requested == \E n \in Call : call[n].kind = "requestNew"
RequestInv(n) == LET c == call[n] IN c.kind = "requestNew" =>
  /\ \A m \in Call : call[m].kind = "requestNew" => m = n
  /\ c.copy = Absent /\ c.hpc \in {"sent", "ok"}
  /\ c.pc \in {"posted", "saving", "done"}
  /\ c.pc # "done" => consumerRow = Absent
  /\ c.hpc = "sent" => providerRow = Absent
RequestFirst ==
  /\ \/ Requested
     \/ /\ \A p \in Party : db[p] = Absent
        /\ \A i \in Call : call[i].pc = "idle"
        /\ events = {}
  /\ \A n \in Call : RequestInv(n)
  /\ \A p \in Party : db[p] = Absent => seen[p] = {}

\* The states and offers a party's row has and may get from what is under way:
\* Mine(i) from call i of its own, Theirs(i) from the handler of a peer's call.
At(row) == [state |-> row.state, offer |-> row.offer]
Mine(i) == LET c == call[i] IN
  IF c.pc # "refusing" /\ (c.kind = "agree" \/ c.hpc = "ok")
    THEN [state |-> Target(c.kind), offer |-> Offer(i)]
    ELSE At(c.copy)
Theirs(i) == LET c == call[i] IN
  IF c.hpc = "refusing" THEN At(c.hcopy)
  ELSE [state |-> Target(c.kind),
        offer |-> IF c.kind \in {"requestExisting", "offer"}
                    THEN i ELSE c.hcopy.offer]
Answering(p, i) ==
  call[i].by = Peer(p) /\ call[i].hpc \in {"refusing", "handling"}
Prospects(p) ==
  {At(db[p])} \cup {Mine(i) : i \in {j \in Call : Runs(p, j)}}
              \cup {Theirs(i) : i \in {j \in Call : Answering(p, j)}}

\* The states in which an agreement may be made.
Open == {"REQUESTED", "ACCEPTED"}

\* Of a consumer's and a provider's prospect: if they could be agreed upon, they
\* are about one offer.
Fit(x, y) ==
  /\ x.state \in Open /\ y.state \in Open \cup {"AGREED"} =>
       x.offer = y.offer
  /\ x.state \in Open /\ y.state \in Open => x.state = y.state
  /\ x.state = "OFFERED" /\ y.state = "OFFERED" => x.offer = y.offer
AllFit ==
  \A x \in Prospects("consumer"), y \in Prospects("provider") : Fit(x, y)

\* Until the consumer has an agreement, each party has one call under way, and
\* nothing later than an agreement exists.
OneEach ==
  \A p \in Party : \A i, j \in Call : Runs(p, i) /\ Runs(p, j) => i = j

EarlyState(p) == {"NONE", "REQUESTED", "OFFERED", "ACCEPTED", "TERMINATED"}
                 \cup IF p = "provider" THEN {"AGREED"} ELSE {}
EarlyCall(i) == LET c == call[i] IN
  /\ Running(i) => /\ c.copy.state \in EarlyState(c.by)
                   /\ c.hcopy.state \in EarlyState(Peer(c.by))
                   /\ c.kind \in {"verify", "finalize"} => c.pc = "refusing"
  /\ i \in events => /\ c.kind = "requestNew"
                     /\ \A j \in Call : ~Runs("provider", j)
NothingLater ==
  /\ \A p \in Party : db[p].state \in EarlyState(p)
  /\ \A i \in Call : EarlyCall(i)

\* The consumer's row is open only as its call has loaded it; the provider's is
\* on offer only as its call has loaded it.
LoadedOpen(u) == call[u].kind # "requestNew" /\ consumerRow.state \in Open =>
  At(consumerRow) = At(call[u].copy)
LoadedOffer(v) == providerRow.state = "OFFERED" =>
  At(providerRow) = At(call[v].copy)

\* A handler refuses what is not allowed; never an answer to what is on offer,
\* nor, on the consumer's side, anything while the row is open.
RefusedOpen(i) == LET c == call[i] IN c.hpc = "refusing" =>
  /\ ~Allowed(c.by, c.hcopy.state, Target(c.kind))
  /\ IF c.by = "consumer" THEN c.hcopy.state # "OFFERED"
                          ELSE c.hcopy.state \notin Open

\* While the provider handles an answer to its offer, it does nothing else with
\* it.
Answer(u) == LET c == call[u] IN
  c.kind \in {"accept", "requestExisting"} /\ c.hpc = "handling" =>
    /\ providerRow.state \in {"OFFERED", "TERMINATED"} /\ providerRow.agr = None
    /\ c.kind = "accept" => c.hcopy.offer = c.copy.offer
    /\ \A v \in Call : Runs("provider", v) =>
         call[v].copy.state \in {"OFFERED", "TERMINATED"}

\* While the consumer handles an offer, it does nothing but terminate.
Offered(v) == LET c == call[v] IN c.kind = "offer" /\ c.hpc = "handling" =>
  /\ consumerRow.state \in {"REQUESTED", "TERMINATED"} /\ providerRow.agr = None
  /\ \A u \in Call : Runs("consumer", u) =>
       /\ call[u].kind # "requestNew"
       /\ call[u].copy.state \in {"REQUESTED", "TERMINATED"}

\* What is known to the provider of an open row is about one offer.
SameOffer(u) == Serving(u) =>
  /\ providerRow.state \in Open => call[u].hcopy.offer = providerRow.offer
  /\ \A v \in Call : Runs("provider", v) /\ call[v].copy.state \in Open =>
       call[v].copy.offer = call[u].hcopy.offer
SameOfferLoaded(v) == call[v].copy.state \in Open =>
  providerRow.offer = call[v].copy.offer

\* An agreement that was sent is linked.  While the consumer handles it, both
\* rows keep its offer.
Agreeing(v) == LET c == call[v]  o == call[v].copy.offer IN
  c.kind = "agree" /\ c.pc = "posted" =>
    /\ providerRow.agr = v
    /\ c.hpc \in {"storing", "handling"} =>
         /\ c.hcopy.offer = o /\ consumerRow.offer = o
         /\ consumerRow.state \in Open \cup {"TERMINATED"}
         /\ \A u \in Call : Runs("consumer", u) =>
              /\ call[u].kind # "requestNew" /\ call[u].copy.offer = o
              /\ call[u].copy.state \in Open \cup {"TERMINATED"}
         /\ \A y \in Prospects("provider") : y.state \in {"AGREED", "TERMINATED"}

\* The consumer can accept no agreement.
Shut == \A x \in Prospects("consumer") : x.state \in {"OFFERED", "TERMINATED"}

\* A provider that has made an agreement stays with its offer; if it could agree
\* once more the consumer could not.
Bound == providerRow.agr # None =>
  \A y \in Prospects("provider") :
    /\ y.offer = call[providerRow.agr].copy.offer /\ y.state # "OFFERED"
    /\ y.state \in Open => Shut

\* So it will be when the agreement under way is linked.
Binding(v) == LET c == call[v] IN
  c.kind = "agree" /\ c.pc \in {"storing", "recording"} =>
    /\ \A y \in Prospects("provider") : y.offer = c.copy.offer
    /\ providerRow.state # "OFFERED"
    /\ \A u \in Call : Answering("provider", u) =>
         /\ Theirs(u).state # "OFFERED"
         /\ Theirs(u).state \in Open => Shut

ConsumerCall(u) ==
  LoadedOpen(u) /\ RefusedOpen(u) /\ Answer(u) /\ SameOffer(u)
ProviderCall(v) ==
  /\ LoadedOffer(v) /\ RefusedOpen(v) /\ Offered(v) /\ SameOfferLoaded(v)
  /\ Agreeing(v) /\ Binding(v)

Early ==
  /\ OneEach /\ NothingLater /\ AllFit /\ Bound
  /\ \A i \in Call : /\ Runs("consumer", i) => ConsumerCall(i)
                     /\ Runs("provider", i) => ProviderCall(i)

\* Once the consumer has agreement a, everything that is saved keeps its offer,
\* and the provider makes no other.
LateState == {"AGREED", "VERIFIED", "FINALIZED", "TERMINATED"}
LateCall(i, a) == LET c == call[i]  o == call[a].copy.offer IN
  /\ Running(i) => c.copy.offer = o /\ c.kind # "requestNew"
  /\ Serving(i) => c.hcopy.offer = o
  /\ Runs("consumer", i) =>
       /\ c.copy.state # "OFFERED"
       /\ c.hpc = "refusing" => c.hcopy.state \in LateState
  /\ Runs("provider", i) =>
       /\ \/ i = a /\ c.pc = "posted"
          \/ c.copy.state \in LateState /\ c.copy.agr = a
       /\ Serving(i) => c.hcopy.state # "OFFERED" /\ c.hcopy.agr \in {a, None}
Late(a) ==
  /\ consumerRow.offer = call[a].copy.offer
  /\ consumerRow.state \notin {"NONE", "OFFERED"}
  /\ providerRow.agr = a /\ providerRow.offer = call[a].copy.offer
  /\ providerRow.state \in LateState
  /\ \A i \in Call : LateCall(i, a)

SerialInv ==
  /\ \A i \in Call : Awaited(i)
  /\ RequestFirst
  /\ IF consumerRow.agr = None THEN Early ELSE Late(consumerRow.agr)
=============================================================================
