---------------------------- MODULE Negotiation ----------------------------
(***************************************************************************)
(* Contract negotiation between two control planes, one the consumer and   *)
(* one the provider of a dataset (control-plane-api, NegotiationService).  *)
(*                                                                         *)
(* Each party keeps one database row for the negotiation.  A management    *)
(* client, or the automatic listener, makes calls; a call reads the row,   *)
(* checks the transition table, exchanges one HTTP request with the peer   *)
(* and saves the row it read.  The peer's handler does the same with the   *)
(* peer's row.  Every await between a read and the save of what was read   *)
(* is a place where other calls and handlers run, so a call is a record    *)
(* that remembers the copy it loaded.                                      *)
(***************************************************************************)
EXTENDS Naturals, NegotiationStates

CONSTANTS
  UserCall,       \* identifiers of the calls management clients may make
  AutoCall,       \* identifiers of the calls the event listener may make
  None,           \* no offer, no agreement
  Mode,           \* controlPlaneInteractions of each party
  PolicyOutcomes, \* can the offer match the dataset's policy (TRUE), or not
  SignOutcomes,   \* can the wallet sign (TRUE), or only the hash be sent
  Faults,         \* TRUE: requests, responses and processes may fail
  SerialClients   \* TRUE: a client waits for a call to end before the next

Call == UserCall \cup AutoCall
Modes == {"manual", "semi-manual", "automatic"}

ASSUME CallAssumption ==
  /\ UserCall \subseteq Nat /\ AutoCall \subseteq Nat
  /\ UserCall \cap AutoCall = {}
  /\ None \notin Call
ASSUME EnvironmentAssumption ==
  /\ Mode \in [Party -> Modes]
  /\ PolicyOutcomes \subseteq BOOLEAN
  /\ SignOutcomes \subseteq BOOLEAN
  /\ Faults \in BOOLEAN /\ SerialClients \in BOOLEAN

----------------------------------------------------------------------------
(* Calls: the operations of NegotiationService and the state each leads to. *)

KindsOf(p) == IF p = "consumer"
              THEN {"requestExisting", "accept", "verify", "terminate"}
              ELSE {"offer", "agree", "finalize", "terminate"}
Kind == {"requestNew"} \cup KindsOf("consumer") \cup KindsOf("provider")

Target(k) ==
  CASE k \in {"requestNew", "requestExisting"} -> "REQUESTED"
    [] k = "offer"     -> "OFFERED"
    [] k = "accept"    -> "ACCEPTED"
    [] k = "agree"     -> "AGREED"
    [] k = "verify"    -> "VERIFIED"
    [] k = "finalize"  -> "FINALIZED"
    [] k = "terminate" -> "TERMINATED"

\* Mutant: agree posts before it has saved.
SavesFirstVerifyOnly(k) == k = "verify"

\* agree and verify save their own row before they post; the others after.
SavesFirst(k) == k \in {"agree", "verify"}
Signs(k) == k \in {"verify", "finalize"}
\* Both ends of agree and finalize call storeAgreement before they save.
Stores(k) == k \in {"agree", "finalize"}

\* Offers and agreements are named by the call that made them.
Ref == Call \cup {None}
Absent == [state |-> "NONE", offer |-> None, agr |-> None]
Row == [state : State, offer : Ref, agr : Ref]
Copy == Row \cup {Absent}

\* The caller's progress, and that of its request and the peer's handler.
Pc == {"idle", "refusing", "storing", "recording", "posted", "saving", "done",
       "failed"}
HPc == {"none", "sent", "refusing", "storing", "linking", "handling", "ok",
        "failed"}

\* copy and hcopy are the rows the caller and the handler loaded.
CallType ==
  [kind : Kind \cup {"none"}, by : Party, pc : Pc, hpc : HPc,
   copy : Copy, hcopy : Copy, signed : BOOLEAN]

Idle == [kind |-> "none", by |-> "consumer", pc |-> "idle", hpc |-> "none",
         copy |-> Absent, hcopy |-> Absent, signed |-> FALSE]

VARIABLES
  db,         \* db[p]: party p's row of the negotiation, Absent until it exists
  agreements, \* agreements[p]: the rows of p's agreement table
  call,       \* call[i]: call i, with its HTTP exchange and remote handler
  events,     \* calls whose handler's event no listener has taken yet
  seen        \* history: the states p's row has been in

vars == <<db, agreements, call, events, seen>>

TypeOK ==
  /\ db \in [Party -> Copy]
  /\ agreements \in [Party -> SUBSET Ref]
  /\ call \in [Call -> CallType]
  /\ events \subseteq Call
  /\ seen \in [Party -> SUBSET State]

Init ==
  /\ db = [p \in Party |-> Absent]
  /\ agreements = [p \in Party |-> {}]
  /\ call = [i \in Call |-> Idle]
  /\ events = {}
  /\ seen = [p \in Party |-> {}]

Exists(p) == db[p] # Absent

\* What call i's message carries: a new offer or the stored one; a new agreement
\* or the one linked to the caller's row.
Offer(i) == IF call[i].kind \in {"requestNew", "requestExisting", "offer"}
            THEN i ELSE call[i].copy.offer
Agreement(i) == IF call[i].kind = "agree" THEN i ELSE call[i].copy.agr

\* repository.save of a loaded copy: every column but the link to the agreement
\* is written with the copy's value; the link only when the caller sets it.
Save(p, s, offer, link) ==
  /\ db' = [db EXCEPT ![p] =
              [state |-> s, offer |-> offer,
               agr |-> IF link = None THEN @.agr ELSE link]]
  /\ seen' = [seen EXCEPT ![p] = @ \cup {s}]

----------------------------------------------------------------------------
(* The caller's side.                                                       *)

\* Identifiers are handed out in order.
Fresh(i, S) ==
  /\ i \in S
  /\ call[i].pc = "idle"
  /\ \A j \in S : call[j].pc = "idle" => i <= j

Running(i) == call[i].pc \notin {"idle", "done", "failed"}

ClientFree(p) ==
  SerialClients =>
    /\ \A j \in Call : call[j].by = p => ~Running(j)
    /\ \A j \in events : call[j].by = p

\* requestNew posts before any row exists; the modelled negotiation is one.
RequestNew(i) ==
  /\ Fresh(i, UserCall)
  /\ \A j \in Call : call[j].kind # "requestNew"
  /\ call' = [call EXCEPT ![i] =
        [Idle EXCEPT !.kind = "requestNew", !.pc = "posted", !.hpc = "sent"]]
  /\ UNCHANGED <<db, agreements, events, seen>>

\* Load the row and check the transition.  A refused call goes on to save the
\* copy with a note of the refusal; agree and verify go on to store and save;
\* the others post their request.  The wallet signs the agreement, or fails to.
Begin(i, p, k) ==
  LET ok == Allowed(p, db[p].state, Target(k))
      posts == ok /\ ~SavesFirst(k)
  IN /\ Exists(p)
     /\ \E sg \in IF ok /\ Signs(k) THEN SignOutcomes ELSE {FALSE} :
          call' = [call EXCEPT ![i] =
            [kind |-> k, by |-> p,
             pc |-> IF posts THEN "posted"
                    ELSE IF ~ok THEN "refusing"
                    ELSE IF Stores(k) THEN "storing" ELSE "recording",
             hpc |-> IF posts THEN "sent" ELSE "none",
             copy |-> db[p], hcopy |-> Absent, signed |-> sg]]
     /\ UNCHANGED <<db, agreements, seen>>

\* A management client of party p makes a call.
ClientCall(i, p, k) ==
  /\ Fresh(i, UserCall)
  /\ ClientFree(p)
  /\ Begin(i, p, k)
  /\ UNCHANGED events

\* checkTransition: a refused call saves the copy it loaded, then throws.
SaveRefusal(i) ==
  LET c == call[i] IN
  /\ c.pc = "refusing"
  /\ Save(c.by, c.copy.state, c.copy.offer, None)
  /\ call' = [call EXCEPT ![i].pc = "failed"]
  /\ UNCHANGED <<agreements, events>>

\* storeAgreement, on the caller's side: before agree saves and posts, and once
\* the response to finalize is in.
StoreAgreement(i) ==
  LET c == call[i] IN
  /\ c.pc = "storing"
  /\ agreements' = [agreements EXCEPT ![c.by] = @ \cup {Agreement(i)}]
  /\ call' = [call EXCEPT ![i].pc =
                IF SavesFirst(c.kind) THEN "recording" ELSE "saving"]
  /\ UNCHANGED <<db, events, seen>>

\* The link a save makes: of the agreement just stored, or none.
Link(i) == IF Stores(call[i].kind) THEN Agreement(i) ELSE None

\* agree and verify: save the new state, then post.
RecordThenPost(i) ==
  LET c == call[i] IN
  /\ c.pc = "recording"
  /\ Save(c.by, Target(c.kind), Offer(i), Link(i))
  /\ call' = [call EXCEPT ![i].pc = "posted", ![i].hpc = "sent"]
  /\ UNCHANGED <<agreements, events>>

\* Mutant: an error response is taken for a success.
ReplyUnchecked(i) ==
  LET c == call[i] IN
  /\ c.pc = "posted"
  /\ c.hpc \in {"ok", "failed"}
  /\ call' = [call EXCEPT ![i].pc =
                IF SavesFirst(c.kind) THEN "done"
                ELSE IF Stores(c.kind) THEN "storing" ELSE "saving"]
  /\ UNCHANGED <<db, agreements, events, seen>>

\* The HTTP response arrives.  An error is thrown to the client, and a call that
\* has not saved yet never will; agree and verify end.
Reply(i) ==
  LET c == call[i] IN
  /\ c.pc = "posted"
  /\ c.hpc \in {"ok", "failed"}
  /\ call' = [call EXCEPT ![i].pc =
                IF c.hpc = "failed" THEN "failed"
                ELSE IF SavesFirst(c.kind) THEN "done"
                ELSE IF Stores(c.kind) THEN "storing" ELSE "saving"]
  /\ UNCHANGED <<db, agreements, events, seen>>

\* Mutant: the offer that was sent is not recorded.
SaveAfterReplyOldOffer(i) ==
  LET c == call[i] IN
  /\ c.pc = "saving"
  /\ Save(c.by, Target(c.kind), c.copy.offer, Link(i))
  /\ call' = [call EXCEPT ![i].pc = "done"]
  /\ UNCHANGED <<agreements, events>>

\* The calls that post first save their copy once the response is in.
SaveAfterReply(i) ==
  LET c == call[i] IN
  /\ c.pc = "saving"
  /\ Save(c.by, Target(c.kind), Offer(i), Link(i))
  /\ call' = [call EXCEPT ![i].pc = "done"]
  /\ UNCHANGED <<agreements, events>>

----------------------------------------------------------------------------
(* The peer's handler of call i.                                            *)

\* Mutant: the listener is not told of a verification.
EmittingNoVerification(i) ==
  /\ Mode[Peer(call[i].by)] # "manual"
  /\ call[i].kind \in {"requestNew", "agree"}

\* A party that is not "manual" emits an event when it has stored a new request,
\* an agreement or a verification.
Emitting(i) ==
  /\ Mode[Peer(call[i].by)] # "manual"
  /\ call[i].kind \in {"requestNew", "agree", "verify"}

Emit(i) == events' = IF Emitting(i) THEN events \cup {i} ELSE events

\* handleNewRequest creates the provider's row.
HandleNewRequest(i) ==
  /\ call[i].kind = "requestNew" /\ call[i].hpc = "sent"
  /\ Save("provider", "REQUESTED", Offer(i), None)
  /\ call' = [call EXCEPT ![i].hpc = "ok"]
  /\ Emit(i)
  /\ UNCHANGED agreements

\* A signature is over the sender's agreement: it validates against the
\* receiver's own.  A plain hash is not compared with anything.
ProofAccepted(i, row) == call[i].signed => row.agr = Agreement(i)

\* Mutant: no 404 for a negotiation that does not exist.
HandleMissing(i) ==
  LET c    == call[i]
      row  == db[Peer(c.by)]
      next == IF ~Allowed(c.by, row.state, Target(c.kind)) THEN "refusing"
              ELSE IF Signs(c.kind) /\ ~ProofAccepted(i, row) THEN "failed"
              ELSE IF Stores(c.kind) THEN "storing" ELSE "handling"
  IN /\ c.hpc = "sent" /\ c.kind # "requestNew"
     /\ call' = [call EXCEPT
          ![i].hpc = next,
          ![i].hcopy = IF next = "failed" THEN Absent ELSE row]
     /\ UNCHANGED <<db, agreements, events, seen>>

\* Mutant: the handler does not check the transition.
HandleUnchecked(i) ==
  LET c    == call[i]
      row  == db[Peer(c.by)]
      next == IF row = Absent THEN "failed"
              ELSE IF Signs(c.kind) /\ ~ProofAccepted(i, row) THEN "failed"
              ELSE IF Stores(c.kind) THEN "storing" ELSE "handling"
  IN /\ c.hpc = "sent" /\ c.kind # "requestNew"
     /\ call' = [call EXCEPT
          ![i].hpc = next,
          ![i].hcopy = IF next = "failed" THEN Absent ELSE row]
     /\ UNCHANGED <<db, agreements, events, seen>>

\* Load the row, 404 if there is none; check the transition against the
\* sender's table; validate the signature of a verification or finalization.
Handle(i) ==
  LET c    == call[i]
      row  == db[Peer(c.by)]
      next == IF row = Absent THEN "failed"
              ELSE IF ~Allowed(c.by, row.state, Target(c.kind)) THEN "refusing"
              ELSE IF Signs(c.kind) /\ ~ProofAccepted(i, row) THEN "failed"
              ELSE IF Stores(c.kind) THEN "storing" ELSE "handling"
  IN /\ c.hpc = "sent" /\ c.kind # "requestNew"
     /\ call' = [call EXCEPT
          ![i].hpc = next,
          ![i].hcopy = IF next = "failed" THEN Absent ELSE row]
     /\ UNCHANGED <<db, agreements, events, seen>>

\* checkTransition at the peer: it saves its copy and answers 400.
SaveRemoteRefusal(i) ==
  LET c == call[i] IN
  /\ c.hpc = "refusing"
  /\ Save(Peer(c.by), c.hcopy.state, c.hcopy.offer, None)
  /\ call' = [call EXCEPT ![i].hpc = "failed", ![i].hcopy = Absent]
  /\ UNCHANGED <<agreements, events>>

\* storeAgreement in the handler: the agreement of the message, or for a
\* finalization the one linked to the row the handler loaded.
StoreRemoteAgreement(i) ==
  LET c == call[i] IN
  /\ c.hpc = "storing"
  /\ agreements' = [agreements EXCEPT ![Peer(c.by)] = @ \cup
        {IF c.kind = "agree" THEN Agreement(i) ELSE c.hcopy.agr}]
  /\ call' = [call EXCEPT ![i].hpc =
                IF c.kind = "agree" THEN "handling" ELSE "linking"]
  /\ UNCHANGED <<db, events, seen>>

\* handleEvent(FINALIZED) saves its copy twice: first, still in the old state,
\* with the agreement it has stored.
LinkFinalized(i) ==
  LET c == call[i] IN
  /\ c.hpc = "linking"
  /\ Save(Peer(c.by), c.hcopy.state, c.hcopy.offer, c.hcopy.agr)
  /\ call' = [call EXCEPT ![i].hpc = "handling"]
  /\ UNCHANGED <<agreements, events>>

\* Mutant: the handler of an agreement does not link the row to it.
SaveHandledUnlinked(i) ==
  LET c == call[i] IN
  /\ c.hpc = "handling"
  /\ Save(Peer(c.by), Target(c.kind),
          IF c.kind \in {"requestExisting", "offer"} THEN Offer(i)
                                                     ELSE c.hcopy.offer, None)
  /\ call' = [call EXCEPT ![i].hpc = "ok", ![i].hcopy = Absent]
  /\ Emit(i)
  /\ UNCHANGED agreements

\* Save the new state, with the offer or the agreement the message carries, and
\* answer 200.
SaveHandled(i) ==
  LET c == call[i] IN
  /\ c.hpc = "handling"
  /\ Save(Peer(c.by), Target(c.kind),
          IF c.kind \in {"requestExisting", "offer"} THEN Offer(i)
                                                     ELSE c.hcopy.offer,
          IF c.kind = "agree" THEN Agreement(i) ELSE None)
  /\ call' = [call EXCEPT ![i].hpc = "ok", ![i].hcopy = Absent]
  /\ Emit(i)
  /\ UNCHANGED agreements

----------------------------------------------------------------------------
(* NegotiationListener: the automatic reactions to a party's own events.    *)

\* What the listener of party p does about the event of call i, given whether
\* the offer matches the dataset's policy: one call at most.
Reaction(p, i, match) ==
  CASE call[i].kind = "agree"  -> {"verify"}
    [] call[i].kind = "verify" -> {"finalize"}
    [] OTHER -> IF match THEN {"agree"}
                ELSE IF Mode[p] = "automatic" THEN {"terminate"} ELSE {}

ListenerCall(i, j) ==
  LET p == Peer(call[i].by) IN
  /\ i \in events
  /\ Fresh(j, AutoCall)
  /\ \E match \in PolicyOutcomes : \E k \in Reaction(p, i, match) :
       Begin(j, p, k)
  /\ events' = events \ {i}

\* semi-manual: an offer that does not match is left for the user.
ListenerIgnores(i) ==
  LET p == Peer(call[i].by) IN
  /\ i \in events
  /\ \E match \in PolicyOutcomes : Reaction(p, i, match) = {}
  /\ events' = events \ {i}
  /\ UNCHANGED <<db, agreements, call, seen>>

----------------------------------------------------------------------------
(* Faults.                                                                  *)

\* The request does not reach the peer, or its handler throws before a save.
LoseRequest(i) ==
  /\ Faults
  /\ call[i].hpc = "sent"
  /\ call' = [call EXCEPT ![i].hpc = "failed"]
  /\ UNCHANGED <<db, agreements, events, seen>>

\* The response is lost or the 30 s timeout of the HTTP client expires; the
\* request may still be handled.
Timeout(i) ==
  /\ Faults
  /\ call[i].pc = "posted"
  /\ call' = [call EXCEPT ![i].pc = "failed"]
  /\ UNCHANGED <<db, agreements, events, seen>>

\* A control plane process stops and starts again: its calls, handlers and
\* events are gone, its database is not.
Restart(p) ==
  /\ Faults
  /\ call' = [i \in Call |->
       IF call[i].by = p /\ Running(i)
         THEN [call[i] EXCEPT !.pc = "failed"]
       ELSE IF call[i].by = Peer(p)
                /\ call[i].hpc \in
                     {"refusing", "storing", "linking", "handling"}
         THEN [call[i] EXCEPT !.hpc = "failed", !.hcopy = Absent]
       ELSE call[i]]
  /\ events' = {i \in events : call[i].by = p}
  /\ UNCHANGED <<db, agreements, seen>>

----------------------------------------------------------------------------

Progress(i) ==
  \/ SaveRefusal(i) \/ StoreAgreement(i) \/ RecordThenPost(i)
  \/ Reply(i) \/ SaveAfterReply(i)
  \/ HandleNewRequest(i) \/ Handle(i) \/ SaveRemoteRefusal(i)
  \/ StoreRemoteAgreement(i) \/ LinkFinalized(i) \/ SaveHandled(i)

Listen(i) == ListenerIgnores(i) \/ \E j \in AutoCall : ListenerCall(i, j)

Next ==
  \/ \E i \in UserCall : RequestNew(i)
  \/ \E i \in UserCall, p \in Party : \E k \in KindsOf(p) : ClientCall(i, p, k)
  \/ \E i \in Call : Progress(i)
  \/ \E i \in Call : Listen(i)
  \/ \E i \in Call : LoseRequest(i) \/ Timeout(i)
  \/ \E p \in Party : Restart(p)

Spec == Init /\ [][Next]_vars

\* Node's event loop runs every continuation and every listener in the end, and
\* each request is answered; clients need not call and faults need not happen.
Fairness == /\ \A i \in Call : WF_vars(Progress(i))
            /\ \A i \in Call : WF_vars(Listen(i))

FairSpec == Spec /\ Fairness

----------------------------------------------------------------------------
(* Properties.                                                              *)

H == INSTANCE Handshake WITH reached <- seen

\* The parties enter the states of the protocol in its order, each step on one
\* side only after what it builds on is recorded on the other: whatever stale
\* copies are saved, no party is ahead of what its peer has taken part in.
HandshakeOrder == H!Ordered

\* The same as a refinement: every step of the two control planes is a step of
\* the abstract handshake, or leaves it unchanged.
ImplementsHandshake == H!Spec

\* An agreement linked to either party's row has been issued by the provider,
\* which has stored it: the consumer never holds one that its provider lacks.
AgreementIssued ==
  \A p \in Party : db[p].agr # None =>
    /\ db[p].agr \in agreements[p] \cap agreements["provider"]
    /\ call[db[p].agr].kind = "agree"

\* A client that is told its call succeeded can rely on it: both parties' rows
\* have been in the state the call leads to.
AcknowledgedByBoth ==
  \A i \in Call : call[i].pc = "done" =>
    \A p \in Party : Target(call[i].kind) \in seen[p]

\* The agreement a party holds is on the offer that party's own row shows: the
\* offer last requested, or last offered and accepted.
AgreementMatchesOffer ==
  \A p \in Party : db[p].agr # None => call[db[p].agr].copy.offer = db[p].offer

\* When both parties have finalized the negotiation, they have the same
\* agreement.
FinalizedOnSameAgreement ==
  (\A p \in Party : db[p].state = "FINALIZED") =>
    db["consumer"].agr = db["provider"].agr

\* A finalized negotiation stays finalized: terminating it is refused.
FinalizedIsFinal ==
  [][\A p \in Party :
       db[p].state = "FINALIZED" => db'[p].state = "FINALIZED"]_vars

\* In automatic mode a request is settled without a user: finalized by both
\* parties or terminated by both.
AutomaticSettles ==
  Exists("provider") ~>
    \E s \in {"FINALIZED", "TERMINATED"} : \A p \in Party : db[p].state = s

\* Once the consumer has the agreement, the listeners of an automatic consumer
\* and its provider carry the negotiation to its end without a user: both
\* finalize it, unless a user makes a call of their own.
AgreedIsFinalized ==
  (db["consumer"].state = "AGREED") ~>
    \/ \A p \in Party : db[p].state = "FINALIZED"
    \/ \E i \in UserCall : call[i].kind \notin {"none", "requestNew"}
=============================================================================
