------------------------- MODULE ProjectAgreements -------------------------
(***************************************************************************)
(* Signing a project agreement (analytics-data-plane-api,                  *)
(* ProjectAgreementsService).                                              *)
(*                                                                         *)
(* The initiator stores the agreement and asks every worker to sign it.  A *)
(* worker signs when its user says so and posts the signature back.  The   *)
(* callback that brings the last signature makes the initiator sign, store *)
(* the hash of all signatures and, in the background, send the hash to     *)
(* every worker.  Every handler loads the row, awaits the wallet or a peer *)
(* and saves the row it loaded; between the two, others run.               *)
(***************************************************************************)
EXTENDS Naturals, FiniteSets

CONSTANTS
  Initiator,      \* the party that creates the agreement
  Worker,         \* the other parties of it
  SignCall,       \* the calls that sign the agreement at a worker
  LinkCall,       \* the calls that link a dataset to it, or unlink it
  None,           \* no hash
  Calms,          \* TRUE: nothing fails and calls do not overlap
  MaxWork         \* bound: calls and faults together, if not calm

Party == Worker \cup {Initiator}

ASSUME CallAssumption == SignCall \subseteq Nat /\ LinkCall \subseteq Nat
ASSUME PartyAssumption == Initiator \notin Worker
ASSUME NoneAssumption == None \notin SignCall
ASSUME CalmAssumption == Calms \subseteq BOOLEAN /\ MaxWork \in Nat

----------------------------------------------------------------------------
(* Rows and calls.                                                          *)

Status == {"NONE", "WAITING_FOR_SIGNATURES", "SIGNATURE_REQUESTED", "SIGNED",
           "FINALIZED"}

\* The signatures are known by their signers.  A hash is known by the call that
\* completed the signatures: the initiator signs anew each time.
Row == [status : Status, sigs : SUBSET Party, hash : SignCall \cup {None},
        linked : BOOLEAN]

Absent == [status |-> "NONE", sigs |-> {}, hash |-> None, linked |-> FALSE]

\* The progress of a worker that signs, of the callback's handler, of the
\* finalization it schedules, of a message to a worker, and of a linking call.  A
\* message goes over a transfer of its own: its sender is "listening" for the
\* event of the transfer's start, or has "missed" it and waits for ever.
SignPc == {"idle", "posted", "done", "failed"}
BackPc == {"none", "sent", "validating", "countersigning", "offering", "ok",
           "failed"}
FinalPc == {"none", "sending", "done", "failed"}
SendPc == {"none", "todo", "listening", "missed", "handling", "stored",
           "failed"}
LinkPc == {"idle", "updating", "saving", "done", "failed"}

VARIABLES
  row,     \* row[p]: the agreement in the database of p
  ask,     \* ask[w]: the initiator's request for w's signature
  sign,    \* sign[c]: a signing call, with the row it loaded
  back,    \* back[c]: the handler of its callback, with the row it loaded
  final,   \* final[c]: the finalization the handler schedules
  send,    \* send[c][w]: its message to w, with the row the handler loaded
  link,    \* link[l]: a linking call, with the row it loaded
  policy,  \* policy[p]: p's dataset has the agreement's policy
  calm,    \* chosen once: nothing fails and calls do not overlap
  faults,  \* the failures so far
  stored   \* history: stored[w] are the hashes w has finalized on

vars ==
  <<row, ask, sign, back, final, send, link, policy, calm, faults, stored>>

TypeOK ==
  /\ row \in [Party -> Row]
  /\ ask \in [Worker -> SendPc]
  /\ sign \in [SignCall -> [by : Party, pc : SignPc, copy : Row]]
  /\ back \in [SignCall -> [pc : BackPc, copy : Row]]
  /\ final \in [SignCall -> FinalPc]
  /\ send \in [SignCall -> [Worker -> [pc : SendPc, copy : Row]]]
  /\ link \in [LinkCall -> [by : Party, on : BOOLEAN, pc : LinkPc, copy : Row]]
  /\ policy \in [Party -> BOOLEAN]
  /\ calm \in BOOLEAN /\ faults \in Nat
  /\ stored \in [Worker -> SUBSET SignCall]

Unsent == [pc |-> "none", copy |-> Absent]

Init ==
  /\ row = [p \in Party |-> Absent]
  /\ ask = [w \in Worker |-> "none"]
  /\ sign = [c \in SignCall |->
       [by |-> Initiator, pc |-> "idle", copy |-> Absent]]
  /\ back = [c \in SignCall |-> Unsent]
  /\ final = [c \in SignCall |-> "none"]
  /\ send = [c \in SignCall |-> [w \in Worker |-> Unsent]]
  /\ link = [l \in LinkCall |->
       [by |-> Initiator, on |-> FALSE, pc |-> "idle", copy |-> Absent]]
  /\ policy = [p \in Party |-> FALSE]
  /\ calm \in Calms /\ faults = 0
  /\ stored = [w \in Worker |-> {}]

Signing(c) == sign[c].pc = "posted"
Handling(c) == back[c].pc \in {"sent", "validating", "countersigning",
                               "offering"}
Linking(l) == link[l].pc \in {"updating", "saving"}

\* Nothing is under way, but for finalizations.
Idle == /\ \A c \in SignCall : ~Signing(c) /\ ~Handling(c)
        /\ \A l \in LinkCall : ~Linking(l)

\* A request or a message that goes on without a user.
Underway == {"todo", "listening", "handling"}

\* A finalization that has missed the start of a transfer never ends.
Hung(c) == \E w \in Worker : send[c][w].pc = "missed"

Quiet ==
  /\ Idle
  /\ \A w \in Worker : ask[w] \notin Underway
  /\ \A c \in SignCall : /\ final[c] = "sending" => Hung(c)
                         /\ \A w \in Worker : send[c][w].pc \notin Underway

\* One of the records moves on.
SetSign(c, w, pc, r) ==
  sign' = [sign EXCEPT ![c] = [by |-> w, pc |-> pc, copy |-> r]]
SetBack(c, pc, r) == back' = [back EXCEPT ![c] = [pc |-> pc, copy |-> r]]
SetSend(c, w, pc, r) ==
  send' = [send EXCEPT ![c][w] = [pc |-> pc, copy |-> r]]
SetLink(l, p, on, pc, r) ==
  link' = [link EXCEPT ![l] = [by |-> p, on |-> on, pc |-> pc, copy |-> r]]

\* repository.save of a loaded row: every column is written.
Save(p, r) == row' = [row EXCEPT ![p] = r]

\* MaxWork is not used up.
Bounded ==
  calm \/ Cardinality({c \in SignCall : sign[c].pc # "idle"})
            + Cardinality({l \in LinkCall : link[l].pc # "idle"})
            + faults < MaxWork

Fault == ~calm /\ Bounded /\ faults' = faults + 1

\* The process of p stops and starts again: what it was doing is forgotten.
Stop(p) ==
  /\ sign' = [c \in SignCall |->
       IF sign[c].by = p /\ Signing(c)
         THEN [by |-> p, pc |-> "failed", copy |-> Absent] ELSE sign[c]]
  /\ back' = [c \in SignCall |->
       IF p = Initiator /\ Handling(c)
         THEN [pc |-> "failed", copy |-> Absent] ELSE back[c]]
  /\ final' = [c \in SignCall |->
       IF p = Initiator /\ final[c] = "sending" THEN "failed" ELSE final[c]]
  /\ send' = [c \in SignCall |-> [w \in Worker |->
       IF \/ p = Initiator /\ send[c][w].pc \in {"todo", "listening", "missed"}
          \/ p = w /\ send[c][w].pc = "handling"
         THEN [pc |-> "failed", copy |-> Absent] ELSE send[c][w]]]
  /\ link' = [l \in LinkCall |->
       IF link[l].by = p /\ Linking(l)
         THEN [by |-> p, on |-> link[l].on, pc |-> "failed", copy |-> Absent]
         ELSE link[l]]
  /\ ask' = [w \in Worker |->
       IF p = Initiator /\ ask[w] # "stored" THEN "none" ELSE ask[w]]
  /\ UNCHANGED <<row, policy, calm, stored>>

----------------------------------------------------------------------------
(* The agreement is created and signatures are requested.                   *)

\* Mutant: a status no reader of the row knows.
CreateUnknown ==
  /\ row[Initiator] = Absent
  /\ Save(Initiator, [Absent EXCEPT !.status = "CREATED"])
  /\ ask' = [w \in Worker |-> "todo"]
  /\ UNCHANGED <<sign, back, final, send, link, policy, calm, faults, stored>>

Create ==
  /\ row[Initiator] = Absent
  /\ Save(Initiator, [Absent EXCEPT !.status = "WAITING_FOR_SIGNATURES"])
  /\ ask' = [w \in Worker |-> "todo"]
  /\ UNCHANGED <<sign, back, final, send, link, policy, calm, faults, stored>>

\* initiateTransfer has negotiated, requested the transfer and read its row, and
\* listens for the event of its start; an earlier start has been missed.
ListenForRequest(w) ==
  /\ ask[w] = "todo"
  /\ \E pc \in {"listening", "missed"} : ask' = [ask EXCEPT ![w] = pc]
  /\ UNCHANGED <<row, sign, back, final, send, link, policy, calm, faults, stored>>

\* The transfer starts and the request is sent: handleSignatureRequestMessage.
ReceiveRequest(w) ==
  /\ ask[w] = "listening"
  /\ Save(w, [Absent EXCEPT !.status = "SIGNATURE_REQUESTED"])
  /\ ask' = [ask EXCEPT ![w] = "stored"]
  /\ UNCHANGED <<sign, back, final, send, link, policy, calm, faults, stored>>

\* The negotiation, the transfer or the message fails, or its response is lost.
RequestFails(w) ==
  /\ Fault
  /\ ask[w] \in {"todo", "listening", "stored"}
  /\ \E v \in Worker : ask[v] \in {"todo", "listening"}
  /\ ask' = [ask EXCEPT ![w] = "failed"]
  /\ UNCHANGED <<row, sign, back, final, send, link, policy, calm, stored>>

\* All requests are settled and one has failed.  Nobody handles the rejection of
\* requestSignatures: the process ends.
RequestsRejected ==
  /\ \E w \in Worker : ask[w] = "failed"
  /\ \A w \in Worker : ask[w] \in {"stored", "failed"}
  /\ Stop(Initiator)
  /\ UNCHANGED faults

----------------------------------------------------------------------------
(* A worker signs.                                                          *)

\* signProjectAgreement loads the row, adds the wallet's signature to the copy
\* and posts it to the callback.
Sign(c, w) ==
  /\ sign[c].pc = "idle" /\ Bounded
  /\ \A d \in SignCall : sign[d].pc = "idle" => c <= d
  /\ row[w] # Absent
  /\ calm => Idle
  /\ SetSign(c, w, "posted", [row[w] EXCEPT !.sigs = @ \cup {w}])
  /\ SetBack(c, "sent", Absent)
  /\ UNCHANGED <<row, ask, final, send, link, policy, calm, faults, stored>>

\* The callback is answered: the copy is saved as SIGNED, or the call throws.
SaveSigned(c) ==
  /\ sign[c].pc = "posted"
  /\ \/ /\ back[c].pc = "ok"
        /\ Save(sign[c].by, [sign[c].copy EXCEPT !.status = "SIGNED"])
        /\ SetSign(c, sign[c].by, "done", Absent)
     \/ /\ back[c].pc = "failed"
        /\ SetSign(c, sign[c].by, "failed", Absent)
        /\ UNCHANGED row
  /\ UNCHANGED <<ask, back, final, send, link, policy, calm, faults, stored>>

\* No answer to the callback arrives.
SignFails(c) ==
  /\ Fault
  /\ Signing(c)
  /\ SetSign(c, sign[c].by, "failed", Absent)
  /\ UNCHANGED <<row, ask, back, final, send, link, policy, calm, stored>>

----------------------------------------------------------------------------
(* The initiator's handler of the callback: handleSignatureCallback.        *)

\* The row is loaded; the wallet is to validate the signature.
LoadForCallback(c) ==
  /\ back[c].pc = "sent"
  /\ SetBack(c, "validating", row[Initiator])
  /\ UNCHANGED <<row, ask, sign, final, send, link, policy, calm, faults,
                  stored>>

\* Mutant: any required signature is enough.
AddSignatureSome(c) ==
  LET sigs == back[c].copy.sigs \cup {sign[c].by} IN
  /\ back[c].pc = "validating"
  /\ Worker \cap sigs # {}
  /\ SetBack(c, "countersigning",
       [back[c].copy EXCEPT !.sigs = sigs, !.status = "SIGNED"])
  /\ UNCHANGED <<row, ask, sign, final, send, link, policy, calm, faults,
                 stored>>

\* Mutant: the copy is saved only when all signatures are there.
AddSignatureUnsaved(c) ==
  LET sigs == back[c].copy.sigs \cup {sign[c].by} IN
  /\ back[c].pc = "validating"
  /\ IF Worker \subseteq sigs
       THEN SetBack(c, "countersigning",
              [back[c].copy EXCEPT !.sigs = sigs, !.status = "SIGNED"])
       ELSE SetBack(c, "ok", Absent)
  /\ UNCHANGED <<row, ask, sign, final, send, link, policy, calm, faults,
                 stored>>

\* The signature is valid and is added to the copy.  The copy is saved if other
\* signatures are missing; else the initiator's wallet is to sign.
AddSignature(c) ==
  LET sigs == back[c].copy.sigs \cup {sign[c].by} IN
  /\ back[c].pc = "validating"
  /\ IF Worker \subseteq sigs
       THEN /\ SetBack(c, "countersigning",
                 [back[c].copy EXCEPT !.sigs = sigs, !.status = "SIGNED"])
            /\ UNCHANGED row
       ELSE /\ Save(Initiator, [back[c].copy EXCEPT !.sigs = sigs])
            /\ SetBack(c, "ok", Absent)
  /\ UNCHANGED <<ask, sign, final, send, link, policy, calm, faults, stored>>

\* The initiator has signed; the hash is stored and credentials are offered.
Countersign(c) ==
  LET signed == [back[c].copy EXCEPT !.sigs = @ \cup {Initiator}, !.hash = c] IN
  /\ back[c].pc = "countersigning"
  /\ Save(Initiator, signed)
  /\ SetBack(c, "offering", signed)
  /\ UNCHANGED <<ask, sign, final, send, link, policy, calm, faults, stored>>

\* The offers are made; the copy is saved again, the callback is answered and
\* the finalization is scheduled.
ScheduleFinalization(c) ==
  /\ back[c].pc = "offering"
  /\ Save(Initiator, back[c].copy)
  /\ SetBack(c, "ok", back[c].copy)
  /\ final' = [final EXCEPT ![c] = "sending"]
  /\ send' = [send EXCEPT ![c] =
       [w \in Worker |-> [pc |-> "todo", copy |-> Absent]]]
  /\ UNCHANGED <<ask, sign, link, policy, calm, faults, stored>>

\* The callback does not arrive, or the wallet fails.
CallbackFails(c) ==
  /\ Fault
  /\ Handling(c)
  /\ SetBack(c, "failed", Absent)
  /\ UNCHANGED <<row, ask, sign, final, send, link, policy, calm, stored>>

----------------------------------------------------------------------------
(* Finalization.                                                            *)

\* initiateTransfer, as for the request: the start is awaited, or was missed.
ListenForFinalization(c, w) ==
  /\ send[c][w].pc = "todo"
  /\ \E pc \in {"listening", "missed"} : SetSend(c, w, pc, Absent)
  /\ UNCHANGED <<row, ask, sign, back, final, link, policy, calm, faults,
                  stored>>

\* The transfer starts and finalizeAgreement sends the message; the worker's
\* handleFinalizationMessage loads its row and calls its wallet.
ReceiveFinalization(c, w) ==
  /\ send[c][w].pc = "listening"
  /\ SetSend(c, w, "handling", row[w])
  /\ UNCHANGED <<row, ask, sign, back, final, link, policy, calm, faults,
                  stored>>

\* Mutant: the message replaces the row instead of changing the loaded one.
StoreFresh(c, w) ==
  /\ send[c][w].pc = "handling"
  /\ Save(w, [Absent EXCEPT !.status = "FINALIZED",
                !.hash = back[c].copy.hash, !.sigs = back[c].copy.sigs])
  /\ stored' = [stored EXCEPT ![w] = @ \cup {c}]
  /\ SetSend(c, w, "stored", Absent)
  /\ UNCHANGED <<ask, sign, back, final, link, policy, calm, faults>>

\* The worker has requested its credential and saves the row it loaded.
StoreFinalization(c, w) ==
  /\ send[c][w].pc = "handling"
  /\ Save(w, [send[c][w].copy EXCEPT !.status = "FINALIZED",
                !.hash = back[c].copy.hash, !.sigs = back[c].copy.sigs])
  /\ stored' = [stored EXCEPT ![w] = @ \cup {c}]
  /\ SetSend(c, w, "stored", Absent)
  /\ UNCHANGED <<ask, sign, back, final, link, policy, calm, faults>>

\* The negotiation, the transfer, the message or the worker's wallet fails, or
\* the response is lost.
FinalizationFails(c, w) ==
  /\ Fault
  /\ final[c] = "sending"
  /\ send[c][w].pc \in {"todo", "listening", "handling", "stored"}
  /\ SetSend(c, w, "failed", Absent)
  /\ UNCHANGED <<row, ask, sign, back, final, link, policy, calm, stored>>

\* Mutant: a message that failed counts as sent, as Promise.allSettled has it.
SaveFinalizedSettled(c) ==
  /\ final[c] = "sending"
  /\ \A w \in Worker : send[c][w].pc \in {"stored", "failed"}
  /\ Save(Initiator, [back[c].copy EXCEPT !.status = "FINALIZED"])
  /\ final' = [final EXCEPT ![c] = "done"]
  /\ UNCHANGED <<ask, sign, back, send, link, policy, calm, faults, stored>>

\* Every worker has answered; the initiator has requested its own credential.
SaveFinalized(c) ==
  /\ final[c] = "sending"
  /\ \A w \in Worker : send[c][w].pc = "stored"
  /\ Save(Initiator, [back[c].copy EXCEPT !.status = "FINALIZED"])
  /\ final' = [final EXCEPT ![c] = "done"]
  /\ UNCHANGED <<ask, sign, back, send, link, policy, calm, faults, stored>>

\* A message has failed or the initiator's wallet does.  Nobody handles the
\* rejection: the process ends.
FinalizationRejected(c) ==
  /\ final[c] = "sending"
  /\ \A w \in Worker : send[c][w].pc \in {"stored", "failed"}
  /\ \/ (\E w \in Worker : send[c][w].pc = "failed") /\ UNCHANGED faults
     \/ Fault
  /\ Stop(Initiator)

----------------------------------------------------------------------------
(* Datasets: linkDatasetToProjectAgreement, unlinkDatasetFromProject...     *)

\* The row is loaded and checked; the dataset is to get the policy, or lose it.
Link(l, p, on) ==
  /\ link[l].pc = "idle" /\ Bounded
  /\ \A m \in LinkCall : link[m].pc = "idle" => l <= m
  /\ row[p].hash # None
  /\ on => ~row[p].linked
  /\ calm => Quiet
  /\ SetLink(l, p, on, "updating", row[p])
  /\ UNCHANGED <<row, ask, sign, back, final, send, policy, calm, faults,
                  stored>>

UpdateDataset(l) ==
  /\ link[l].pc = "updating"
  /\ policy' = [policy EXCEPT ![link[l].by] = link[l].on]
  /\ SetLink(l, link[l].by, link[l].on, "saving", link[l].copy)
  /\ UNCHANGED <<row, ask, sign, back, final, send, calm, faults, stored>>

SaveLink(l) ==
  /\ link[l].pc = "saving"
  /\ Save(link[l].by, [link[l].copy EXCEPT !.linked = link[l].on])
  /\ SetLink(l, link[l].by, link[l].on, "done", Absent)
  /\ UNCHANGED <<ask, sign, back, final, send, policy, calm, faults, stored>>

\* The catalog or a database fails; the call ends, so this needs no bound.
LinkFails(l) ==
  /\ ~calm
  /\ Linking(l)
  /\ SetLink(l, link[l].by, link[l].on, "failed", Absent)
  /\ UNCHANGED <<row, ask, sign, back, final, send, policy, calm, faults, stored>>

----------------------------------------------------------------------------

Restart(p) == Fault /\ Stop(p)

\* What the processes do by themselves once they are called.
Progress ==
  \/ \E w \in Worker : ListenForRequest(w) \/ ReceiveRequest(w)
  \/ RequestsRejected
  \/ \E c \in SignCall :
       \/ SaveSigned(c)
       \/ LoadForCallback(c) \/ AddSignature(c)
       \/ Countersign(c) \/ ScheduleFinalization(c)
       \/ \E w \in Worker : \/ ListenForFinalization(c, w)
                            \/ ReceiveFinalization(c, w)
                            \/ StoreFinalization(c, w)
       \/ SaveFinalized(c) \/ FinalizationRejected(c)
  \/ \E l \in LinkCall : UpdateDataset(l) \/ SaveLink(l)

Failure ==
  \/ \E w \in Worker : RequestFails(w)
  \/ \E c \in SignCall :
       \/ SignFails(c) \/ CallbackFails(c)
       \/ \E w \in Worker : FinalizationFails(c, w)
  \/ \E l \in LinkCall : LinkFails(l)
  \/ \E p \in Party : Restart(p)

Next ==
  \/ Create
  \/ \E c \in SignCall, w \in Worker : Sign(c, w)
  \/ \E l \in LinkCall, p \in Party, on \in BOOLEAN : Link(l, p, on)
  \/ Progress
  \/ Failure

Spec == Init /\ [][Next]_vars

\* The event loop runs every continuation; users need not call.
FairSpec == Spec /\ WF_vars(Progress)

----------------------------------------------------------------------------
(* Properties.                                                              *)

\* A hash stands for all signatures: whatever copy of a row is saved last, a row
\* with a hash has every party's signature, and a finalized row has a hash.
HashCoversAll ==
  \A p \in Party :
    /\ row[p].hash # None => row[p].sigs = Party
    /\ row[p].status = "FINALIZED" => row[p].hash # None

\* The initiator takes an agreement for finalized only after every worker has
\* stored the same hash, also when signatures are repeated, messages are lost
\* and processes restart.  Algorithm instances are created on the strength of
\* this status.
FinalizedByAll ==
  row[Initiator].status = "FINALIZED" =>
    \A w \in Worker : row[Initiator].hash \in stored[w]

\* No worker's user signs twice.
SignOnce ==
  \A c, d \in SignCall : c # d /\ sign[c].pc # "idle" /\ sign[d].pc # "idle"
                           => sign[c].by # sign[d].by

\* As long as no worker signs a second time, there is one hash: callbacks that
\* run at once never both complete the signatures.
SingleHash ==
  SignOnce => \A p, q \in Party : row[p].hash # None /\ row[q].hash # None
                                    => row[p].hash = row[q].hash

\* When calls do not overlap, a row lists the dataset exactly if the dataset has
\* the policy, also after later signatures and finalizations.
LinkedHasPolicy ==
  calm /\ Quiet => \A p \in Party : row[p].linked = policy[p]

\* When calls do not overlap and nothing fails, the agreement is finalized once
\* every worker has signed, unless a finalization has missed the start of one of
\* its transfers: the event is published once, and nothing repeats it.
SignedIsFinalized ==
  (calm /\ \A w \in Worker : \E c \in SignCall :
             sign[c].by = w /\ sign[c].pc = "done")
  ~> (row[Initiator].status = "FINALIZED" \/ \E c \in SignCall : Hung(c))
=============================================================================
