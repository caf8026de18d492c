------------------------- MODULE NegotiationProofs -------------------------
(***************************************************************************)
(* Proofs about types, and that the handshake is kept in order, that       *)
(* acknowledged calls are recorded by both parties, and that agreements    *)
(* are the provider's: for any number of calls, any modes, with or without *)
(* faults, and clients that wait for their calls or do not.  And, when     *)
(* clients wait and nothing fails, that agreements match the offers and    *)
(* that both parties finalize one agreement.                               *)
(***************************************************************************)
EXTENDS NegotiationInduction, TLAPS

USE DEF Party, Peer

----------------------------------------------------------------------------
(* Types.                                                                   *)

\* Absent is no row that exists.
LEMMA AbsentRow == Absent \in Copy /\ \A r \in Row : r # Absent
  BY DEF Absent, Copy, Row, State

\* Every call leads to a state of the table.
LEMMA TargetState == \A k \in Kind : Target(k) \in State
  BY DEF Kind, KindsOf, Target, State

\* What the actions pass to Save is well typed.
LEMMA CallFacts ==
  ASSUME TypeOK, NEW i \in Call
  PROVE  /\ Offer(i) \in Ref /\ Agreement(i) \in Ref /\ Link(i) \in Ref
         /\ call[i] \in CallType
         /\ call[i].copy.offer \in Ref /\ call[i].hcopy.offer \in Ref
         /\ call[i].copy.agr \in Ref /\ call[i].hcopy.agr \in Ref
  BY DEF TypeOK, CallType, Offer, Agreement, Link, Ref, Copy, Row, Absent

\* A save of well-typed values leaves a well-typed row and history.
LEMMA SaveType ==
  ASSUME TypeOK, NEW p \in Party, NEW s \in State, NEW o \in Ref,
         NEW l \in Ref, Save(p, s, o, l)
  PROVE  /\ db' \in [Party -> Copy]
         /\ seen' \in [Party -> SUBSET State]
  <1>1. db[p].agr \in Ref
    BY DEF TypeOK, Copy, Row, Absent, Ref
  <1>2. [state |-> s, offer |-> o,
         agr |-> IF l = None THEN db[p].agr ELSE l] \in Copy
    BY <1>1 DEF Copy, Row
  <1> QED
    BY <1>2 DEF TypeOK, Save

\* What a step of call i leaves alone: every other call, and all of call i but
\* its progress and its handler's.
Moved(i, pc, hpc) ==
  /\ call' \in [Call -> CallType]
  /\ \A j \in Call : j # i => call'[j] = call[j]
  /\ call'[i].kind = call[i].kind /\ call'[i].by = call[i].by
  /\ call'[i].copy = call[i].copy /\ call'[i].signed = call[i].signed
  /\ call'[i].pc = pc /\ call'[i].hpc = hpc

\* The caller moves on.
LEMMA MovePc ==
  ASSUME TypeOK, NEW i \in Call, NEW pc \in Pc,
         call' = [call EXCEPT ![i].pc = pc]
  PROVE  Moved(i, pc, call[i].hpc) /\ call'[i].hcopy = call[i].hcopy
  BY DEF Moved, TypeOK, CallType

\* The handler moves on and keeps its copy.
LEMMA MoveHpc ==
  ASSUME TypeOK, NEW i \in Call, NEW hpc \in HPc,
         call' = [call EXCEPT ![i].hpc = hpc]
  PROVE  Moved(i, call[i].pc, hpc) /\ call'[i].hcopy = call[i].hcopy
  BY DEF Moved, TypeOK, CallType

\* The caller moves on and sends its request.
LEMMA MoveBoth ==
  ASSUME TypeOK, NEW i \in Call, NEW pc \in Pc, NEW hpc \in HPc,
         call' = [call EXCEPT ![i].pc = pc, ![i].hpc = hpc]
  PROVE  Moved(i, pc, hpc) /\ call'[i].hcopy = call[i].hcopy
  BY DEF Moved, TypeOK, CallType

\* The handler moves on with a new copy, or gives it up.
LEMMA MoveHandler ==
  ASSUME TypeOK, NEW i \in Call, NEW hpc \in HPc, NEW hc \in Copy,
         call' = [call EXCEPT ![i].hpc = hpc, ![i].hcopy = hc]
  PROVE  Moved(i, call[i].pc, hpc) /\ call'[i].hcopy = hc
  BY DEF Moved, TypeOK, CallType

\* A step of a call that loaded what it is about to save keeps TypeInv.
LEMMA MoveType ==
  ASSUME TypeInv, NEW i \in Call, NEW pc \in Pc, NEW hpc \in HPc,
         Moved(i, pc, hpc), call[i].pc # "idle", pc # "idle",
         pc = "refusing" => call[i].copy \in Row,
         hpc \in {"refusing", "storing", "linking"} => call'[i].hcopy \in Row,
         db' \in [Party -> Copy], seen' \in [Party -> SUBSET State],
         agreements' \in [Party -> SUBSET Ref], events' \subseteq Call
  PROVE  TypeInv'
  <1>1. TypeOK'
    BY DEF Moved, TypeOK
  <1>2. Loaded'
    BY DEF Moved, TypeInv, Loaded
  <1> QED
    BY <1>1, <1>2 DEF TypeInv

\* Begin makes a call out of an idle one.
Began(i, p, k) ==
  /\ call' \in [Call -> CallType]
  /\ \A j \in Call : j # i => call'[j] = call[j]
  /\ call'[i].kind = k /\ call'[i].by = p
  /\ call'[i].copy = db[p] /\ call'[i].hcopy = Absent
  /\ call'[i].pc \in {"posted", "refusing", "storing", "recording"}
  /\ call'[i].hpc = IF call'[i].pc = "posted" THEN "sent" ELSE "none"
  /\ call'[i].pc # "refusing" => Allowed(p, db[p].state, Target(k))
  /\ call'[i].pc = "posted" => ~SavesFirst(k)
  /\ call'[i].pc = "storing" => Stores(k) /\ SavesFirst(k)
  /\ call'[i].pc = "recording" => SavesFirst(k) /\ ~Stores(k)

\* A call begins with the row its party has, and the transition checked.
LEMMA BeginFacts ==
  ASSUME TypeOK, NEW i \in Call, NEW p \in Party, NEW k \in Kind,
         Begin(i, p, k)
  PROVE  /\ Began(i, p, k)
         /\ db[p] \in Row
         /\ UNCHANGED <<db, agreements, seen>>
  <1> DEFINE ok == Allowed(p, db[p].state, Target(k))
             posts == ok /\ ~SavesFirst(k)
             pc == IF posts THEN "posted" ELSE IF ~ok THEN "refusing"
                   ELSE IF Stores(k) THEN "storing" ELSE "recording"
             hpc == IF posts THEN "sent" ELSE "none"
  <1>1. db[p] \in Copy /\ Absent \in Copy /\ db[p] \in Row
    BY AbsentRow DEF TypeOK, Begin, Exists, Copy
  <1>2. PICK sg \in BOOLEAN :
          call' = [call EXCEPT ![i] =
            [kind |-> k, by |-> p, pc |-> pc, hpc |-> hpc,
             copy |-> db[p], hcopy |-> Absent, signed |-> sg]]
    BY EnvironmentAssumption, Zenon DEF Begin
  <1>3. pc \in Pc /\ hpc \in HPc
    BY DEF Pc, HPc
  <1> DEFINE c == [kind |-> k, by |-> p, pc |-> pc, hpc |-> hpc,
                   copy |-> db[p], hcopy |-> Absent, signed |-> sg]
  <1>4. c \in CallType
    <2> HIDE DEF pc, hpc
    <2> QED
      BY <1>1, <1>3 DEF CallType
  <1>5. /\ call' \in [Call -> CallType] /\ call'[i] = c
        /\ \A j \in Call : j # i => call'[j] = call[j]
    <2> HIDE DEF c
    <2> QED
      BY <1>2, <1>4 DEF TypeOK, c
  <1>6. /\ posts => pc = "posted" /\ hpc = "sent"
        /\ ~posts => pc # "posted" /\ hpc = "none"
    OBVIOUS
  <1>7. Began(i, p, k)
    BY <1>5, <1>6 DEF Began, SavesFirst, Stores
  <1> QED
    BY <1>1, <1>7 DEF Begin

\* The listener makes only calls of the service.
LEMMA ReactionKind ==
  ASSUME NEW p, NEW i, NEW match, NEW k \in Reaction(p, i, match)
  PROVE  k \in Kind
  BY DEF Reaction, Kind, KindsOf

\* Before the first call everything is well typed.
LEMMA InitType == Init => TypeInv
  BY DEF Init, TypeInv, TypeOK, Loaded, Idle, CallType, Pc, HPc, Absent, Copy,
       Ref

\* requestNew sends its request and has loaded no row.
LEMMA RequestNewFacts ==
  ASSUME TypeOK, NEW i \in UserCall, RequestNew(i)
  PROVE  /\ i \in Call /\ call' \in [Call -> CallType]
         /\ \A j \in Call : j # i => call'[j] = call[j]
         /\ call'[i].kind = "requestNew" /\ call'[i].by = "consumer"
         /\ call'[i].pc = "posted" /\ call'[i].hpc = "sent"
         /\ call'[i].copy = Absent /\ call'[i].hcopy = Absent
  <1> DEFINE c == [Idle EXCEPT !.kind = "requestNew", !.pc = "posted",
                               !.hpc = "sent"]
  <1>1. c \in CallType /\ i \in Call
    BY AbsentRow DEF Idle, CallType, Pc, HPc, Kind, Call
  <1>2. call' = [call EXCEPT ![i] = c]
    BY DEF RequestNew
  <1>3. /\ call' \in [Call -> CallType] /\ call'[i] = c
        /\ \A j \in Call : j # i => call'[j] = call[j]
    <2> HIDE DEF c
    <2> QED
      BY <1>1, <1>2 DEF TypeOK
  <1> QED
    BY <1>1, <1>3 DEF Idle

\* The calls a restart ends, and the handlers.
LEMMA RestartFacts ==
  ASSUME TypeOK, NEW p \in Party, Restart(p)
  PROVE  /\ call' \in [Call -> CallType]
         /\ \A i \in Call :
              /\ call'[i].kind = call[i].kind /\ call'[i].by = call[i].by
              /\ call'[i].copy = call[i].copy
              /\ call'[i].pc = call[i].pc \/
                   (call[i].pc \notin {"idle", "done"} /\ call'[i].pc = "failed")
              /\ \/ call'[i].hpc = call[i].hpc /\ call'[i].hcopy = call[i].hcopy
                 \/ /\ call[i].hpc \in {"refusing", "storing", "linking",
                                        "handling"}
                    /\ call'[i].hpc = "failed" /\ call'[i].hcopy = Absent
         /\ UNCHANGED <<db, agreements, seen>> /\ events' \subseteq events
  <1>1. call' = [i \in Call |->
       IF call[i].by = p /\ Running(i)
         THEN [call[i] EXCEPT !.pc = "failed"]
       ELSE IF /\ call[i].by = Peer(p)
               /\ call[i].hpc \in {"refusing", "storing", "linking", "handling"}
         THEN [call[i] EXCEPT !.hpc = "failed", !.hcopy = Absent]
       ELSE call[i]]
    BY DEF Restart
  <1>2. ASSUME NEW i \in Call
        PROVE  /\ call'[i] \in CallType
               /\ call'[i].kind = call[i].kind /\ call'[i].by = call[i].by
               /\ call'[i].copy = call[i].copy
               /\ call'[i].pc = call[i].pc \/
                    (call[i].pc \notin {"idle", "done"} /\ call'[i].pc = "failed")
               /\ \/ call'[i].hpc = call[i].hpc /\ call'[i].hcopy = call[i].hcopy
                  \/ /\ call[i].hpc \in {"refusing", "storing", "linking",
                                         "handling"}
                     /\ call'[i].hpc = "failed" /\ call'[i].hcopy = Absent
    BY <1>1, AbsentRow DEF TypeOK, CallType, Pc, HPc, Running
  <1> QED
    BY <1>1, <1>2 DEF Restart

\* What each step of a call does to it.
LEMMA SaveRefusalMoves ==
  ASSUME TypeOK, NEW i \in Call, SaveRefusal(i)
  PROVE  /\ Moved(i,
              "failed",
              call[i].hpc)
         /\ call'[i].hcopy = call[i].hcopy
  BY MovePc DEF SaveRefusal, Pc, HPc

\* storeAgreement leads a call to its save.
LEMMA StoreAgreementMoves ==
  ASSUME TypeOK, NEW i \in Call, StoreAgreement(i)
  PROVE  /\ Moved(i,
              IF SavesFirst(call[i].kind) THEN "recording" ELSE "saving",
              call[i].hpc)
         /\ call'[i].hcopy = call[i].hcopy
  BY MovePc DEF StoreAgreement, Pc, HPc

\* agree and verify post after their save.
LEMMA RecordThenPostMoves ==
  ASSUME TypeOK, NEW i \in Call, RecordThenPost(i)
  PROVE  /\ Moved(i,
              "posted",
              "sent")
         /\ call'[i].hcopy = call[i].hcopy
  BY MoveBoth DEF RecordThenPost, Pc, HPc

\* The response leads a call to its end, or to what it does afterwards.
LEMMA ReplyMoves ==
  ASSUME TypeOK, NEW i \in Call, Reply(i)
  PROVE  /\ Moved(i,
              IF call[i].hpc = "failed" THEN "failed"
                 ELSE IF SavesFirst(call[i].kind) THEN "done"
                 ELSE IF Stores(call[i].kind) THEN "storing" ELSE "saving",
              call[i].hpc)
         /\ call'[i].hcopy = call[i].hcopy
  BY MovePc DEF Reply, Pc, HPc

\* The save after a response ends the call.
LEMMA SaveAfterReplyMoves ==
  ASSUME TypeOK, NEW i \in Call, SaveAfterReply(i)
  PROVE  /\ Moved(i,
              "done",
              call[i].hpc)
         /\ call'[i].hcopy = call[i].hcopy
  BY MovePc DEF SaveAfterReply, Pc, HPc

\* handleNewRequest saves and answers in one step.
LEMMA HandleNewRequestMoves ==
  ASSUME TypeOK, NEW i \in Call, HandleNewRequest(i)
  PROVE  /\ Moved(i,
              call[i].pc,
              "ok")
         /\ call'[i].hcopy = call[i].hcopy
  BY MoveHpc DEF HandleNewRequest, Pc, HPc

\* The handler's refusal ends in an error response.
LEMMA SaveRemoteRefusalMoves ==
  ASSUME TypeOK, NEW i \in Call, SaveRemoteRefusal(i)
  PROVE  /\ Moved(i,
              call[i].pc,
              "failed")
         /\ call'[i].hcopy = Absent
  BY MoveHandler, AbsentRow DEF SaveRemoteRefusal, Pc, HPc

\* storeAgreement in a handler leads it to its save.
LEMMA StoreRemoteAgreementMoves ==
  ASSUME TypeOK, NEW i \in Call, StoreRemoteAgreement(i)
  PROVE  /\ Moved(i,
              call[i].pc,
              IF call[i].kind = "agree" THEN "handling" ELSE "linking")
         /\ call'[i].hcopy = call[i].hcopy
  BY MoveHpc DEF StoreRemoteAgreement, Pc, HPc

\* The first of the two saves of a finalization leads to the second.
LEMMA LinkFinalizedMoves ==
  ASSUME TypeOK, NEW i \in Call, LinkFinalized(i)
  PROVE  /\ Moved(i,
              call[i].pc,
              "handling")
         /\ call'[i].hcopy = call[i].hcopy
  BY MoveHpc DEF LinkFinalized, Pc, HPc

\* The handler's save ends in a response.
LEMMA SaveHandledMoves ==
  ASSUME TypeOK, NEW i \in Call, SaveHandled(i)
  PROVE  /\ Moved(i,
              call[i].pc,
              "ok")
         /\ call'[i].hcopy = Absent
  BY MoveHandler, AbsentRow DEF SaveHandled, Pc, HPc

\* A lost request has failed.
LEMMA LoseRequestMoves ==
  ASSUME TypeOK, NEW i \in Call, LoseRequest(i)
  PROVE  /\ Moved(i,
              call[i].pc,
              "failed")
         /\ call'[i].hcopy = call[i].hcopy
  BY MoveHpc DEF LoseRequest, Pc, HPc

\* A call that times out has failed.
LEMMA TimeoutMoves ==
  ASSUME TypeOK, NEW i \in Call, Timeout(i)
  PROVE  /\ Moved(i,
              "failed",
              call[i].hpc)
         /\ call'[i].hcopy = call[i].hcopy
  BY MovePc DEF Timeout, Pc, HPc

\* Handle goes on only with a row, and changes it only if the sender may.
HandleOutcome(i, next) ==
  LET row == db[Peer(call[i].by)] IN
  /\ Moved(i, call[i].pc, next)
  /\ call'[i].hcopy = IF next = "failed" THEN Absent ELSE row
  /\ next # "failed" => row \in Row
  /\ next \in {"storing", "handling"} =>
       Allowed(call[i].by, row.state, Target(call[i].kind))
  /\ next = "handling" => ~Stores(call[i].kind)
  /\ next = "refusing" =>
       ~Allowed(call[i].by, row.state, Target(call[i].kind))
  /\ next = "storing" => Stores(call[i].kind)

\* A handler that goes on has loaded a row that exists.
LEMMA HandleMoves ==
  ASSUME TypeOK, NEW i \in Call, Handle(i)
  PROVE  \E next \in {"failed", "refusing", "storing", "handling"} :
           HandleOutcome(i, next)
  <1> DEFINE c    == call[i]
             row  == db[Peer(c.by)]
             next == IF row = Absent THEN "failed"
               ELSE IF ~Allowed(c.by, row.state, Target(c.kind)) THEN "refusing"
               ELSE IF Signs(c.kind) /\ ~ProofAccepted(i, row) THEN "failed"
               ELSE IF Stores(c.kind) THEN "storing" ELSE "handling"
             hc   == IF next = "failed" THEN Absent ELSE row
  <1>1. call' = [call EXCEPT ![i].hpc = next, ![i].hcopy = hc]
    BY DEF Handle
  <1>2. next \in {"failed", "refusing", "storing", "handling"}
    OBVIOUS
  <1>3. row \in Copy /\ Absent \in Copy
    BY AbsentRow DEF TypeOK, CallType
  <1>4. /\ next # "failed" => row # Absent
        /\ next \in {"storing", "handling"} =>
             Allowed(c.by, row.state, Target(c.kind))
        /\ next = "handling" => ~Stores(c.kind)
        /\ next = "refusing" => ~Allowed(c.by, row.state, Target(c.kind))
        /\ next = "storing" => Stores(c.kind)
    OBVIOUS
  <1>5. Moved(i, c.pc, next) /\ call'[i].hcopy = hc
    <2> HIDE DEF next, row, c
    <2>1. next \in HPc /\ hc \in Copy
      BY <1>2, <1>3 DEF HPc
    <2> HIDE DEF hc
    <2>2. Moved(i, call[i].pc, next) /\ call'[i].hcopy = hc
      BY <1>1, <2>1, MoveHandler
    <2> QED
      BY <2>2 DEF c
  <1>6. HandleOutcome(i, next)
    <2> HIDE DEF next
    <2> QED
      BY <1>3, <1>4, <1>5 DEF HandleOutcome, Copy
  <1> QED
    BY <1>2, <1>6

\* TypeInv is preserved.
LEMMA ProgressType ==
  ASSUME TypeInv, NEW i \in Call, Progress(i)
  PROVE  TypeInv'
  <1>1. TypeOK /\ call[i] \in CallType /\ Peer(call[i].by) \in Party
    BY DEF TypeInv, TypeOK, CallType
  <1>2. call[i].pc # "idle" => Target(call[i].kind) \in State
    BY TargetState DEF TypeInv, Loaded
  <1>3. /\ Offer(i) \in Ref /\ Agreement(i) \in Ref /\ Link(i) \in Ref
        /\ call[i].copy.offer \in Ref /\ call[i].hcopy.offer \in Ref
        /\ call[i].hcopy.agr \in Ref /\ None \in Ref
    BY <1>1, CallFacts DEF Ref
  <1>4. /\ call[i].pc = "refusing" => call[i].copy.state \in State
        /\ call[i].hpc \in {"refusing", "storing", "linking"} =>
             /\ call[i].hcopy.state \in State /\ call[i].hcopy \in Row
             /\ call[i].pc # "idle"
        /\ call[i].hpc # "none" => call[i].pc # "idle"
    BY DEF TypeInv, Loaded, Row
  <1>5. CASE SaveRefusal(i)
    <2>1. /\ call[i].pc = "refusing" /\ UNCHANGED <<agreements, events>>
          /\ Save(call[i].by, call[i].copy.state, call[i].copy.offer, None)
      BY <1>5 DEF SaveRefusal
    <2>2. /\ db' \in [Party -> Copy] /\ seen' \in [Party -> SUBSET State]
          /\ call[i].hpc \in HPc /\ "failed" \in Pc
      BY <1>1, <1>3, <1>4, <2>1, SaveType DEF CallType, Pc
    <2> QED
      BY <1>1, <1>4, <1>5, <2>1, <2>2, SaveRefusalMoves, MoveType DEF TypeOK
  <1>6. CASE StoreAgreement(i)
    <2>1. PICK pc \in {"recording", "saving"} :
            Moved(i, pc, call[i].hpc) /\ call'[i].hcopy = call[i].hcopy
      BY <1>1, <1>6, StoreAgreementMoves
    <2>2. /\ call[i].pc = "storing" /\ UNCHANGED <<db, events, seen>>
          /\ agreements' \in [Party -> SUBSET Ref]
      BY <1>1, <1>3, <1>6 DEF StoreAgreement, TypeOK
    <2> QED
      BY <1>1, <1>4, <2>1, <2>2, MoveType DEF CallType, TypeOK, Pc
  <1>7. CASE RecordThenPost(i)
    <2>1. /\ call[i].pc = "recording" /\ UNCHANGED <<agreements, events>>
          /\ Save(call[i].by, Target(call[i].kind), Offer(i), Link(i))
      BY <1>7 DEF RecordThenPost
    <2>2. /\ db' \in [Party -> Copy] /\ seen' \in [Party -> SUBSET State]
          /\ "posted" \in Pc /\ "sent" \in HPc
      BY <1>1, <1>2, <1>3, <2>1, SaveType DEF CallType, Pc, HPc
    <2> QED
      BY <1>1, <1>7, <2>1, <2>2, RecordThenPostMoves, MoveType DEF TypeOK
  <1>8. CASE Reply(i)
    <2>1. PICK pc \in {"failed", "done", "storing", "saving"} :
            Moved(i, pc, call[i].hpc) /\ call'[i].hcopy = call[i].hcopy
      BY <1>1, <1>8, ReplyMoves, Zenon
    <2>2. /\ call[i].pc = "posted" /\ UNCHANGED <<db, agreements, events, seen>>
          /\ call[i].hpc \in {"ok", "failed"}
      BY <1>8 DEF Reply
    <2> QED
      BY <1>1, <2>1, <2>2, MoveType DEF TypeOK, Pc, HPc
  <1>9. CASE SaveAfterReply(i)
    BY <1>1, <1>2, <1>3, <1>4, <1>9, SaveAfterReplyMoves, SaveType, MoveType
       DEF SaveAfterReply, CallType, TypeOK, Pc
  <1>10. CASE HandleNewRequest(i)
    <2>1. /\ events' \subseteq Call /\ "REQUESTED" \in State
          /\ call[i].hpc = "sent" /\ UNCHANGED agreements
          /\ Save("provider", "REQUESTED", Offer(i), None)
      BY <1>1, <1>10 DEF HandleNewRequest, Emit, TypeOK, State
    <2>2. /\ db' \in [Party -> Copy] /\ seen' \in [Party -> SUBSET State]
          /\ call[i].pc \in Pc /\ "ok" \in HPc
      BY <1>1, <1>3, <2>1, SaveType DEF CallType, HPc
    <2> QED
      BY <1>1, <1>4, <1>10, <2>1, <2>2, HandleNewRequestMoves, MoveType
         DEF TypeOK, TypeInv, Loaded
  <1>11. CASE Handle(i)
    <2>1. PICK next \in {"failed", "refusing", "storing", "handling"} :
            HandleOutcome(i, next)
      BY <1>1, <1>11, HandleMoves
    <2>2. call[i].hpc = "sent" /\ UNCHANGED <<db, agreements, events, seen>>
      BY <1>11 DEF Handle
    <2> QED
      BY <1>1, <1>4, <2>1, <2>2, MoveType
         DEF HandleOutcome, TypeOK, CallType, HPc, TypeInv, Loaded
  <1>12. CASE SaveRemoteRefusal(i)
    BY <1>1, <1>3, <1>4, <1>12, SaveRemoteRefusalMoves, SaveType, MoveType
       DEF SaveRemoteRefusal, CallType, TypeOK, HPc, TypeInv, Loaded
  <1>13. CASE StoreRemoteAgreement(i)
    <2>1. PICK hpc \in {"handling", "linking"} :
            Moved(i, call[i].pc, hpc) /\ call'[i].hcopy = call[i].hcopy
      BY <1>1, <1>13, StoreRemoteAgreementMoves
    <2>2. /\ call[i].hpc = "storing" /\ UNCHANGED <<db, events, seen>>
          /\ agreements' \in [Party -> SUBSET Ref]
      BY <1>1, <1>3, <1>13 DEF StoreRemoteAgreement, TypeOK
    <2> QED
      BY <1>1, <1>4, <2>1, <2>2, MoveType
         DEF CallType, TypeOK, HPc, TypeInv, Loaded
  <1>14. CASE LinkFinalized(i)
    BY <1>1, <1>3, <1>4, <1>14, LinkFinalizedMoves, SaveType, MoveType
       DEF LinkFinalized, CallType, TypeOK, HPc, TypeInv, Loaded
  <1>15. CASE SaveHandled(i)
    <2>1. events' \subseteq Call
      BY <1>1, <1>15 DEF SaveHandled, Emit, TypeOK
    <2> QED
      BY <1>1, <1>2, <1>3, <1>4, <1>15, <2>1, SaveHandledMoves, SaveType,
           MoveType
         DEF SaveHandled, CallType, TypeOK, HPc, TypeInv, Loaded
  <1> QED
    BY <1>5, <1>6, <1>7, <1>8, <1>9, <1>10, <1>11, <1>12, <1>13, <1>14, <1>15
       DEF Progress

\* Every step keeps TypeInv.
LEMMA NextType ==
  ASSUME TypeInv, [Next]_vars
  PROVE  TypeInv'
  <1>1. TypeOK
    BY DEF TypeInv
  <1>2. ASSUME NEW i \in UserCall, RequestNew(i) PROVE TypeInv'
    BY <1>1, <1>2, RequestNewFacts
       DEF RequestNew, TypeInv, TypeOK, Loaded, Kind
  <1>3. ASSUME NEW i \in Call, NEW p \in Party, NEW k \in Kind, Begin(i, p, k),
               events' \subseteq events
        PROVE  TypeInv'
    BY <1>1, <1>3, BeginFacts DEF Began, TypeInv, TypeOK, Loaded
  <1>4. ASSUME NEW i \in UserCall, NEW p \in Party, NEW k \in KindsOf(p),
               ClientCall(i, p, k)
        PROVE  TypeInv'
    BY <1>3, <1>4 DEF ClientCall, Call, Kind, KindsOf
  <1>5. ASSUME NEW i \in Call, Listen(i) PROVE TypeInv'
    <2>1. CASE ListenerIgnores(i)
      BY <1>1, <2>1 DEF ListenerIgnores, TypeInv, TypeOK, Loaded
    <2>2. ASSUME NEW j \in AutoCall, ListenerCall(i, j) PROVE TypeInv'
      <3>1. PICK match \in PolicyOutcomes :
              \E k \in Reaction(Peer(call[i].by), i, match) :
                Begin(j, Peer(call[i].by), k)
        BY <2>2 DEF ListenerCall
      <3>2. PICK k \in Reaction(Peer(call[i].by), i, match) :
              Begin(j, Peer(call[i].by), k)
        BY <3>1
      <3>3. j \in Call /\ k \in Kind /\ Peer(call[i].by) \in Party
        BY <3>2, ReactionKind DEF Call
      <3>4. events' \subseteq events
        BY <2>2 DEF ListenerCall
      <3> QED
        BY <3>2, <3>3, <3>4, <1>3
    <2> QED
      BY <1>5, <2>1, <2>2 DEF Listen
  <1>6. ASSUME NEW i \in Call, LoseRequest(i) PROVE TypeInv'
    BY <1>1, <1>6, LoseRequestMoves, MoveType
       DEF LoseRequest, TypeInv, TypeOK, CallType, Loaded, HPc
  <1>7. ASSUME NEW i \in Call, Timeout(i) PROVE TypeInv'
    BY <1>1, <1>7, TimeoutMoves, MoveType
       DEF Timeout, TypeInv, TypeOK, CallType, Loaded, Pc
  <1>8. ASSUME NEW p \in Party, Restart(p) PROVE TypeInv'
    BY <1>1, <1>8, RestartFacts DEF TypeInv, TypeOK, Loaded
  <1>9. CASE UNCHANGED vars
    BY <1>9 DEF vars, TypeInv, TypeOK, Loaded
  <1> QED
    BY <1>2, <1>4, <1>5, <1>6, <1>7, <1>8, <1>9, ProgressType DEF Next

\* TypeInv holds throughout: induction over the steps.
LEMMA TypeInvariant == Spec => []TypeInv
  BY InitType, NextType, PTL DEF Spec

\* The variables keep their types.
THEOREM TypeCorrect == Spec => []TypeOK
  <1>1. TypeInv => TypeOK
    BY DEF TypeInv
  <1> QED
    BY <1>1, TypeInvariant, PTL

----------------------------------------------------------------------------
(* The abstract handshake.                                                  *)

\* What the order gives to a party that has been in some state.
LEMMA Started ==
  ASSUME TypeOK, HandshakeOrder
  PROVE  /\ \A s \in seen["consumer"] : "REQUESTED" \in seen["consumer"]
         /\ "ACCEPTED" \in seen["provider"] => "REQUESTED" \in seen["provider"]
  <1>1. \A p \in Party : \A s \in seen[p] : s \in State
    BY DEF TypeOK
  <1>2. \A p \in Party : \A s \in seen[p] : \A n \in H!Needs(p, s) :
          n[2] \in seen[n[1]]
    BY DEF HandshakeOrder, H!Ordered, H!Ready, H!Party
  <1>3. /\ "REQUESTED" \in seen["consumer"] => "REQUESTED" \in seen["provider"]
        /\ "OFFERED" \in seen["consumer"] => "REQUESTED" \in seen["consumer"]
        /\ "OFFERED" \in seen["provider"] => "OFFERED" \in seen["consumer"]
        /\ "ACCEPTED" \in seen["provider"] => "OFFERED" \in seen["provider"]
        /\ "ACCEPTED" \in seen["consumer"] => "ACCEPTED" \in seen["provider"]
        /\ "AGREED" \in seen["consumer"] => "REQUESTED" \in seen["consumer"]
        /\ "VERIFIED" \in seen["consumer"] => "AGREED" \in seen["consumer"]
        /\ "VERIFIED" \in seen["provider"] => "VERIFIED" \in seen["consumer"]
        /\ "FINALIZED" \in seen["consumer"] => "VERIFIED" \in seen["provider"]
        /\ "TERMINATED" \in seen["consumer"] => "REQUESTED" \in seen["consumer"]
    BY <1>2 DEF H!Needs
  <1> QED
    BY <1>1, <1>3 DEF State

\* Entering a state that is ready keeps the order.
LEMMA EnterKeepsOrder ==
  ASSUME TypeOK, HandshakeOrder, NEW p \in Party, NEW s \in State,
         H!Ready(p, s), seen' = [seen EXCEPT ![p] = @ \cup {s}]
  PROVE  HandshakeOrder'
  <1>1. \A q \in Party : seen[q] \subseteq seen'[q]
    BY DEF TypeOK
  <1>2. \A q \in Party, t \in State : \A n \in H!Needs(q, t) : n[1] \in Party
    BY DEF H!Needs, State
  <1>3. SUFFICES ASSUME NEW q \in Party, NEW t \in seen'[q], NEW n \in H!Needs(q, t)
                 PROVE  n[2] \in seen'[n[1]]
    BY DEF HandshakeOrder, H!Ordered, H!Ready, H!Party
  <1>4. t \in State
    BY DEF TypeOK
  <1>5. CASE t \in seen[q]
    BY <1>1, <1>2, <1>4, <1>5 DEF HandshakeOrder, H!Ordered, H!Ready, H!Party
  <1>6. CASE q = p /\ t = s
    BY <1>1, <1>2, <1>4, <1>6 DEF H!Ready
  <1> QED
    BY <1>5, <1>6 DEF TypeOK

\* A save of a ready state is a step of the handshake.
LEMMA SaveEnters ==
  ASSUME OrderInv, NEW p \in Party, NEW s \in State, NEW o, NEW l,
         Save(p, s, o, l), H!Ready(p, s)
  PROVE  /\ H!Enter(p, s) /\ HandshakeOrder' /\ RowsSeen'
         /\ \A q \in Party : seen[q] \subseteq seen'[q]
         /\ s \in seen'[p]
  <1>1. TypeOK /\ HandshakeOrder
    BY DEF OrderInv, TypeInv
  <1>2. seen' = [seen EXCEPT ![p] = @ \cup {s}]
    BY DEF Save
  <1>3. /\ \A q \in Party : seen[q] \subseteq seen'[q]
        /\ s \in seen'[p]
    BY <1>1, <1>2 DEF TypeOK
  <1>4. \A q \in Party : q # p => db'[q] = db[q]
    BY <1>1 DEF Save, TypeOK
  <1>5. db'[p].state = s
    BY <1>1 DEF Save, TypeOK
  <1>6. RowsSeen'
    BY <1>3, <1>4, <1>5 DEF RowsSeen, OrderInv, Exists
  <1> QED
    BY <1>1, <1>2, <1>3, <1>6, EnterKeepsOrder DEF H!Enter

\* A state the party has been in is ready.
LEMMA SeenReady ==
  ASSUME HandshakeOrder, NEW p \in Party, NEW s \in seen[p]
  PROVE  H!Ready(p, s)
  BY DEF HandshakeOrder, H!Ordered, H!Party

----------------------------------------------------------------------------
(* The new state of a call is ready when the call, or its handler, saves.   *)

\* Who makes a call, and from which states of a row it is allowed.
LEMMA KindFacts ==
  ASSUME NEW k \in KindsOf("consumer") \cup KindsOf("provider"),
         NEW p \in Party, k \in KindsOf(p), NEW s, Allowed(p, s, Target(k))
  PROVE  /\ k \in {"requestExisting", "accept"} => p = "consumer" /\ s = "OFFERED"
         /\ k = "verify" => p = "consumer" /\ s = "AGREED"
         /\ k = "offer" => p = "provider" /\ s = "REQUESTED"
         /\ k = "agree" => p = "provider" /\ s \in {"REQUESTED", "ACCEPTED"}
         /\ k = "finalize" => p = "provider" /\ s = "VERIFIED"
  BY DEF KindsOf, Allowed, Target, consumerTransitions, providerTransitions

\* What the order says of a call under way: its party and what was seen.
LEMMA CallKindFacts ==
  ASSUME OrderInv, NEW i \in Call, call[i].kind \notin {"none", "requestNew"},
         NEW s, Allowed(call[i].by, s, Target(call[i].kind))
  PROVE  LET k == call[i].kind  p == call[i].by IN
         /\ k \in {"requestExisting", "offer", "accept", "agree", "verify",
                  "finalize", "terminate"}
         /\ k \in {"requestExisting", "accept"} => p = "consumer" /\ s = "OFFERED"
         /\ k = "verify" => p = "consumer" /\ s = "AGREED"
         /\ k = "offer" => p = "provider" /\ s = "REQUESTED"
         /\ k = "agree" => p = "provider" /\ s \in {"REQUESTED", "ACCEPTED"}
         /\ k = "finalize" => p = "provider" /\ s = "VERIFIED"
  <1>1. call[i].by \in Party
    BY DEF OrderInv, TypeInv, TypeOK, CallType
  <1>2. call[i].kind \in KindsOf(call[i].by)
    BY DEF OrderInv, CallOrder, ByRole
  <1>3. call[i].kind \in KindsOf("consumer") \cup KindsOf("provider")
    BY <1>1, <1>2
  <1> QED
    BY <1>1, <1>2, <1>3, KindFacts DEF KindsOf

\* What agree and verify save before they post is ready.
LEMMA RecordReady ==
  ASSUME OrderInv, NEW i \in Call, call[i].pc = "recording"
  PROVE  H!Ready(call[i].by, Target(call[i].kind))
  <1>1. /\ call[i].kind \in {"agree", "verify"}
        /\ call[i].copy.state \in seen[call[i].by]
        /\ Allowed(call[i].by, call[i].copy.state, Target(call[i].kind))
    BY DEF OrderInv, CallOrder, Recorded, CopySeen, SavesFirst
  <1>2. TypeOK /\ HandshakeOrder
    BY DEF OrderInv, TypeInv
  <1>3. CASE call[i].kind = "agree"
    <2>1. "REQUESTED" \in seen["provider"] /\ call[i].by = "provider"
      BY <1>1, <1>2, <1>3, CallKindFacts, Started
    <2> QED
      BY <1>3, <2>1 DEF Target, H!Ready, H!Needs
  <1>4. CASE call[i].kind = "verify"
    <2>1. "AGREED" \in seen["consumer"] /\ call[i].by = "consumer"
      BY <1>1, <1>4, CallKindFacts
    <2> QED
      BY <1>4, <2>1 DEF Target, H!Ready, H!Needs
  <1> QED
    BY <1>1, <1>3, <1>4

\* What a call saves after its response is ready: the handler has saved it.
LEMMA ReplyReady ==
  ASSUME OrderInv, NEW i \in Call, call[i].pc = "saving"
  PROVE  H!Ready(call[i].by, Target(call[i].kind))
  <1>1. /\ call[i].hpc = "ok" /\ call[i].kind # "none"
        /\ Target(call[i].kind) \in seen[Peer(call[i].by)]
    BY DEF OrderInv, CallOrder, Recorded, ByRole
  <1>2. TypeOK /\ HandshakeOrder
    BY DEF OrderInv, TypeInv
  <1>3. CASE call[i].kind = "requestNew"
    <2>1. call[i].by = "consumer"
      BY <1>3 DEF OrderInv, CallOrder, ByRole
    <2> QED
      BY <1>1, <1>3, <2>1 DEF Target, H!Ready, H!Needs
  <1>4. CASE call[i].kind # "requestNew"
    <2> DEFINE k == call[i].kind  p == call[i].by  s == call[i].copy.state
    <2>1. s \in seen[p] /\ Allowed(p, s, Target(k))
      BY <1>4 DEF OrderInv, CallOrder, CopySeen
    <2>2. /\ k \in {"requestExisting", "offer", "accept", "agree", "verify",
                    "finalize", "terminate"}
          /\ k \in {"requestExisting", "accept"} => p = "consumer"
          /\ k = "verify" => p = "consumer" /\ s = "AGREED"
          /\ k = "offer" => p = "provider"
          /\ k = "agree" => p = "provider" /\ s \in {"REQUESTED", "ACCEPTED"}
          /\ k = "finalize" => p = "provider"
      BY <1>1, <1>4, <2>1, CallKindFacts
    <2>3. CASE k = "agree"
      <3>1. "REQUESTED" \in seen["provider"]
        BY <1>2, <2>1, <2>2, <2>3, Started
      <3> QED
        BY <2>2, <2>3, <3>1 DEF Target, H!Ready, H!Needs
    <2>4. CASE k = "terminate"
      <3>1. p \in Party
        BY <1>2 DEF TypeOK, CallType
      <3>2. "REQUESTED" \in seen["consumer"]
        BY <1>1, <1>2, <2>1, <3>1, Started
      <3> QED
        BY <2>4, <3>2 DEF Target, H!Ready, H!Needs
    <2>5. CASE k \in {"requestExisting", "accept"}
      <3>1. p = "consumer" /\ Target(k) \in {"REQUESTED", "ACCEPTED"}
            /\ Target(k) \in seen["provider"]
        BY <1>1, <2>2, <2>5 DEF Target
      <3> QED
        BY <3>1 DEF H!Ready, H!Needs
    <2>6. CASE k \in {"offer", "finalize"}
      <3>1. p = "provider" /\ Target(k) \in {"OFFERED", "FINALIZED"}
            /\ Target(k) \in seen["consumer"]
        BY <1>1, <2>2, <2>6 DEF Target
      <3> QED
        BY <3>1 DEF H!Ready, H!Needs
    <2>7. CASE k = "verify"
      <3>1. p = "consumer" /\ Target(k) = "VERIFIED" /\ "AGREED" \in seen["consumer"]
        BY <2>1, <2>2, <2>7 DEF Target
      <3> QED
        BY <3>1 DEF H!Ready, H!Needs
    <2> QED
      BY <2>2, <2>3, <2>4, <2>5, <2>6, <2>7
  <1> QED
    BY <1>3, <1>4

\* What a handler saves is ready: from its copy, and from what the sender
\* has recorded.
LEMMA HandledReady ==
  ASSUME OrderInv, NEW i \in Call, call[i].hpc = "handling"
  PROVE  H!Ready(Peer(call[i].by), Target(call[i].kind))
  <1> DEFINE k == call[i].kind  p == call[i].by
             s == call[i].copy.state  r == call[i].hcopy.state
  <1>1. TypeOK /\ HandshakeOrder
    BY DEF OrderInv, TypeInv
  <1>2. /\ k \notin {"none", "requestNew"} /\ r \in seen[Peer(p)] /\ p \in Party
        /\ Allowed(p, r, Target(k))
    BY <1>1 DEF OrderInv, TypeInv, Loaded, CallOrder, ByRole, RemoteCopySeen,
         TypeOK, CallType
  <1>3. /\ s \in seen[p] /\ Allowed(p, s, Target(k))
        /\ SavesFirst(k) => Target(k) \in seen[p]
    BY <1>2 DEF OrderInv, CallOrder, CopySeen, Recorded
  <1>4. /\ k \in {"requestExisting", "offer", "accept", "agree", "verify",
                  "finalize", "terminate"}
        /\ k \in {"requestExisting", "accept"} => p = "consumer" /\ r = "OFFERED"
        /\ k = "verify" => p = "consumer"
        /\ k = "offer" => p = "provider" /\ r = "REQUESTED"
        /\ k = "agree" => p = "provider"
    BY <1>2, CallKindFacts
  <1>5. k = "finalize" => p = "provider" /\ s = "VERIFIED"
    BY <1>2, <1>3, CallKindFacts
  <1>6. k = "verify" => Target(k) \in seen["consumer"]
    BY <1>3, <1>4 DEF SavesFirst
  <1>7. CASE k = "agree"
    <2>1. /\ "AGREED" \in seen["provider"]
          /\ "REQUESTED" \in seen["consumer"]
      BY <1>1, <1>2, <1>3, <1>4, <1>7, Started DEF SavesFirst, Target
    <2> QED
      BY <1>4, <1>7, <2>1 DEF Target, H!Ready, H!Needs
  <1>8. CASE k = "terminate"
    <2>1. "REQUESTED" \in seen["consumer"]
      BY <1>1, <1>2, <1>3, Started
    <2> QED
      BY <1>2, <1>8, <2>1 DEF Target, H!Ready, H!Needs
  <1>9. CASE k = "requestExisting"
    BY <1>4, <1>9 DEF Target, H!Ready, H!Needs
  <1>10. CASE k = "accept"
    <2>1. p = "consumer" /\ "OFFERED" \in seen["provider"]
      BY <1>2, <1>4, <1>10
    <2> QED
      BY <1>10, <2>1 DEF Target, H!Ready, H!Needs
  <1>11. CASE k = "offer"
    <2>1. p = "provider" /\ "REQUESTED" \in seen["consumer"]
      BY <1>2, <1>4, <1>11
    <2> QED
      BY <1>11, <2>1 DEF Target, H!Ready, H!Needs
  <1>12. CASE k = "verify"
    <2>1. p = "consumer" /\ "VERIFIED" \in seen["consumer"]
      BY <1>4, <1>6, <1>12 DEF Target
    <2> QED
      BY <1>12, <2>1 DEF Target, H!Ready, H!Needs
  <1>13. CASE k = "finalize"
    <2>1. p = "provider" /\ "VERIFIED" \in seen["provider"]
      BY <1>3, <1>5, <1>13
    <2> QED
      BY <1>13, <2>1 DEF Target, H!Ready, H!Needs
  <1> QED
    BY <1>4, <1>7, <1>8, <1>9, <1>10, <1>11, <1>12, <1>13

----------------------------------------------------------------------------
(* OrderInv is inductive, and every step is one of the handshake's.         *)

SeenGrows == \A q \in Party : seen[q] \subseteq seen'[q]

\* What is known of a call stays true while others move.
LEMMA OtherCall ==
  ASSUME TypeOK, SeenGrows, NEW j \in Call, CallOrder(j), call'[j] = call[j],
         j \in events' => j \in events
  PROVE  CallOrder(j)'
  <1>1. call[j].by \in Party /\ Peer(call[j].by) \in Party
    BY DEF TypeOK, CallType
  <1>2. ByRole(j)'
    BY DEF CallOrder, ByRole
  <1>3. CopySeen(j)' /\ RemoteCopySeen(j)' /\ Recorded(j)'
    BY <1>1 DEF CallOrder, CopySeen, RemoteCopySeen, Recorded, SeenGrows
  <1> QED
    BY <1>2, <1>3 DEF CallOrder

\* A step of call i keeps OrderInv if it keeps what is known of call i.
LEMMA MoveOrder ==
  ASSUME OrderInv, TypeInv', NEW i \in Call,
         \A j \in Call : j # i => call'[j] = call[j],
         events' \subseteq events \cup {i},
         SeenGrows, RowsSeen', HandshakeOrder', CallOrder(i)'
  PROVE  OrderInv'
  <1>1. ASSUME NEW j \in Call PROVE CallOrder(j)'
    BY OtherCall DEF OrderInv, TypeInv
  <1> QED
    BY <1>1 DEF OrderInv

\* The same for a step that does not save.
LEMMA QuietMove ==
  ASSUME OrderInv, TypeInv', NEW i \in Call,
         \A j \in Call : j # i => call'[j] = call[j],
         events' \subseteq events \cup {i},
         UNCHANGED <<db, seen>>, CallOrder(i)'
  PROVE  OrderInv'
  <1>1. SeenGrows /\ RowsSeen' /\ HandshakeOrder'
    BY DEF OrderInv, SeenGrows, RowsSeen, Exists, HandshakeOrder, H!Ordered,
           H!Ready
  <1> QED
    BY <1>1, MoveOrder

\* A call that begins keeps OrderInv.
LEMMA BeginOrder ==
  ASSUME OrderInv, TypeInv', NEW i \in Call, NEW p \in Party, NEW k \in KindsOf(p),
         call[i].pc = "idle", Begin(i, p, k), events' \subseteq events
  PROVE  OrderInv' /\ UNCHANGED seen
  <1>1. TypeOK /\ k \in Kind /\ k \notin {"none", "requestNew"}
    BY DEF OrderInv, TypeInv, Kind, KindsOf
  <1>2. Began(i, p, k) /\ db[p] \in Row /\ UNCHANGED <<db, agreements, seen>>
    BY <1>1, BeginFacts
  <1>3. db[p].state \in seen[p]
    BY <1>2, AbsentRow DEF OrderInv, RowsSeen, Exists
  <1>4. i \notin events
    BY DEF OrderInv, CallOrder, ByRole
  <1>5. ByRole(i)'
    BY <1>1, <1>2, <1>4 DEF Began, ByRole
  <1>6. CopySeen(i)' /\ RemoteCopySeen(i)' /\ Recorded(i)'
    BY <1>1, <1>2, <1>3 DEF Began, CopySeen, RemoteCopySeen, Recorded
  <1>7. CallOrder(i)'
    BY <1>5, <1>6 DEF CallOrder
  <1> QED
    BY <1>2, <1>7, QuietMove DEF Began

\* A step of a call or of its handler keeps OrderInv and is a step of the
\* handshake, or none.
LEMMA ProgressOrder ==
  ASSUME OrderInv, TypeInv', NEW i \in Call, Progress(i)
  PROVE  OrderInv' /\ [H!Next]_seen
  <1>1. /\ TypeInv /\ TypeOK /\ HandshakeOrder /\ CallOrder(i)
        /\ call[i].by \in Party /\ Peer(call[i].by) \in Party
    BY DEF OrderInv, TypeInv, TypeOK, CallType
  <1>2. \A p \in Party, s \in State : H!Enter(p, s) => H!Next
    BY DEF H!Next, H!Party, H!State, State
  <1>3. call[i].kind # "none" => Target(call[i].kind) \in State
    BY <1>1, TargetState DEF CallOrder, ByRole, TypeInv, Loaded
  <1>4. CASE SaveRefusal(i)
    <2> DEFINE p == call[i].by  s == call[i].copy.state
    <2>1. /\ call[i].pc = "refusing" /\ UNCHANGED events
          /\ Save(p, s, call[i].copy.offer, None)
          /\ s \in seen[p] /\ s \in State
      BY <1>1, <1>4 DEF SaveRefusal, CallOrder, CopySeen, TypeOK
    <2>2. /\ H!Enter(p, s) /\ HandshakeOrder' /\ RowsSeen' /\ SeenGrows
      BY <1>1, <2>1, SeenReady, SaveEnters DEF SeenGrows
    <2>3. Moved(i, "failed", call[i].hpc) /\ call'[i].hcopy = call[i].hcopy
      BY <1>1, <1>4, SaveRefusalMoves
    <2>4. CallOrder(i)'
      BY <1>1, <2>1, <2>2, <2>3
         DEF Moved, CallOrder, ByRole, CopySeen, RemoteCopySeen, Recorded,
              SeenGrows
    <2> QED
      BY <1>1, <1>2, <2>1, <2>2, <2>3, <2>4, MoveOrder DEF Moved
  <1>5. CASE StoreAgreement(i)
    <2>1. PICK pc \in {"recording", "saving"} :
            /\ Moved(i, pc, call[i].hpc) /\ call'[i].hcopy = call[i].hcopy
            /\ pc = "recording" <=> SavesFirst(call[i].kind)
      BY <1>1, <1>5, StoreAgreementMoves
    <2>2. call[i].pc = "storing" /\ UNCHANGED <<db, events, seen>>
      BY <1>5 DEF StoreAgreement
    <2>3. CallOrder(i)'
      BY <1>1, <2>1, <2>2
         DEF Moved, CallOrder, ByRole, CopySeen, RemoteCopySeen, Recorded
    <2> QED
      BY <1>1, <2>1, <2>2, <2>3, QuietMove DEF Moved
  <1>6. CASE RecordThenPost(i)
    <2> DEFINE p == call[i].by  s == Target(call[i].kind)
    <2>1. /\ call[i].pc = "recording" /\ UNCHANGED events
          /\ Save(p, s, Offer(i), Link(i)) /\ s \in State
      BY <1>1, <1>3, <1>6 DEF RecordThenPost, CallOrder, ByRole
    <2>2. /\ H!Enter(p, s) /\ HandshakeOrder' /\ RowsSeen' /\ SeenGrows
          /\ s \in seen'[p]
      BY <1>1, <2>1, RecordReady, SaveEnters DEF SeenGrows
    <2>3. Moved(i, "posted", "sent") /\ call'[i].hcopy = call[i].hcopy
      BY <1>1, <1>6, RecordThenPostMoves
    <2>4. CallOrder(i)'
      BY <1>1, <2>1, <2>2, <2>3
         DEF Moved, CallOrder, ByRole, CopySeen, RemoteCopySeen, Recorded,
              SeenGrows
    <2> QED
      BY <1>1, <1>2, <2>1, <2>2, <2>3, <2>4, MoveOrder DEF Moved
  <1>7. CASE Reply(i)
    <2>1. PICK pc \in {"failed", "done", "storing", "saving"} :
            /\ Moved(i, pc, call[i].hpc) /\ call'[i].hcopy = call[i].hcopy
            /\ pc = IF call[i].hpc = "failed" THEN "failed"
                    ELSE IF SavesFirst(call[i].kind) THEN "done"
                    ELSE IF Stores(call[i].kind) THEN "storing" ELSE "saving"
      BY <1>1, <1>7, ReplyMoves, Zenon
    <2>2. /\ call[i].pc = "posted" /\ UNCHANGED <<db, events, seen>>
          /\ call[i].hpc \in {"ok", "failed"}
      BY <1>7 DEF Reply
    <2>3. /\ pc # "failed" => call[i].hpc = "ok"
          /\ pc = "done" => SavesFirst(call[i].kind)
      BY <2>1, <2>2
    <2>4. CallOrder(i)'
      BY <1>1, <2>1, <2>2, <2>3
         DEF Moved, CallOrder, ByRole, CopySeen, RemoteCopySeen, Recorded
    <2> QED
      BY <1>1, <2>1, <2>2, <2>4, QuietMove DEF Moved
  <1>8. CASE SaveAfterReply(i)
    <2> DEFINE p == call[i].by  s == Target(call[i].kind)
    <2>1. /\ call[i].pc = "saving" /\ UNCHANGED events
          /\ Save(p, s, Offer(i), Link(i)) /\ s \in State
      BY <1>1, <1>3, <1>8 DEF SaveAfterReply, CallOrder, ByRole
    <2>2. /\ H!Enter(p, s) /\ HandshakeOrder' /\ RowsSeen' /\ SeenGrows
          /\ s \in seen'[p]
      BY <1>1, <2>1, ReplyReady, SaveEnters DEF SeenGrows
    <2>3. Moved(i, "done", call[i].hpc) /\ call'[i].hcopy = call[i].hcopy
      BY <1>1, <1>8, SaveAfterReplyMoves
    <2>4. CallOrder(i)'
      BY <1>1, <2>1, <2>2, <2>3
         DEF Moved, CallOrder, ByRole, CopySeen, RemoteCopySeen, Recorded,
              SeenGrows
    <2> QED
      BY <1>1, <1>2, <2>1, <2>2, <2>3, <2>4, MoveOrder DEF Moved
  <1>9. CASE HandleNewRequest(i)
    <2>1. /\ call[i].kind = "requestNew" /\ call[i].hpc = "sent"
          /\ Save("provider", "REQUESTED", Offer(i), None)
          /\ events' \subseteq events \cup {i}
      BY <1>9 DEF HandleNewRequest, Emit
    <2>2. H!Ready("provider", "REQUESTED") /\ "REQUESTED" \in State
      BY DEF H!Ready, H!Needs, State
    <2>3. /\ H!Enter("provider", "REQUESTED")
          /\ HandshakeOrder' /\ RowsSeen' /\ SeenGrows
          /\ "REQUESTED" \in seen'["provider"]
      BY <2>1, <2>2, SaveEnters DEF SeenGrows
    <2>4. Moved(i, call[i].pc, "ok") /\ call'[i].hcopy = call[i].hcopy
      BY <1>1, <1>9, HandleNewRequestMoves
    <2>5. Target("requestNew") = "REQUESTED" /\ Peer("consumer") = "provider"
      BY DEF Target
    <2>6. CallOrder(i)'
      BY <1>1, <2>1, <2>3, <2>4, <2>5
         DEF Moved, CallOrder, ByRole, CopySeen, RemoteCopySeen, Recorded,
              SeenGrows
    <2> QED
      BY <1>1, <1>2, <2>1, <2>2, <2>3, <2>4, <2>6, MoveOrder DEF Moved
  <1>10. CASE Handle(i)
    <2>1. PICK next \in {"failed", "refusing", "storing", "handling"} :
            HandleOutcome(i, next)
      BY <1>1, <1>10, HandleMoves
    <2>2. /\ call[i].hpc = "sent" /\ UNCHANGED <<db, events, seen>>
          /\ call[i].kind # "requestNew"
      BY <1>10 DEF Handle
    <2>3. next # "failed" => /\ call'[i].hcopy.state \in seen[Peer(call[i].by)]
                             /\ call'[i].hcopy = db[Peer(call[i].by)]
      BY <1>1, <2>1, AbsentRow DEF HandleOutcome, OrderInv, RowsSeen, Exists
    <2>4. CallOrder(i)'
      BY <1>1, <2>1, <2>2, <2>3
         DEF HandleOutcome, Moved, CallOrder, ByRole, CopySeen, RemoteCopySeen,
             Recorded
    <2> QED
      BY <1>1, <2>1, <2>2, <2>4, QuietMove DEF HandleOutcome, Moved
  <1>11. CASE SaveRemoteRefusal(i)
    <2> DEFINE q == Peer(call[i].by)  s == call[i].hcopy.state
    <2>1. /\ call[i].hpc = "refusing" /\ UNCHANGED events
          /\ Save(q, s, call[i].hcopy.offer, None)
          /\ s \in seen[q] /\ s \in State
      BY <1>1, <1>11 DEF SaveRemoteRefusal, CallOrder, RemoteCopySeen, TypeOK
    <2>2. /\ H!Enter(q, s) /\ HandshakeOrder' /\ RowsSeen' /\ SeenGrows
      BY <1>1, <2>1, SeenReady, SaveEnters DEF SeenGrows
    <2>3. Moved(i, call[i].pc, "failed")
      BY <1>1, <1>11, SaveRemoteRefusalMoves
    <2>4. CallOrder(i)'
      BY <1>1, <2>1, <2>2, <2>3
         DEF Moved, CallOrder, ByRole, CopySeen, RemoteCopySeen, Recorded,
              SeenGrows
    <2> QED
      BY <1>1, <1>2, <2>1, <2>2, <2>3, <2>4, MoveOrder DEF Moved
  <1>12. CASE StoreRemoteAgreement(i)
    <2>1. PICK hpc \in {"handling", "linking"} :
            Moved(i, call[i].pc, hpc) /\ call'[i].hcopy = call[i].hcopy
      BY <1>1, <1>12, StoreRemoteAgreementMoves
    <2>2. call[i].hpc = "storing" /\ UNCHANGED <<db, events, seen>>
      BY <1>12 DEF StoreRemoteAgreement
    <2>3. CallOrder(i)'
      BY <1>1, <2>1, <2>2
         DEF Moved, CallOrder, ByRole, CopySeen, RemoteCopySeen, Recorded
    <2> QED
      BY <1>1, <2>1, <2>2, <2>3, QuietMove DEF Moved
  <1>13. CASE LinkFinalized(i)
    <2> DEFINE q == Peer(call[i].by)  s == call[i].hcopy.state
    <2>1. /\ call[i].hpc = "linking" /\ UNCHANGED events
          /\ Save(q, s, call[i].hcopy.offer, call[i].hcopy.agr)
          /\ s \in seen[q] /\ s \in State
      BY <1>1, <1>13 DEF LinkFinalized, CallOrder, RemoteCopySeen, TypeOK
    <2>2. /\ H!Enter(q, s) /\ HandshakeOrder' /\ RowsSeen' /\ SeenGrows
      BY <1>1, <2>1, SeenReady, SaveEnters DEF SeenGrows
    <2>3. Moved(i, call[i].pc, "handling") /\ call'[i].hcopy = call[i].hcopy
      BY <1>1, <1>13, LinkFinalizedMoves
    <2>4. CallOrder(i)'
      BY <1>1, <2>1, <2>2, <2>3
         DEF Moved, CallOrder, ByRole, CopySeen, RemoteCopySeen, Recorded,
              SeenGrows
    <2> QED
      BY <1>1, <1>2, <2>1, <2>2, <2>3, <2>4, MoveOrder DEF Moved
  <1>14. CASE SaveHandled(i)
    <2> DEFINE q == Peer(call[i].by)  s == Target(call[i].kind)
    <2>1. /\ call[i].hpc = "handling" /\ events' \subseteq events \cup {i}
          /\ i \in events' => i \in events \/ Emitting(i)
          /\ s \in State
          /\ \E o, l \in Ref : Save(q, s, o, l)
      <3>1. call[i].hpc = "handling"
        BY <1>14 DEF SaveHandled
      <3>2. s \in State
        BY <1>1, <1>3, <3>1 DEF CallOrder, ByRole, TypeInv, Loaded
      <3>3. /\ Offer(i) \in Ref /\ Agreement(i) \in Ref /\ None \in Ref
            /\ call[i].hcopy.offer \in Ref
        BY <1>1, CallFacts DEF Ref
      <3> QED
        BY <1>14, <3>1, <3>2, <3>3 DEF SaveHandled, Emit
    <2>2. /\ H!Enter(q, s) /\ HandshakeOrder' /\ RowsSeen' /\ SeenGrows
          /\ s \in seen'[q]
      BY <1>1, <2>1, HandledReady, SaveEnters DEF SeenGrows
    <2>3. Moved(i, call[i].pc, "ok")
      BY <1>1, <1>14, SaveHandledMoves
    <2>4. CallOrder(i)'
      BY <1>1, <2>1, <2>2, <2>3
         DEF Moved, CallOrder, ByRole, CopySeen, RemoteCopySeen, Recorded,
              SeenGrows,
             Emitting
    <2> QED
      BY <1>1, <1>2, <2>1, <2>2, <2>3, <2>4, MoveOrder DEF Moved
  <1> QED
    BY <1>4, <1>5, <1>6, <1>7, <1>8, <1>9, <1>10, <1>11, <1>12, <1>13, <1>14
       DEF Progress

\* Before the first call OrderInv holds, and the handshake has not begun.
LEMMA InitOrder == Init => OrderInv /\ H!Init
  BY InitType
     DEF Init, OrderInv, RowsSeen, Exists, HandshakeOrder, H!Ordered, H!Party,
         CallOrder, ByRole, CopySeen, RemoteCopySeen, Recorded, Idle, H!Init

\* What a listener calls is an operation of its party.
LEMMA ReactionByRole ==
  ASSUME OrderInv, NEW i \in events, NEW match,
         NEW k \in Reaction(Peer(call[i].by), i, match)
  PROVE  k \in KindsOf(Peer(call[i].by))
  <1>1. /\ i \in Call /\ call[i].by \in Party /\ ByRole(i)
    BY DEF OrderInv, TypeInv, TypeOK, CallType, CallOrder
  <1>2. /\ call[i].kind \in {"requestNew", "agree", "verify"}
        /\ call[i].kind \in {"requestNew", "verify"} => call[i].by = "consumer"
        /\ call[i].kind = "agree" => call[i].by = "provider"
    BY <1>1 DEF ByRole, KindsOf
  <1> QED
    BY <1>1, <1>2 DEF Reaction, KindsOf

\* Every step keeps OrderInv and is a step of the handshake, or none.
LEMMA NextOrder ==
  ASSUME OrderInv, [Next]_vars
  PROVE  OrderInv' /\ [H!Next]_seen
  <1>1. TypeInv /\ TypeOK /\ TypeInv'
    BY NextType DEF OrderInv, TypeInv
  <1>2. ASSUME NEW i \in UserCall, RequestNew(i) PROVE OrderInv' /\ UNCHANGED seen
    <2>1. /\ call[i].pc = "idle" /\ UNCHANGED <<db, events, seen>>
      BY <1>2 DEF RequestNew, Fresh
    <2>2. i \in Call /\ i \notin events
      BY <2>1 DEF Call, OrderInv, CallOrder, ByRole
    <2>3. CallOrder(i)'
      BY <1>1, <1>2, <2>1, <2>2, RequestNewFacts
         DEF CallOrder, ByRole, CopySeen, RemoteCopySeen, Recorded, SavesFirst
    <2> QED
      BY <1>1, <1>2, <2>1, <2>2, <2>3, RequestNewFacts, QuietMove
  <1>3. ASSUME NEW i \in UserCall, NEW p \in Party, NEW k \in KindsOf(p),
               ClientCall(i, p, k)
        PROVE  OrderInv' /\ UNCHANGED seen
    BY <1>1, <1>3, BeginOrder DEF ClientCall, Fresh, Call
  <1>4. ASSUME NEW i \in Call, Listen(i) PROVE OrderInv' /\ UNCHANGED seen
    <2>1. CASE ListenerIgnores(i)
      BY <1>1, <2>1, QuietMove, OtherCall
         DEF ListenerIgnores, OrderInv, CallOrder, ByRole, CopySeen,
             RemoteCopySeen, Recorded
    <2>2. ASSUME NEW j \in AutoCall, ListenerCall(i, j)
          PROVE  OrderInv' /\ UNCHANGED seen
      <3>1. /\ i \in events /\ call[j].pc = "idle" /\ j \in Call
            /\ events' \subseteq events
        BY <2>2 DEF ListenerCall, Fresh, Call
      <3>2. PICK match \in PolicyOutcomes :
              \E k \in Reaction(Peer(call[i].by), i, match) :
                Begin(j, Peer(call[i].by), k)
        BY <2>2 DEF ListenerCall
      <3>3. PICK k \in Reaction(Peer(call[i].by), i, match) :
              Begin(j, Peer(call[i].by), k)
        BY <3>2
      <3>4. k \in KindsOf(Peer(call[i].by)) /\ Peer(call[i].by) \in Party
        BY <3>1, ReactionByRole
      <3> QED
        BY <1>1, <3>1, <3>3, <3>4, BeginOrder
    <2> QED
      BY <1>4, <2>1, <2>2 DEF Listen
  <1>5. ASSUME NEW i \in Call, LoseRequest(i) PROVE OrderInv' /\ UNCHANGED seen
    <2>1. call[i].hpc = "sent" /\ UNCHANGED <<db, events, seen>>
      BY <1>5 DEF LoseRequest
    <2>2. Moved(i, call[i].pc, "failed") /\ call'[i].hcopy = call[i].hcopy
      BY <1>1, <1>5, LoseRequestMoves
    <2>3. CallOrder(i)'
      BY <2>1, <2>2 DEF Moved, OrderInv, CallOrder, ByRole, CopySeen,
                        RemoteCopySeen, Recorded
    <2> QED
      BY <1>1, <2>1, <2>2, <2>3, QuietMove DEF Moved
  <1>6. ASSUME NEW i \in Call, Timeout(i) PROVE OrderInv' /\ UNCHANGED seen
    <2>1. call[i].pc = "posted" /\ UNCHANGED <<db, events, seen>>
      BY <1>6 DEF Timeout
    <2>2. Moved(i, "failed", call[i].hpc) /\ call'[i].hcopy = call[i].hcopy
      BY <1>1, <1>6, TimeoutMoves
    <2>3. CallOrder(i)'
      BY <2>1, <2>2 DEF Moved, OrderInv, CallOrder, ByRole, CopySeen,
                        RemoteCopySeen, Recorded
    <2> QED
      BY <1>1, <2>1, <2>2, <2>3, QuietMove DEF Moved
  <1>7. ASSUME NEW p \in Party, Restart(p) PROVE OrderInv' /\ UNCHANGED seen
    <2>1. \A i \in Call :
            /\ call'[i].kind = call[i].kind /\ call'[i].by = call[i].by
            /\ call'[i].copy = call[i].copy
            /\ call'[i].pc = call[i].pc \/
                 (call[i].pc \notin {"idle", "done"} /\ call'[i].pc = "failed")
            /\ \/ call'[i].hpc = call[i].hpc /\ call'[i].hcopy = call[i].hcopy
               \/ /\ call[i].hpc \in {"refusing", "storing", "linking", "handling"}
                  /\ call'[i].hpc = "failed"
      BY <1>1, <1>7, RestartFacts
    <2>2. UNCHANGED <<db, seen>> /\ events' \subseteq events
      BY <1>1, <1>7, RestartFacts
    <2>3. ASSUME NEW i \in Call PROVE CallOrder(i)'
      <3>1. CallOrder(i)
        BY DEF OrderInv
      <3> QED
        BY <2>1, <2>2, <3>1
             DEF CallOrder, ByRole, CopySeen, RemoteCopySeen, Recorded
    <2> QED
      BY <1>1, <2>2, <2>3
         DEF OrderInv, RowsSeen, Exists, HandshakeOrder, H!Ordered, H!Ready
  <1>8. CASE UNCHANGED vars
    BY <1>1, <1>8
         DEF vars, OrderInv, RowsSeen, Exists, HandshakeOrder, H!Ordered,
                      H!Ready, CallOrder, ByRole, CopySeen, RemoteCopySeen, Recorded
  <1> QED
    BY <1>1, <1>2, <1>3, <1>4, <1>5, <1>6, <1>7, <1>8, ProgressOrder DEF Next

\* OrderInv holds throughout: induction over the steps.
LEMMA OrderInvariant == Spec => []OrderInv
  BY InitOrder, NextOrder, PTL DEF Spec

\* The parties' rows enter the states of the protocol in its order, whatever
\* calls are made, interleaved, refused, lost or cut off by a restart.
THEOREM HandshakeOrdered == Spec => []HandshakeOrder
  <1>1. OrderInv => HandshakeOrder
    BY DEF OrderInv
  <1> QED
    BY <1>1, OrderInvariant, PTL

\* The two control planes implement the abstract handshake.
THEOREM NegotiationImplementsHandshake == Spec => ImplementsHandshake
  <1>1. Init => H!Init
    BY InitOrder
  <1>2. OrderInv /\ [Next]_vars => [H!Next]_seen
    BY NextOrder
  <1> QED
    BY <1>1, <1>2, OrderInvariant, PTL DEF Spec, ImplementsHandshake, H!Spec

\* A call that succeeded has been recorded by both parties.
THEOREM Acknowledged == Spec => []AcknowledgedByBoth
  <1>1. OrderInv => AcknowledgedByBoth
    <2> SUFFICES ASSUME OrderInv, NEW i \in Call, call[i].pc = "done", NEW p \in Party
                 PROVE  Target(call[i].kind) \in seen[p]
      BY DEF AcknowledgedByBoth
    <2>1. call[i].by \in Party
      BY DEF OrderInv, TypeInv, TypeOK, CallType
    <2> QED
      BY <2>1 DEF OrderInv, CallOrder, Recorded
  <1> QED
    BY <1>1, OrderInvariant, PTL

----------------------------------------------------------------------------
(* AgreementInv is inductive.                                               *)

\* After the step, a is an agreement of the provider's that party p has stored.
HeldNext(p, a) ==
  /\ a \in Call /\ call'[a].kind = "agree"
  /\ a \in agreements'["provider"] /\ a \in agreements'[p]

\* Agreements are only ever added, and a call that has a kind keeps it.
AgreementsGrow ==
  /\ \A p \in Party : agreements[p] \subseteq agreements'[p]
  /\ \A a \in Call : call[a].kind = "agree" => call'[a].kind = "agree"

\* A row that shows an issued agreement goes on showing one.
LEMMA HoldsKept ==
  ASSUME AgreementsGrow, NEW p \in Party, NEW row, Holds(p, row), NEW row2,
         row2.agr \in {row.agr, None}
  PROVE  row2.agr # None => HeldNext(p, row2.agr)
  BY DEF AgreementsGrow, Holds, Issued, HeldNext

\* A step of call i keeps AgreementInv if the rows and what is known of call i
\* are still right.
LEMMA MoveAgreement ==
  ASSUME AgreementInv, TypeInv', AgreementsGrow, NEW i \in Call,
         \A j \in Call : j # i => call'[j] = call[j],
         events' \subseteq events \cup {i},
         \A p \in Party : Holds(p, db[p])', CallAgreement(i)'
  PROVE  AgreementInv'
  <1>1. ASSUME NEW j \in Call, j # i PROVE CallAgreement(j)'
    <2>1. /\ call'[j] = call[j] /\ CallAgreement(j)
          /\ j \in events' => j \in events
          /\ call[j].by \in Party /\ Peer(call[j].by) \in Party
      BY <1>1 DEF AgreementInv, TypeInv, TypeOK, CallType
    <2>2. ByRole(j)'
      BY <2>1 DEF CallAgreement, ByRole
    <2>3. StoredAgreement(j)'
      BY <2>1 DEF CallAgreement, StoredAgreement, AgreementsGrow
    <2>4. Holds(call[j].by, call[j].copy)' /\ Holds(Peer(call[j].by), call[j].hcopy)'
      BY <2>1, HoldsKept DEF CallAgreement, Holds, Issued, HeldNext
    <2> QED
      BY <2>2, <2>3, <2>4 DEF CallAgreement
  <1> QED
    BY <1>1 DEF AgreementInv

\* Rows that are not saved, or are saved with no link or with the link to an
\* agreement the party holds, are right.
LEMMA RowsKept ==
  ASSUME AgreementInv, AgreementsGrow, UNCHANGED db
  PROVE  \A p \in Party : Holds(p, db[p])'
  BY HoldsKept DEF AgreementInv, Holds, Issued, HeldNext

\* A save with no link, or with the link to an agreement the party has
\* stored, leaves the rows right.
LEMMA SaveHolds ==
  ASSUME AgreementInv, AgreementsGrow, NEW p \in Party, NEW s, NEW o, NEW l,
         Save(p, s, o, l), l # None => HeldNext(p, l)
  PROVE  \A q \in Party : Holds(q, db[q])'
  <1>1. TypeOK
    BY DEF AgreementInv, TypeInv
  <1>2. \A q \in Party : q # p => db'[q] = db[q]
    BY <1>1 DEF Save, TypeOK
  <1>3. db'[p].agr = IF l = None THEN db[p].agr ELSE l
    BY <1>1 DEF Save, TypeOK
  <1>4. \A q \in Party : q # p => Holds(q, db[q])'
    BY <1>2, HoldsKept DEF AgreementInv, Holds, Issued, HeldNext
  <1>5. Holds(p, db[p])'
    BY <1>3, HoldsKept DEF AgreementInv, Holds, Issued, HeldNext
  <1> QED
    BY <1>4, <1>5

\* What is known of call i when its step leaves its copies alone, or forgets the
\* handler's.
LEMMA CopiesKept ==
  ASSUME AgreementInv, AgreementsGrow, NEW i \in Call, NEW pc, NEW hpc,
         Moved(i, pc, hpc), call'[i].hcopy \in {call[i].hcopy, Absent},
         call[i].pc # "idle", pc # "idle",
         i \in events' => i \in events \/ Emitting(i),
         StoredAgreement(i)'
  PROVE  CallAgreement(i)'
  <1>1. /\ CallAgreement(i) /\ call[i].by \in Party /\ Peer(call[i].by) \in Party
    BY DEF AgreementInv, TypeInv, TypeOK, CallType
  <1>2. ByRole(i)'
    BY <1>1 DEF Moved, CallAgreement, ByRole, Emitting
  <1>3. Holds(call[i].by, call[i].copy)'
    BY <1>1, HoldsKept DEF Moved, CallAgreement, Holds, Issued, HeldNext
  <1>4. Holds(Peer(call[i].by), call[i].hcopy)'
    BY <1>1, HoldsKept
       DEF Moved, CallAgreement, Holds, Absent, Issued, HeldNext
  <1> QED
    BY <1>2, <1>3, <1>4 DEF CallAgreement

\* A call that begins keeps AgreementInv.
LEMMA BeginAgreement ==
  ASSUME AgreementInv, TypeInv', NEW i \in Call, NEW p \in Party,
         NEW k \in KindsOf(p), call[i].pc = "idle", Begin(i, p, k),
         events' \subseteq events
  PROVE  AgreementInv'
  <1>1. TypeOK /\ k \in Kind /\ k \notin {"none", "requestNew"}
    BY DEF AgreementInv, TypeInv, Kind, KindsOf
  <1>2. Began(i, p, k) /\ UNCHANGED <<db, agreements, seen>>
    BY <1>1, BeginFacts
  <1>3. call[i].kind = "none" /\ i \notin events
    BY DEF AgreementInv, CallAgreement, ByRole
  <1>4. AgreementsGrow
    BY <1>1, <1>2, <1>3 DEF AgreementsGrow, Began
  <1>5. \A q \in Party : Holds(q, db[q])'
    BY <1>2, <1>4, RowsKept
  <1>6. ByRole(i)' /\ StoredAgreement(i)'
    BY <1>1, <1>2, <1>3 DEF Began, ByRole, StoredAgreement, SavesFirst, Stores
  <1>7. Holds(call[i].by, call[i].copy)' /\ Holds(Peer(call[i].by), call[i].hcopy)'
    BY <1>2, <1>5 DEF Began, Holds, Absent
  <1>8. CallAgreement(i)'
    BY <1>6, <1>7 DEF CallAgreement
  <1> QED
    BY <1>2, <1>4, <1>5, <1>8, MoveAgreement DEF Began

\* A step of a call or of its handler keeps AgreementInv.
LEMMA ProgressAgreement ==
  ASSUME AgreementInv, TypeInv', NEW i \in Call, Progress(i)
  PROVE  AgreementInv'
  <1>1. /\ TypeInv /\ TypeOK /\ CallAgreement(i)
        /\ call[i].by \in Party /\ Peer(call[i].by) \in Party
        /\ call[i].kind = "agree" => call[i].by = "provider"
    BY DEF AgreementInv, TypeInv, TypeOK, CallType, CallAgreement, ByRole,
         KindsOf
  <1>2. call[i].hpc # "none" => call[i].pc # "idle"
    BY <1>1 DEF TypeInv, Loaded
  <1>3. \A pc, hpc : Moved(i, pc, hpc) =>
          \A a \in Call : call'[a].kind = call[a].kind
    BY DEF Moved
  <1>4. ASSUME NEW pc, NEW hpc, Moved(i, pc, hpc), UNCHANGED agreements
        PROVE  AgreementsGrow
    BY <1>3, <1>4 DEF AgreementsGrow
  <1>5. CASE SaveRefusal(i)
    <2>1. /\ call[i].pc = "refusing" /\ UNCHANGED <<agreements, events>>
          /\ Save(call[i].by, call[i].copy.state, call[i].copy.offer, None)
      BY <1>5 DEF SaveRefusal
    <2>2. Moved(i, "failed", call[i].hpc) /\ call'[i].hcopy = call[i].hcopy
      BY <1>1, <1>5, SaveRefusalMoves
    <2>3. AgreementsGrow
      BY <1>4, <2>1, <2>2
    <2>4. StoredAgreement(i)'
      BY <1>1, <2>1, <2>2 DEF Moved, CallAgreement, StoredAgreement
    <2>5. CallAgreement(i)'
      BY <2>1, <2>2, <2>3, <2>4, CopiesKept
    <2> QED
      BY <1>1, <2>1, <2>2, <2>3, <2>5, SaveHolds, MoveAgreement DEF Moved
  <1>6. CASE StoreAgreement(i)
    <2>1. /\ call[i].pc = "storing" /\ UNCHANGED <<db, events>>
          /\ agreements' = [agreements EXCEPT ![call[i].by] = @ \cup {Agreement(i)}]
      BY <1>6 DEF StoreAgreement
    <2>2. PICK pc \in {"recording", "saving"} :
            Moved(i, pc, call[i].hpc) /\ call'[i].hcopy = call[i].hcopy
      BY <1>1, <1>6, StoreAgreementMoves
    <2>3. /\ \A p \in Party : agreements[p] \subseteq agreements'[p]
          /\ Agreement(i) \in agreements'[call[i].by]
      BY <1>1, <2>1 DEF TypeOK
    <2>4. AgreementsGrow
      BY <1>3, <2>2, <2>3 DEF AgreementsGrow
    <2>5. StoredAgreement(i)'
      BY <1>1, <2>2, <2>3 DEF Moved, CallAgreement, StoredAgreement, Agreement
    <2>6. CallAgreement(i)'
      BY <2>1, <2>2, <2>4, <2>5, CopiesKept
    <2> QED
      BY <2>1, <2>2, <2>4, <2>6, RowsKept, MoveAgreement DEF Moved
  <1>7. CASE RecordThenPost(i)
    <2>1. /\ call[i].pc = "recording" /\ UNCHANGED <<agreements, events>>
          /\ Save(call[i].by, Target(call[i].kind), Offer(i), Link(i))
      BY <1>7 DEF RecordThenPost
    <2>2. Moved(i, "posted", "sent") /\ call'[i].hcopy = call[i].hcopy
      BY <1>1, <1>7, RecordThenPostMoves
    <2>3. AgreementsGrow
      BY <1>4, <2>1, <2>2
    <2>4. StoredAgreement(i)'
      BY <1>1, <2>1, <2>2 DEF Moved, CallAgreement, StoredAgreement
    <2>5. CallAgreement(i)'
      BY <2>1, <2>2, <2>3, <2>4, CopiesKept
    <2>6. Link(i) # None => HeldNext(call[i].by, Link(i))
      BY <1>1, <2>1, <2>3, HoldsKept
         DEF Link, Agreement, CallAgreement, StoredAgreement, AgreementsGrow,
             Issued, Holds, HeldNext
    <2> QED
      BY <1>1, <2>1, <2>2, <2>3, <2>5, <2>6, SaveHolds, MoveAgreement DEF Moved
  <1>8. CASE Reply(i)
    <2>1. /\ call[i].pc = "posted" /\ UNCHANGED <<db, agreements, events>>
          /\ call[i].hpc \in {"ok", "failed"}
      BY <1>8 DEF Reply
    <2>2. PICK pc \in {"failed", "done", "storing", "saving"} :
            Moved(i, pc, call[i].hpc) /\ call'[i].hcopy = call[i].hcopy
      BY <1>1, <1>8, ReplyMoves, Zenon
    <2>3. AgreementsGrow
      BY <1>4, <2>1, <2>2
    <2>4. StoredAgreement(i)'
      BY <1>1, <2>1, <2>2 DEF Moved, CallAgreement, StoredAgreement
    <2>5. CallAgreement(i)'
      BY <2>1, <2>2, <2>3, <2>4, CopiesKept
    <2> QED
      BY <2>1, <2>2, <2>3, <2>5, RowsKept, MoveAgreement DEF Moved
  <1>9. CASE SaveAfterReply(i)
    <2>1. /\ call[i].pc = "saving" /\ UNCHANGED <<agreements, events>>
          /\ Save(call[i].by, Target(call[i].kind), Offer(i), Link(i))
      BY <1>9 DEF SaveAfterReply
    <2>2. Moved(i, "done", call[i].hpc) /\ call'[i].hcopy = call[i].hcopy
      BY <1>1, <1>9, SaveAfterReplyMoves
    <2>3. AgreementsGrow
      BY <1>4, <2>1, <2>2
    <2>4. StoredAgreement(i)'
      BY <1>1, <2>1, <2>2 DEF Moved, CallAgreement, StoredAgreement
    <2>5. CallAgreement(i)'
      BY <2>1, <2>2, <2>3, <2>4, CopiesKept
    <2>6. Link(i) # None => HeldNext(call[i].by, Link(i))
      BY <1>1, <2>1, <2>3, HoldsKept
         DEF Link, Agreement, CallAgreement, StoredAgreement, AgreementsGrow,
             Issued, Holds, HeldNext
    <2> QED
      BY <1>1, <2>1, <2>2, <2>3, <2>5, <2>6, SaveHolds, MoveAgreement DEF Moved
  <1>10. CASE HandleNewRequest(i)
    <2>1. /\ call[i].kind = "requestNew" /\ call[i].hpc = "sent"
          /\ UNCHANGED agreements /\ events' \subseteq events \cup {i}
          /\ i \in events' => i \in events \/ Emitting(i)
          /\ Save("provider", "REQUESTED", Offer(i), None)
      BY <1>10 DEF HandleNewRequest, Emit
    <2>2. Moved(i, call[i].pc, "ok") /\ call'[i].hcopy = call[i].hcopy
      BY <1>1, <1>10, HandleNewRequestMoves
    <2>3. AgreementsGrow
      BY <1>4, <2>1, <2>2
    <2>4. StoredAgreement(i)'
      BY <2>1, <2>2 DEF Moved, StoredAgreement
    <2>5. CallAgreement(i)'
      BY <1>2, <2>1, <2>2, <2>3, <2>4, CopiesKept
    <2> QED
      BY <2>1, <2>2, <2>3, <2>5, SaveHolds, MoveAgreement DEF Moved
  <1>11. CASE Handle(i)
    <2>1. call[i].hpc = "sent" /\ UNCHANGED <<db, agreements, events>>
      BY <1>11 DEF Handle
    <2>2. PICK next \in {"failed", "refusing", "storing", "handling"} :
            HandleOutcome(i, next)
      BY <1>1, <1>11, HandleMoves
    <2>3. AgreementsGrow
      BY <1>4, <2>1, <2>2 DEF HandleOutcome
    <2>4. StoredAgreement(i)'
      BY <1>1, <2>1, <2>2
         DEF HandleOutcome, Moved, CallAgreement, StoredAgreement, Stores
    <2>5. ByRole(i)'
      BY <1>1, <2>1, <2>2 DEF HandleOutcome, Moved, CallAgreement, ByRole
    <2>6. \A p \in Party : Holds(p, db[p])'
      BY <2>1, <2>3, RowsKept
    <2>7. Holds(Peer(call[i].by), call[i].hcopy)'
      <3>1. call'[i].hcopy \in {db'[Peer(call[i].by)], Absent}
            /\ call'[i].by = call[i].by
        BY <2>1, <2>2 DEF HandleOutcome, Moved
      <3> QED
        BY <1>1, <2>6, <3>1 DEF Holds, Absent
    <2>8. Holds(call[i].by, call[i].copy)'
      BY <1>1, <2>2, <2>3, HoldsKept
         DEF HandleOutcome, Moved, CallAgreement, Holds, Issued, HeldNext
    <2>9. CallAgreement(i)'
      BY <2>4, <2>5, <2>7, <2>8 DEF CallAgreement
    <2> QED
      BY <2>1, <2>2, <2>3, <2>6, <2>9, MoveAgreement DEF HandleOutcome, Moved
  <1>12. CASE SaveRemoteRefusal(i)
    <2>1. /\ call[i].hpc = "refusing" /\ UNCHANGED <<agreements, events>>
          /\ Save(Peer(call[i].by), call[i].hcopy.state, call[i].hcopy.offer, None)
      BY <1>12 DEF SaveRemoteRefusal
    <2>2. Moved(i, call[i].pc, "failed") /\ call'[i].hcopy = Absent
      BY <1>1, <1>12, SaveRemoteRefusalMoves
    <2>3. AgreementsGrow
      BY <1>4, <2>1, <2>2
    <2>4. StoredAgreement(i)'
      BY <1>1, <2>1, <2>2 DEF Moved, CallAgreement, StoredAgreement
    <2>5. CallAgreement(i)'
      BY <1>2, <2>1, <2>2, <2>3, <2>4, CopiesKept
    <2> QED
      BY <1>1, <2>1, <2>2, <2>3, <2>5, SaveHolds, MoveAgreement DEF Moved
  <1>13. CASE StoreRemoteAgreement(i)
    <2> DEFINE a == IF call[i].kind = "agree" THEN Agreement(i) ELSE call[i].hcopy.agr
    <2>1. /\ call[i].hpc = "storing" /\ UNCHANGED <<db, events>>
          /\ agreements' = [agreements EXCEPT ![Peer(call[i].by)] = @ \cup {a}]
      BY <1>13 DEF StoreRemoteAgreement
    <2>2. PICK hpc \in {"handling", "linking"} :
            Moved(i, call[i].pc, hpc) /\ call'[i].hcopy = call[i].hcopy
      BY <1>1, <1>13, StoreRemoteAgreementMoves
    <2>3. /\ \A p \in Party : agreements[p] \subseteq agreements'[p]
          /\ a \in agreements'[Peer(call[i].by)]
      BY <1>1, <2>1 DEF TypeOK
    <2>4. AgreementsGrow
      BY <1>3, <2>2, <2>3 DEF AgreementsGrow
    <2>5. StoredAgreement(i)'
      BY <1>1, <2>1, <2>2, <2>3
           DEF Moved, CallAgreement, StoredAgreement, Agreement
    <2>6. CallAgreement(i)'
      BY <1>2, <2>1, <2>2, <2>4, <2>5, CopiesKept
    <2> QED
      BY <2>1, <2>2, <2>4, <2>6, RowsKept, MoveAgreement DEF Moved
  <1>14. CASE LinkFinalized(i)
    <2>1. /\ call[i].hpc = "linking" /\ UNCHANGED <<agreements, events>>
          /\ Save(Peer(call[i].by), call[i].hcopy.state, call[i].hcopy.offer,
                  call[i].hcopy.agr)
      BY <1>14 DEF LinkFinalized
    <2>2. Moved(i, call[i].pc, "handling") /\ call'[i].hcopy = call[i].hcopy
      BY <1>1, <1>14, LinkFinalizedMoves
    <2>3. AgreementsGrow
      BY <1>4, <2>1, <2>2
    <2>4. StoredAgreement(i)'
      BY <1>1, <2>1, <2>2 DEF Moved, CallAgreement, StoredAgreement
    <2>5. CallAgreement(i)'
      BY <1>2, <2>1, <2>2, <2>3, <2>4, CopiesKept
    <2>6. call[i].hcopy.agr # None =>
            HeldNext(Peer(call[i].by), call[i].hcopy.agr)
      BY <1>1, <2>3, HoldsKept DEF CallAgreement
    <2> QED
      BY <1>1, <2>1, <2>2, <2>3, <2>5, <2>6, SaveHolds, MoveAgreement DEF Moved
  <1>15. CASE SaveHandled(i)
    <2> DEFINE q == Peer(call[i].by)
               l == IF call[i].kind = "agree" THEN Agreement(i) ELSE None
    <2>1. /\ call[i].hpc = "handling" /\ UNCHANGED agreements
          /\ events' \subseteq events \cup {i}
          /\ i \in events' => i \in events \/ Emitting(i)
          /\ \E o : Save(q, Target(call[i].kind), o, l)
      BY <1>15 DEF SaveHandled, Emit
    <2>2. Moved(i, call[i].pc, "ok") /\ call'[i].hcopy = Absent
      BY <1>1, <1>15, SaveHandledMoves
    <2>3. AgreementsGrow
      BY <1>4, <2>1, <2>2
    <2>4. StoredAgreement(i)'
      BY <1>1, <2>1, <2>2 DEF Moved, CallAgreement, StoredAgreement
    <2>5. CallAgreement(i)'
      BY <1>2, <2>1, <2>2, <2>3, <2>4, CopiesKept
    <2>6. l # None => HeldNext(q, l)
      BY <1>1, <2>1, <2>3
         DEF Agreement, CallAgreement, StoredAgreement, AgreementsGrow, HeldNext
    <2> HIDE DEF l
    <2> QED
      BY <1>1, <2>1, <2>2, <2>3, <2>5, <2>6, SaveHolds, MoveAgreement DEF Moved
  <1> QED
    BY <1>5, <1>6, <1>7, <1>8, <1>9, <1>10, <1>11, <1>12, <1>13, <1>14, <1>15
       DEF Progress

\* Before the first call there is no agreement.
LEMMA InitAgreement == Init => AgreementInv
  BY InitType
     DEF Init, AgreementInv, CallAgreement, ByRole, StoredAgreement, Holds,
          Idle,
         Absent

\* Every step keeps AgreementInv.
LEMMA NextAgreement ==
  ASSUME AgreementInv, OrderInv, [Next]_vars
  PROVE  AgreementInv'
  <1>1. TypeInv /\ TypeOK /\ TypeInv'
    BY NextType DEF AgreementInv, TypeInv
  <1>2. ASSUME NEW i \in UserCall, RequestNew(i) PROVE AgreementInv'
    <2>1. /\ call[i].pc = "idle" /\ UNCHANGED <<db, agreements, events>> /\ i \in Call
      BY <1>2 DEF RequestNew, Fresh, Call
    <2>2. i \notin events /\ call[i].kind = "none"
      BY <2>1 DEF AgreementInv, CallAgreement, ByRole
    <2>3. AgreementsGrow
      BY <1>1, <1>2, <2>1, <2>2, RequestNewFacts DEF AgreementsGrow
    <2>4. CallAgreement(i)'
      BY <1>1, <1>2, <2>1, <2>2, RequestNewFacts
         DEF CallAgreement, ByRole, StoredAgreement, Holds, Absent
    <2> QED
      BY <1>1, <1>2, <2>1, <2>3, <2>4, RequestNewFacts, RowsKept, MoveAgreement
  <1>3. ASSUME NEW i \in UserCall, NEW p \in Party, NEW k \in KindsOf(p),
               ClientCall(i, p, k)
        PROVE  AgreementInv'
    BY <1>1, <1>3, BeginAgreement DEF ClientCall, Fresh, Call
  <1>4. ASSUME NEW i \in Call, Listen(i) PROVE AgreementInv'
    <2>1. CASE ListenerIgnores(i)
      <3>1. UNCHANGED <<db, agreements, call>> /\ events' \subseteq events
        BY <2>1 DEF ListenerIgnores
      <3> QED
        BY <1>1, <3>1
           DEF AgreementInv, CallAgreement, ByRole, StoredAgreement, Holds,
                Issued
    <2>2. ASSUME NEW j \in AutoCall, ListenerCall(i, j) PROVE AgreementInv'
      <3>1. /\ i \in events /\ call[j].pc = "idle" /\ j \in Call
            /\ events' \subseteq events
        BY <2>2 DEF ListenerCall, Fresh, Call
      <3>2. PICK match \in PolicyOutcomes :
              \E k \in Reaction(Peer(call[i].by), i, match) :
                Begin(j, Peer(call[i].by), k)
        BY <2>2 DEF ListenerCall
      <3>3. PICK k \in Reaction(Peer(call[i].by), i, match) :
              Begin(j, Peer(call[i].by), k)
        BY <3>2
      <3>4. k \in KindsOf(Peer(call[i].by)) /\ Peer(call[i].by) \in Party
        BY <3>1, ReactionByRole
      <3> QED
        BY <1>1, <3>1, <3>3, <3>4, BeginAgreement
    <2> QED
      BY <1>4, <2>1, <2>2 DEF Listen
  <1>5. ASSUME NEW i \in Call, LoseRequest(i) \/ Timeout(i) PROVE AgreementInv'
    <2>1. PICK pc, hpc :
            /\ Moved(i, pc, hpc) /\ call'[i].hcopy = call[i].hcopy /\ pc # "idle"
            /\ hpc \in {call[i].hpc, "failed"} /\ pc \in {call[i].pc, "failed"}
      BY <1>1, <1>5, LoseRequestMoves, TimeoutMoves
         DEF LoseRequest, Timeout, TypeInv, Loaded
    <2>2. /\ UNCHANGED <<db, agreements, events>>
          /\ call[i].pc # "idle"
          /\ call[i].hpc # "none" \/ hpc = call[i].hpc
      BY <1>1, <1>5, <2>1, TimeoutMoves
           DEF LoseRequest, Timeout, TypeInv, Loaded, Moved
    <2>3. AgreementsGrow
      BY <2>1, <2>2 DEF AgreementsGrow, Moved
    <2>4. StoredAgreement(i)'
      BY <2>1, <2>2 DEF Moved, AgreementInv, CallAgreement, StoredAgreement
    <2>5. CallAgreement(i)'
      BY <1>1, <1>5, <2>1, <2>2, <2>3, <2>4, CopiesKept
         DEF LoseRequest, Timeout, TypeInv, Loaded
    <2> QED
      BY <1>1, <2>1, <2>2, <2>3, <2>5, RowsKept, MoveAgreement DEF Moved
  <1>6. ASSUME NEW p \in Party, Restart(p) PROVE AgreementInv'
    <2>1. /\ UNCHANGED <<db, agreements>> /\ events' \subseteq events
          /\ \A i \in Call :
            /\ call'[i].kind = call[i].kind /\ call'[i].by = call[i].by
            /\ call'[i].copy = call[i].copy
            /\ call'[i].pc = call[i].pc \/
                 (call[i].pc \notin {"idle", "done"} /\ call'[i].pc = "failed")
            /\ \/ call'[i].hpc = call[i].hpc /\ call'[i].hcopy = call[i].hcopy
               \/ /\ call[i].hpc \in {"refusing", "storing", "linking", "handling"}
                  /\ call'[i].hpc = "failed" /\ call'[i].hcopy = Absent
      BY <1>1, <1>6, RestartFacts
    <2>2. AgreementsGrow
      BY <2>1 DEF AgreementsGrow
    <2>3. ASSUME NEW i \in Call PROVE CallAgreement(i)'
      <3>1. CallAgreement(i) /\ call[i].by \in Party /\ Peer(call[i].by) \in Party
        BY <1>1 DEF AgreementInv, TypeOK, CallType
      <3>2. ByRole(i)' /\ StoredAgreement(i)'
        BY <2>1, <3>1 DEF CallAgreement, ByRole, StoredAgreement
      <3>3. Holds(call[i].by, call[i].copy)'
        BY <2>1, <2>2, <3>1, HoldsKept
             DEF CallAgreement, Holds, Issued, HeldNext
      <3>4. Holds(Peer(call[i].by), call[i].hcopy)'
        BY <2>1, <2>2, <3>1, HoldsKept
           DEF CallAgreement, Holds, Issued, HeldNext, Absent
      <3> QED
        BY <3>2, <3>3, <3>4 DEF CallAgreement
    <2> QED
      BY <1>1, <2>1, <2>2, <2>3, RowsKept DEF AgreementInv
  <1>7. CASE UNCHANGED vars
    BY <1>1, <1>7
       DEF vars, AgreementInv, CallAgreement, ByRole, StoredAgreement, Holds,
            Issued
  <1> QED
    BY <1>1, <1>2, <1>3, <1>4, <1>5, <1>6, <1>7, ProgressAgreement DEF Next

\* The agreements the parties hold are the provider's own, and stored where they
\* are held.
THEOREM AgreementsIssued == Spec => []AgreementIssued
  <1>1. Init => AgreementInv
    BY InitAgreement
  <1>2. AgreementInv /\ OrderInv /\ [Next]_vars => AgreementInv'
    BY NextAgreement
  <1>3. AgreementInv => AgreementIssued
    BY DEF AgreementInv, Holds, Issued, AgreementIssued
  <1> QED
    BY <1>1, <1>2, <1>3, OrderInvariant, PTL DEF Spec
USE DEF consumerRow, providerRow

----------------------------------------------------------------------------
(* The steps of a system in which nothing fails and clients wait.           *)

\* Call i begins: a client's or the listener's, about event e.
Begins(i, p, k) ==
  /\ Begin(i, p, k) /\ call[i].pc = "idle" /\ k \in KindsOf(p)
  /\ \/ ClientFree(p) /\ UNCHANGED events
     \/ \E e \in events : p = Peer(call[e].by) /\ events' = events \ {e}

\* Without faults there are five sorts of steps.
LEMMA Steps ==
  ASSUME ClientsWait, OrderInv, [Next]_vars
  PROVE  \/ \E i \in UserCall : RequestNew(i)
         \/ \E i \in Call, p \in Party : \E k \in KindsOf(p) : Begins(i, p, k)
         \/ \E i \in Call : Progress(i)
         \/ \E i \in Call : ListenerIgnores(i)
         \/ UNCHANGED vars
  <1>1. ASSUME NEW i \in UserCall, NEW p \in Party, NEW k \in KindsOf(p),
               ClientCall(i, p, k)
        PROVE  i \in Call /\ Begins(i, p, k)
    BY <1>1 DEF ClientCall, Fresh, Begins, Call
  <1>2. ASSUME NEW i \in Call, NEW j \in AutoCall, ListenerCall(i, j)
        PROVE  \E p \in Party : \E k \in KindsOf(p) : j \in Call /\ Begins(j, p, k)
    <2>1. /\ i \in events /\ call[j].pc = "idle" /\ j \in Call
          /\ events' = events \ {i}
      BY <1>2 DEF ListenerCall, Fresh, Call
    <2>2. PICK match \in PolicyOutcomes :
            \E k \in Reaction(Peer(call[i].by), i, match) :
              Begin(j, Peer(call[i].by), k)
      BY <1>2 DEF ListenerCall
    <2>3. PICK k \in Reaction(Peer(call[i].by), i, match) :
            Begin(j, Peer(call[i].by), k)
      BY <2>2
    <2>4. k \in KindsOf(Peer(call[i].by)) /\ Peer(call[i].by) \in Party
      BY <2>1, <2>3, ReactionByRole
    <2> QED
      BY <2>1, <2>3, <2>4 DEF Begins
  <1>3. \A i \in Call : ~LoseRequest(i) /\ ~Timeout(i)
    BY DEF ClientsWait, LoseRequest, Timeout
  <1>4. \A p \in Party : ~Restart(p)
    BY DEF ClientsWait, Restart
  <1> QED
    BY <1>1, <1>2, <1>3, <1>4 DEF Next, Listen

\* What a save leaves in the row and in the history.
LEMMA SavedRow ==
  ASSUME TypeOK, NEW p \in Party, NEW s \in State, NEW o, NEW l, Save(p, s, o, l)
  PROVE  /\ db'[p].state = s /\ db'[p].offer = o
         /\ db'[p].agr = IF l = None THEN db[p].agr ELSE l
         /\ At(db'[p]) = [state |-> s, offer |-> o]
         /\ db'[p] # Absent
         /\ \A q \in Party : q # p => db'[q] = db[q] /\ seen'[q] = seen[q]
  <1>1. db' = [db EXCEPT ![p] = [state |-> s, offer |-> o,
                                 agr |-> IF l = None THEN @.agr ELSE l]]
    BY DEF Save
  <1>2. db'[p] = [state |-> s, offer |-> o,
                  agr |-> IF l = None THEN db[p].agr ELSE l]
    BY <1>1 DEF TypeOK
  <1>3. db'[p] # Absent
    BY <1>2 DEF Absent, State
  <1>4. \A q \in Party : q # p => db'[q] = db[q] /\ seen'[q] = seen[q]
    BY DEF TypeOK, Save
  <1> QED
    BY <1>2, <1>3, <1>4 DEF At

\* A step of a call is one of eleven, and it is under way.
LEMMA ProgressRunning ==
  ASSUME OrderInv, NEW i \in Call, Awaited(i), Progress(i)
  PROVE  call[i].kind \in Kind /\ call[i].by \in Party /\ call[i].pc # "idle"
  <1>1. /\ TypeInv /\ TypeOK /\ call[i].by \in Party
        /\ call[i].pc # "idle" => call[i].kind \in Kind
        /\ call[i].hpc # "none" => call[i].pc # "idle"
    BY DEF OrderInv, TypeInv, TypeOK, CallType, Loaded
  <1>2. call[i].pc # "idle" \/ call[i].hpc # "none"
    BY DEF Progress, SaveRefusal, StoreAgreement, RecordThenPost, Reply,
       SaveAfterReply, HandleNewRequest, Handle, SaveRemoteRefusal,
       StoreRemoteAgreement, LinkFinalized, SaveHandled
  <1> QED
    BY <1>1, <1>2

----------------------------------------------------------------------------
(* Callers wait for their handlers.                                         *)

\* A step of a call keeps what is known of its waiting.
LEMMA ProgressAwaited ==
  ASSUME OrderInv, NEW i \in Call, Awaited(i), Progress(i)
  PROVE  /\ Awaited(i)' /\ \A j \in Call : j # i => call'[j] = call[j]
         /\ call'[i].kind = call[i].kind /\ call'[i].by = call[i].by
         /\ call'[i].copy = call[i].copy
  <1>1. TypeOK /\ call[i].kind \in Kind /\ call[i].pc # "idle"
    BY ProgressRunning DEF OrderInv, TypeInv
  <1>2. Recorded(i)
    BY DEF OrderInv, CallOrder
  <1>3. CASE SaveRefusal(i)
    BY <1>1, <1>3, SaveRefusalMoves
       DEF SaveRefusal, Moved, Awaited, Serving
  <1>4. CASE StoreAgreement(i)
    <2>1. call[i].pc = "storing"
      BY <1>4 DEF StoreAgreement
    <2>2. PICK pc : /\ pc = IF SavesFirst(call[i].kind) THEN "recording" ELSE "saving"
                    /\ Moved(i, pc, call[i].hpc)
      BY <1>1, <1>4, StoreAgreementMoves
    <2> QED
      BY <2>1, <2>2 DEF Moved, Awaited, Serving, SavesFirst
  <1>5. CASE RecordThenPost(i)
    BY <1>1, <1>5, RecordThenPostMoves
       DEF RecordThenPost, Moved, Awaited, Serving
  <1>6. CASE Reply(i)
    <2>1. call[i].pc = "posted" /\ call[i].hpc \in {"ok", "failed"}
      BY <1>6 DEF Reply
    <2>2. PICK pc : /\ pc = IF call[i].hpc = "failed" THEN "failed"
                            ELSE IF SavesFirst(call[i].kind) THEN "done"
                            ELSE IF Stores(call[i].kind) THEN "storing" ELSE "saving"
                    /\ Moved(i, pc, call[i].hpc)
      BY <1>1, <1>6, ReplyMoves, Zenon
    <2> QED
      BY <2>1, <2>2 DEF Moved, Awaited, Serving, SavesFirst, Stores
  <1>7. CASE SaveAfterReply(i)
    BY <1>1, <1>7, SaveAfterReplyMoves
       DEF SaveAfterReply, Moved, Awaited, Serving
  <1>8. CASE HandleNewRequest(i)
    BY <1>1, <1>8, HandleNewRequestMoves
       DEF HandleNewRequest, Moved, Awaited, Serving
  <1>9. CASE Handle(i)
    <2>1. PICK next \in {"failed", "refusing", "storing", "handling"} :
            HandleOutcome(i, next)
      BY <1>1, <1>9, HandleMoves
    <2> QED
      BY <1>9, <2>1 DEF Handle, HandleOutcome, Moved, Awaited, Serving, Stores
  <1>10. CASE SaveRemoteRefusal(i)
    BY <1>1, <1>10, SaveRemoteRefusalMoves
       DEF SaveRemoteRefusal, Moved, Awaited, Serving
  <1>11. CASE StoreRemoteAgreement(i)
    <2>1. call[i].hpc = "storing"
      BY <1>11 DEF StoreRemoteAgreement
    <2>2. PICK hpc : /\ hpc = IF call[i].kind = "agree" THEN "handling" ELSE "linking"
                     /\ Moved(i, call[i].pc, hpc)
      BY <1>1, <1>11, StoreRemoteAgreementMoves
    <2> QED
      BY <2>1, <2>2 DEF Moved, Awaited, Serving
  <1>12. CASE LinkFinalized(i)
    BY <1>1, <1>12, LinkFinalizedMoves
       DEF LinkFinalized, Moved, Awaited, Serving
  <1>13. CASE SaveHandled(i)
    BY <1>1, <1>13, SaveHandledMoves DEF SaveHandled, Moved, Awaited, Serving
  <1> QED
    BY <1>3, <1>4, <1>5, <1>6, <1>7, <1>8, <1>9, <1>10, <1>11, <1>12, <1>13
       DEF Progress

\* A call that begins has posted its request, or has not and has no handler.
LEMMA BeginAwaited ==
  ASSUME TypeOK, NEW i \in Call, NEW p \in Party, NEW k \in KindsOf(p),
         Begin(i, p, k)
  PROVE  Awaited(i)' /\ Began(i, p, k) /\ UNCHANGED <<db, agreements, seen>>
         /\ db[p] \in Row
  <1>1. k \in Kind
    BY DEF Kind, KindsOf
  <1>2. Began(i, p, k) /\ UNCHANGED <<db, agreements, seen>> /\ db[p] \in Row
    BY <1>1, BeginFacts
  <1> QED
    BY <1>2 DEF Began, Awaited, Serving, SavesFirst, Stores

\* All calls go on waiting for their handlers.
LEMMA NextAwaited ==
  ASSUME ClientsWait, OrderInv, \A i \in Call : Awaited(i), [Next]_vars
  PROVE  (\A i \in Call : Awaited(i))'
  <1>1. TypeOK
    BY DEF OrderInv, TypeInv
  <1>2. ASSUME NEW j \in Call, call'[j] = call[j] PROVE Awaited(j)'
    BY <1>2 DEF Awaited, Serving
  <1>3. ASSUME NEW i \in UserCall, RequestNew(i)
        PROVE  (\A j \in Call : Awaited(j))'
    BY <1>1, <1>2, <1>3, RequestNewFacts DEF Awaited, Serving
  <1>4. ASSUME NEW i \in Call, NEW p \in Party, NEW k \in KindsOf(p),
               Begins(i, p, k)
        PROVE  (\A j \in Call : Awaited(j))'
    BY <1>1, <1>2, <1>4, BeginAwaited DEF Begins, Began
  <1>5. ASSUME NEW i \in Call, Progress(i) PROVE (\A j \in Call : Awaited(j))'
    BY <1>2, <1>5, ProgressAwaited
  <1>6. ASSUME UNCHANGED call PROVE (\A j \in Call : Awaited(j))'
    BY <1>2, <1>6
  <1> QED
    BY <1>3, <1>4, <1>5, <1>6, Steps DEF ListenerIgnores, vars

----------------------------------------------------------------------------
(* Everything begins with the request.                                      *)

\* A row that a call loaded, other than to request, exists.
LEMMA CallerRow ==
  ASSUME OrderInv, RequestFirst, NEW i \in Call, Awaited(i), Running(i),
         call[i].kind # "requestNew"
  PROVE  /\ call[i].by \in Party /\ db[call[i].by] # Absent
         /\ call[i].copy.state \in seen[call[i].by]
         /\ call[i].pc # "refusing" =>
              Allowed(call[i].by, call[i].copy.state, Target(call[i].kind))
  <1>1. /\ CopySeen(i) /\ call[i].by \in Party /\ call[i].pc \in Pc
    BY DEF OrderInv, CallOrder, TypeInv, TypeOK, CallType
  <1> QED
    BY <1>1 DEF CopySeen, Running, Pc, Awaited, RequestFirst

\* A row that a handler loaded exists.
LEMMA HandlerRow ==
  ASSUME OrderInv, RequestFirst, NEW i \in Call, Serving(i)
  PROVE  /\ call[i].kind # "requestNew"
         /\ call[i].by \in Party /\ Peer(call[i].by) \in Party
         /\ db[Peer(call[i].by)] # Absent
         /\ call[i].hcopy.state \in seen[Peer(call[i].by)]
  <1>1. /\ RemoteCopySeen(i) /\ call[i].by \in Party
    BY DEF OrderInv, CallOrder, TypeInv, TypeOK, CallType
  <1> QED
    BY <1>1 DEF RemoteCopySeen, Serving, RequestFirst

\* A save to a row that exists keeps RequestFirst.
LEMMA RequestSaved ==
  ASSUME OrderInv, RequestFirst, NEW i \in Call, call[i].kind \in Kind \ {"requestNew"},
         \A j \in Call : j # i => call'[j] = call[j],
         call'[i].kind = call[i].kind,
         NEW p \in Party, db[p] # Absent,
         NEW s \in State, NEW o, NEW l, Save(p, s, o, l)
  PROVE  RequestFirst'
  <1>1. TypeOK
    BY DEF OrderInv, TypeInv
  <1>2. /\ db'[p] # Absent
        /\ \A q \in Party : q # p => db'[q] = db[q] /\ seen'[q] = seen[q]
    BY <1>1, SavedRow
  <1>3. Requested'
    BY DEF RequestFirst, Requested
  <1>4. ASSUME NEW n \in Call PROVE RequestInv(n)'
    <2>1. n = i \/ call'[n] = call[n]
      OBVIOUS
    <2>2. \A m \in Call : call'[m].kind = call[m].kind
      OBVIOUS
    <2> QED
      BY <1>2, <2>1, <2>2 DEF RequestFirst, RequestInv
  <1>5. \A q \in Party : db'[q] = Absent => seen'[q] = {}
    BY <1>2 DEF RequestFirst
  <1> QED
    BY <1>3, <1>4, <1>5 DEF RequestFirst

\* So does a step that saves nothing.
LEMMA RequestQuiet ==
  ASSUME RequestFirst, NEW i \in Call, call[i].pc # "idle",
         \A j \in Call : j # i => call'[j] = call[j],
         call'[i].kind = call[i].kind, UNCHANGED <<db, seen>>,
         RequestInv(i)'
  PROVE  RequestFirst'
  <1>1. Requested'
    BY DEF RequestFirst, Requested
  <1>2. ASSUME NEW n \in Call PROVE RequestInv(n)'
    <2>1. n = i \/ call'[n] = call[n]
      OBVIOUS
    <2>2. \A m \in Call : call'[m].kind = call[m].kind
      OBVIOUS
    <2> QED
      BY <2>1, <2>2 DEF RequestFirst, RequestInv
  <1> QED
    BY <1>1, <1>2 DEF RequestFirst

\* A step of a call keeps RequestFirst.
LEMMA ProgressRequest ==
  ASSUME OrderInv, RequestFirst, NEW i \in Call, Awaited(i), Progress(i)
  PROVE  RequestFirst'
  <1> DEFINE c == call[i]  p == call[i].by  q == Peer(call[i].by)
  <1>1. /\ c.kind \in Kind /\ c.pc # "idle" /\ p \in Party /\ q \in Party
        /\ Target(c.kind) \in State
    BY ProgressRunning, TargetState
  <1>2. /\ \A j \in Call : j # i => call'[j] = call[j]
        /\ call'[i].kind = c.kind /\ call'[i].copy = c.copy
    BY ProgressAwaited
  <1>3. /\ TypeOK /\ RequestInv(i) /\ CopySeen(i)
        /\ \A r \in Party : \A s \in seen[r] : s \in State
    BY DEF OrderInv, TypeInv, RequestFirst, CallOrder, TypeOK
  <1>4. \A m \in Call : call'[m].kind = call[m].kind
    BY <1>2
  <1>5. CASE SaveRefusal(i)
    <2>1. c.pc = "refusing" /\ Save(p, c.copy.state, c.copy.offer, None)
      BY <1>5 DEF SaveRefusal
    <2>2. c.kind # "requestNew"
      BY <1>3, <2>1 DEF RequestInv
    <2> QED
      BY <1>1, <1>2, <1>3, <2>1, <2>2, CallerRow, RequestSaved DEF Running
  <1>6. CASE StoreAgreement(i)
    <2>1. c.pc = "storing" /\ UNCHANGED <<db, seen>> /\ call'[i].hpc = c.hpc
      BY <1>3, <1>6, StoreAgreementMoves DEF StoreAgreement, Moved
    <2> QED
      BY <1>1, <1>2, <1>3, <2>1, RequestQuiet DEF RequestInv
  <1>7. CASE RecordThenPost(i)
    <2>1. c.pc = "recording" /\ Save(p, Target(c.kind), Offer(i), Link(i))
      BY <1>7 DEF RecordThenPost
    <2>2. c.kind # "requestNew"
      BY <1>3, <2>1 DEF RequestInv
    <2> QED
      BY <1>1, <1>2, <2>1, <2>2, CallerRow, RequestSaved DEF Running
  <1>8. CASE Reply(i)
    <2>1. /\ c.pc = "posted" /\ UNCHANGED <<db, seen>>
          /\ c.hpc \in {"ok", "failed"}
      BY <1>8 DEF Reply
    <2>2. PICK pc : /\ pc = IF c.hpc = "failed" THEN "failed"
                            ELSE IF SavesFirst(c.kind) THEN "done"
                            ELSE IF Stores(c.kind) THEN "storing" ELSE "saving"
                    /\ Moved(i, pc, c.hpc)
      BY <1>3, <1>8, ReplyMoves, Zenon
    <2>3. RequestInv(i)'
      BY <1>3, <1>4, <2>1, <2>2 DEF RequestInv, Moved, SavesFirst, Stores
    <2> QED
      BY <1>1, <1>2, <2>1, <2>3, RequestQuiet
  <1>9. CASE SaveAfterReply(i)
    <2>1. c.pc = "saving" /\ Save(p, Target(c.kind), Offer(i), Link(i))
      BY <1>9 DEF SaveAfterReply
    <2>2. CASE c.kind # "requestNew"
      BY <1>1, <1>2, <2>1, <2>2, CallerRow, RequestSaved DEF Running
    <2>3. CASE c.kind = "requestNew"
      <3>1. p = "consumer" /\ c.hpc = "ok"
        BY <1>3, <2>1, <2>3 DEF OrderInv, CallOrder, ByRole, Awaited
      <3>2. call'[i].pc = "done" /\ call'[i].hpc = c.hpc
        BY <1>3, <1>9, SaveAfterReplyMoves DEF Moved
      <3>3. /\ db'["consumer"] # Absent /\ db'["provider"] = db["provider"]
            /\ seen'["provider"] = seen["provider"]
        BY <1>1, <1>3, <2>1, <3>1, SavedRow
      <3>4. \A n \in Call : RequestInv(n)'
        BY <1>2, <1>3, <1>4, <2>3, <3>1, <3>2, <3>3 DEF RequestInv
      <3>5. Requested'
        BY <1>4, <2>3 DEF Requested
      <3> QED
        BY <3>3, <3>4, <3>5 DEF RequestFirst
    <2> QED
      BY <2>2, <2>3
  <1>10. CASE HandleNewRequest(i)
    <2>1. /\ c.kind = "requestNew" /\ c.hpc = "sent"
          /\ Save("provider", "REQUESTED", Offer(i), None)
      BY <1>10 DEF HandleNewRequest
    <2>2. call'[i].pc = c.pc /\ call'[i].hpc = "ok"
      BY <1>3, <1>10, HandleNewRequestMoves DEF Moved
    <2>3. /\ db'["provider"] # Absent /\ db'["consumer"] = db["consumer"]
          /\ seen'["consumer"] = seen["consumer"]
      BY <1>3, <2>1, SavedRow DEF State
    <2>4. \A n \in Call : RequestInv(n)'
      BY <1>2, <1>3, <1>4, <2>1, <2>2, <2>3 DEF RequestInv
    <2>5. Requested'
      BY <1>4, <2>1 DEF Requested
    <2> QED
      BY <2>3, <2>4, <2>5 DEF RequestFirst
  <1>11. CASE Handle(i)
    <2>1. UNCHANGED <<db, seen>> /\ c.kind # "requestNew"
      BY <1>11 DEF Handle
    <2> QED
      BY <1>1, <1>2, <2>1, RequestQuiet DEF RequestInv
  <1>12. CASE SaveRemoteRefusal(i)
    <2>1. Serving(i) /\ Save(q, c.hcopy.state, c.hcopy.offer, None)
      BY <1>12 DEF SaveRemoteRefusal, Serving
    <2> QED
      BY <1>1, <1>2, <1>3, <2>1, HandlerRow, RequestSaved
  <1>13. CASE StoreRemoteAgreement(i)
    <2>1. UNCHANGED <<db, seen>> /\ Serving(i)
      BY <1>13 DEF StoreRemoteAgreement, Serving
    <2> QED
      BY <1>1, <1>2, <2>1, HandlerRow, RequestQuiet DEF RequestInv
  <1>14. CASE LinkFinalized(i)
    <2>1. Serving(i) /\ Save(q, c.hcopy.state, c.hcopy.offer, c.hcopy.agr)
      BY <1>14 DEF LinkFinalized, Serving
    <2> QED
      BY <1>1, <1>2, <1>3, <2>1, HandlerRow, RequestSaved
  <1>15. CASE SaveHandled(i)
    <2>1. Serving(i) /\ \E o, l : Save(q, Target(c.kind), o, l)
      BY <1>15 DEF SaveHandled, Serving
    <2> QED
      BY <1>1, <1>2, <1>3, <2>1, HandlerRow, RequestSaved
  <1> QED
    BY <1>5, <1>6, <1>7, <1>8, <1>9, <1>10, <1>11, <1>12, <1>13, <1>14, <1>15
       DEF Progress

\* So does every step.
LEMMA NextRequest ==
  ASSUME ClientsWait, OrderInv, RequestFirst, \A i \in Call : Awaited(i),
         [Next]_vars
  PROVE  RequestFirst'
  <1>1. TypeOK
    BY DEF OrderInv, TypeInv
  <1>2. ASSUME NEW i \in UserCall, RequestNew(i) PROVE RequestFirst'
    <2>1. /\ ~Requested /\ UNCHANGED <<db, seen>> /\ i \in Call
      BY <1>2 DEF RequestNew, Requested, Call
    <2>2. /\ \A j \in Call : j # i => call'[j] = call[j]
          /\ call'[i].kind = "requestNew" /\ call'[i].copy = Absent
          /\ call'[i].hpc = "sent" /\ call'[i].pc = "posted"
      BY <1>1, <1>2, RequestNewFacts
    <2>3. Requested'
      BY <2>1, <2>2 DEF Requested
    <2>4. \A p \in Party : db[p] = Absent
      BY <2>1 DEF RequestFirst
    <2>5. \A n \in Call : RequestInv(n)'
      BY <2>1, <2>2, <2>4 DEF RequestInv, Requested
    <2> QED
      BY <2>1, <2>3, <2>5 DEF RequestFirst
  <1>3. ASSUME NEW i \in Call, NEW p \in Party, NEW k \in KindsOf(p),
               Begins(i, p, k)
        PROVE  RequestFirst'
    <2>1. /\ Began(i, p, k) /\ UNCHANGED <<db, agreements, seen>> /\ db[p] \in Row
          /\ call[i].pc = "idle"
      BY <1>1, <1>3, BeginAwaited DEF Begins
    <2>2. call[i].kind = "none" /\ db[p] # Absent /\ k # "requestNew"
      BY <2>1, AbsentRow DEF OrderInv, CallOrder, ByRole, KindsOf
    <2>3. Requested
      BY <2>2 DEF RequestFirst
    <2>4. Requested'
      BY <2>1, <2>2, <2>3 DEF Requested, Began
    <2>5. ASSUME NEW n \in Call PROVE RequestInv(n)'
      BY <2>1, <2>2 DEF RequestFirst, RequestInv, Began
    <2> QED
      BY <2>1, <2>4, <2>5 DEF RequestFirst
  <1>4. ASSUME UNCHANGED <<db, call, seen>>, events' \subseteq events
        PROVE  RequestFirst'
    BY <1>4 DEF RequestFirst, Requested, RequestInv
  <1> QED
    BY <1>2, <1>3, <1>4, Steps, ProgressRequest DEF ListenerIgnores, vars

----------------------------------------------------------------------------
(* Once the consumer has an agreement, all keep to its offer.               *)

\* The consumer has agreement a, made by an agree call, and it is late.
LateWith(a) == a \in Call /\ call[a].kind = "agree" /\ consumerRow.agr = a /\ Late(a)

\* What the rows are then.
LateRows(a, o) ==
  /\ consumerRow.agr = a /\ consumerRow.offer = o
  /\ consumerRow.state \notin {"NONE", "OFFERED"}
  /\ providerRow.agr = a /\ providerRow.offer = o
  /\ providerRow.state \in LateState

\* A step of call i keeps what is known if it leaves the rows so, and keeps what
\* is known of call i.
LEMMA LateMove ==
  ASSUME NEW a, LateWith(a), NEW i \in Call,
         \A j \in Call : j # i => call'[j] = call[j],
         call'[a].copy = call[a].copy, call'[a].kind = call[a].kind,
         NEW o, o = call[a].copy.offer, LateRows(a, o)', LateCall(i, a)'
  PROVE  LateWith(a)'
  <1>1. ASSUME NEW j \in Call, j # i PROVE LateCall(j, a)'
    BY <1>1 DEF LateWith, Late, LateCall, Running, Runs, Serving
  <1>2. Late(a)'
    BY <1>1 DEF LateRows, Late
  <1> QED
    BY <1>2 DEF LateWith, LateRows

\* The rows are so, and stay so when they are not saved.
LEMMA LateQuiet ==
  ASSUME NEW a, LateWith(a), NEW o, o = call[a].copy.offer, UNCHANGED db
  PROVE  LateRows(a, o)'
  BY DEF LateWith, Late, LateRows

\* They stay so when a row is saved with the offer and no other agreement.
LEMMA LateSaved ==
  ASSUME TypeOK, NEW a, LateWith(a), NEW o, o = call[a].copy.offer,
         NEW p \in Party, NEW s \in State, NEW l \in {a, None},
         s # "OFFERED", p = "provider" => s \in LateState, Save(p, s, o, l)
  PROVE  LateRows(a, o)'
  <1>1. /\ db'[p].state = s /\ db'[p].offer = o
        /\ db'[p].agr = IF l = None THEN db[p].agr ELSE l
        /\ \A q \in Party : q # p => db'[q] = db[q]
    BY DEF Save, TypeOK
  <1> QED
    BY <1>1 DEF LateWith, Late, LateRows, State

\* What may still be under way.
LEMMA LateCaller ==
  ASSUME OrderInv, RequestFirst, NEW i \in Call, Awaited(i), NEW a, LateWith(a),
         Running(i), call[i].pc # "refusing"
  PROVE  LET c == call[i] IN
         /\ c.by = "consumer" => c.kind \in {"verify", "terminate"}
         /\ c.by = "provider" => \/ c.kind \in {"finalize", "terminate"}
                                 \/ i = a /\ c.kind = "agree" /\ c.pc = "posted"
         /\ c.kind = "verify" => c.by = "consumer"
         /\ c.kind = "finalize" => c.by = "provider"
  <1>1. LateCall(i, a) /\ call[i].kind # "requestNew"
    BY DEF LateWith, Late, LateCall
  <1>2. /\ call[i].by \in Party
        /\ Allowed(call[i].by, call[i].copy.state, Target(call[i].kind))
    BY <1>1, CallerRow
  <1>3. call[i].kind # "none"
    BY DEF OrderInv, TypeInv, Loaded, Running, Kind, KindsOf
  <1>4. LET k == call[i].kind  s == call[i].copy.state  p == call[i].by IN
        /\ k \in {"requestExisting", "offer", "accept", "agree", "verify",
                  "finalize", "terminate"}
        /\ k \in {"requestExisting", "accept"} => p = "consumer" /\ s = "OFFERED"
        /\ k = "verify" => p = "consumer" /\ s = "AGREED"
        /\ k = "offer" => p = "provider" /\ s = "REQUESTED"
        /\ k = "agree" => p = "provider" /\ s \in {"REQUESTED", "ACCEPTED"}
        /\ k = "finalize" => p = "provider" /\ s = "VERIFIED"
    BY <1>1, <1>2, <1>3, CallKindFacts
  <1> QED
    BY <1>1, <1>2, <1>4 DEF LateWith, LateCall, Runs, LateState

\* A step of a call keeps what is known when the consumer has an agreement.
LEMMA ProgressLate ==
  ASSUME OrderInv, RequestFirst, NEW a, a # None, LateWith(a),
         NEW i \in Call, Awaited(i), Progress(i)
  PROVE  LateWith(a)'
  <1> DEFINE c == call[i]  p == call[i].by  q == Peer(call[i].by)
  <1>0. PICK o : o = call[a].copy.offer
    OBVIOUS
  <1>1. /\ c.kind \in Kind /\ c.pc # "idle" /\ p \in Party /\ q \in Party
        /\ Target(c.kind) \in State /\ TypeOK
        /\ \A r \in Party : \A s \in seen[r] : s \in State
    BY ProgressRunning, TargetState DEF OrderInv, TypeInv, TypeOK
  <1>2. /\ \A j \in Call : j # i => call'[j] = call[j]
        /\ call'[i].kind = c.kind /\ call'[i].copy = c.copy /\ call'[i].by = p
        /\ call'[a].copy = call[a].copy /\ call'[a].kind = call[a].kind
    BY ProgressAwaited DEF LateWith
  <1>3. LateCall(i, a) /\ o = call[a].copy.offer
    BY <1>0 DEF LateWith, Late
  <1>4. ASSUME LateRows(a, o)', LateCall(i, a)' PROVE LateWith(a)'
    BY <1>2, <1>3, <1>4, LateMove
  <1>5. CASE SaveRefusal(i)
    <2>1. c.pc = "refusing" /\ Save(p, c.copy.state, c.copy.offer, None)
      BY <1>5 DEF SaveRefusal
    <2>2. call'[i].pc = "failed" /\ call'[i].hpc = "none"
      BY <1>1, <1>5, <2>1, SaveRefusalMoves DEF Moved, Awaited
    <2>3. c.copy.offer = o /\ c.kind # "requestNew"
      BY <1>3, <2>1 DEF LateCall, Running
    <2>4. c.copy.state \in State
      BY <1>1, <2>1, <2>3, CallerRow DEF Running
    <2>5. /\ c.copy.state # "OFFERED"
          /\ p = "provider" => c.copy.state \in LateState
      BY <1>1, <1>3, <2>1 DEF LateCall, Running, Runs, LateState
    <2>6. LateRows(a, o)'
      BY <1>1, <2>1, <2>3, <2>4, <2>5, <1>3, LateSaved
    <2>7. LateCall(i, a)'
      BY <2>2 DEF LateCall, Running, Runs, Serving
    <2> QED
      BY <1>4, <2>6, <2>7
  <1>6. CASE StoreAgreement(i)
    <2>1. c.pc = "storing" /\ UNCHANGED db
      BY <1>6 DEF StoreAgreement
    <2>2. /\ call'[i].pc \in {"recording", "saving"} /\ call'[i].hpc = c.hpc
          /\ call'[i].hcopy = c.hcopy
      BY <1>1, <1>6, StoreAgreementMoves DEF Moved
    <2>3. LateCall(i, a)'
      BY <1>2, <1>3, <2>1, <2>2 DEF LateCall, Running, Runs, Serving
    <2> QED
      BY <1>4, <2>1, <2>3, <1>3, LateQuiet
  <1>7. CASE RecordThenPost(i)
    <2>1. c.pc = "recording" /\ Save(p, Target(c.kind), Offer(i), Link(i))
      BY <1>7 DEF RecordThenPost
    <2>2. c.kind = "verify" /\ p = "consumer"
      <3>1. SavesFirst(c.kind)
        BY <2>1 DEF OrderInv, CallOrder, Recorded
      <3> QED
        BY <1>1, <2>1, <3>1, LateCaller DEF SavesFirst, Running
    <2>3. Offer(i) = o /\ Link(i) = None /\ Target(c.kind) = "VERIFIED"
      BY <1>3, <2>1, <2>2 DEF Offer, Link, Stores, Target, LateCall, Running
    <2>4. /\ call'[i].pc = "posted" /\ call'[i].hpc = "sent"
          /\ call'[i].hcopy = c.hcopy
      BY <1>1, <1>7, RecordThenPostMoves DEF Moved
    <2>5. LateRows(a, o)'
      BY <1>1, <2>1, <2>2, <2>3, <1>3, LateSaved
    <2>6. LateCall(i, a)'
      BY <1>2, <1>3, <2>1, <2>2, <2>4 DEF LateCall, Running, Runs, Serving
    <2> QED
      BY <1>4, <2>5, <2>6
  <1>8. CASE Reply(i)
    <2>1. /\ c.pc = "posted" /\ UNCHANGED db
          /\ c.hpc \in {"ok", "failed"}
      BY <1>8 DEF Reply
    <2>2. PICK pc : /\ pc = IF c.hpc = "failed" THEN "failed"
                            ELSE IF SavesFirst(c.kind) THEN "done"
                            ELSE IF Stores(c.kind) THEN "storing" ELSE "saving"
                    /\ Moved(i, pc, c.hpc)
      BY <1>1, <1>8, ReplyMoves, Zenon
    <2>3. i = a => pc \in {"failed", "done"}
      BY <2>1, <2>2 DEF LateWith, SavesFirst
    <2>4. LateCall(i, a)'
      BY <1>2, <1>3, <2>1, <2>2, <2>3
         DEF LateCall, Running, Runs, Serving, Moved
    <2> QED
      BY <1>4, <2>1, <2>4, <1>3, LateQuiet
  <1>9. CASE SaveAfterReply(i)
    <2>1. c.pc = "saving" /\ Save(p, Target(c.kind), Offer(i), Link(i))
      BY <1>9 DEF SaveAfterReply
    <2>2. /\ p = "consumer" => c.kind = "terminate"
          /\ p = "provider" => c.kind \in {"finalize", "terminate"}
          /\ p = "provider" => c.copy.agr = a
          /\ c.copy.offer = o
      BY <1>1, <1>3, <2>1, LateCaller
         DEF Running, Awaited, SavesFirst, LateCall, Runs
    <2>3. Target(c.kind) \in {"FINALIZED", "TERMINATED"}
      BY <1>1, <2>2 DEF Target
    <2>4. Offer(i) = o /\ Link(i) \in {a, None}
      BY <1>1, <2>2 DEF Offer, Link, Agreement, Stores
    <2>5. call'[i].pc = "done" /\ call'[i].hpc = "ok"
      BY <1>1, <1>9, <2>1, SaveAfterReplyMoves DEF Moved, Awaited
    <2>6. LateRows(a, o)'
      BY <1>1, <2>1, <2>3, <2>4, <1>3, LateSaved DEF LateState
    <2>7. LateCall(i, a)'
      BY <2>5 DEF LateCall, Running, Runs, Serving
    <2> QED
      BY <1>4, <2>6, <2>7
  <1>10. CASE HandleNewRequest(i)
    <2>1. /\ c.kind = "requestNew" /\ c.hpc = "sent"
      BY <1>10 DEF HandleNewRequest
    <2>2. providerRow = Absent
      BY <2>1 DEF RequestFirst, RequestInv
    <2> QED
      BY <2>2 DEF LateWith, Late, Absent
  <1>11. CASE Handle(i)
    <2>1. c.hpc = "sent" /\ c.kind # "requestNew" /\ UNCHANGED db
      BY <1>11 DEF Handle
    <2>2. PICK next \in {"failed", "refusing", "storing", "handling"} :
            HandleOutcome(i, next)
      BY <1>1, <1>11, HandleMoves
    <2>3. LateCall(i, a)'
      BY <1>1, <1>2, <1>3, <2>1, <2>2
         DEF HandleOutcome, Moved, LateCall, Running, Runs, Serving, LateWith,
             Late, Awaited
    <2> QED
      BY <1>4, <2>1, <2>3, <1>3, LateQuiet
  <1>12. CASE SaveRemoteRefusal(i)
    <2>1. /\ c.hpc = "refusing" /\ Serving(i)
          /\ Save(q, c.hcopy.state, c.hcopy.offer, None)
      BY <1>12 DEF SaveRemoteRefusal, Serving
    <2>2. call'[i].pc = c.pc /\ call'[i].hpc = "failed"
      BY <1>1, <1>12, SaveRemoteRefusalMoves DEF Moved
    <2>3. /\ c.hcopy.offer = o /\ c.hcopy.state # "OFFERED"
          /\ q = "provider" => c.hcopy.state \in LateState
      BY <1>1, <1>3, <2>1
         DEF LateCall, Running, Runs, Serving, LateState, Awaited
    <2>4. c.hcopy.state \in State
      BY <1>1, <2>1, HandlerRow
    <2>5. LateRows(a, o)'
      BY <1>1, <2>1, <2>3, <2>4, <1>3, LateSaved
    <2>6. LateCall(i, a)'
      BY <1>2, <1>3, <2>1, <2>2 DEF LateCall, Running, Runs, Serving
    <2> QED
      BY <1>4, <2>5, <2>6
  <1>13. CASE StoreRemoteAgreement(i)
    <2>1. c.hpc = "storing" /\ UNCHANGED db
      BY <1>13 DEF StoreRemoteAgreement
    <2>2. /\ call'[i].pc = c.pc /\ call'[i].hpc \in {"handling", "linking"}
          /\ call'[i].hcopy = c.hcopy
      BY <1>1, <1>13, StoreRemoteAgreementMoves DEF Moved
    <2>3. LateCall(i, a)'
      BY <1>2, <1>3, <2>1, <2>2 DEF LateCall, Running, Runs, Serving
    <2> QED
      BY <1>4, <2>1, <2>3, <1>3, LateQuiet
  <1>14. CASE LinkFinalized(i)
    <2>1. /\ c.hpc = "linking" /\ Serving(i)
          /\ Save(q, c.hcopy.state, c.hcopy.offer, c.hcopy.agr)
      BY <1>14 DEF LinkFinalized, Serving
    <2>2. /\ call'[i].pc = c.pc /\ call'[i].hpc = "handling"
          /\ call'[i].hcopy = c.hcopy
      BY <1>1, <1>14, LinkFinalizedMoves DEF Moved
    <2>3. c.kind = "finalize" /\ p = "provider" /\ Running(i)
      BY <1>1, <2>1, LateCaller DEF Awaited, Serving, Running
    <2>4. /\ c.hcopy.offer = o /\ c.hcopy.state # "OFFERED"
          /\ c.hcopy.agr \in {a, None}
      BY <1>3, <2>1, <2>3 DEF LateCall, Runs
    <2>5. c.hcopy.state \in State
      BY <1>1, <2>1, HandlerRow
    <2>6. LateRows(a, o)'
      BY <1>1, <2>1, <2>3, <2>4, <2>5, <1>3, LateSaved
    <2>7. LateCall(i, a)'
      BY <1>2, <1>3, <2>1, <2>2 DEF LateCall, Running, Runs, Serving
    <2> QED
      BY <1>4, <2>6, <2>7
  <1>15. CASE SaveHandled(i)
    <2>1. /\ c.hpc = "handling" /\ Serving(i)
          /\ Save(q, Target(c.kind),
                  IF c.kind \in {"requestExisting", "offer"} THEN Offer(i)
                                                             ELSE c.hcopy.offer,
                  IF c.kind = "agree" THEN Agreement(i) ELSE None)
      BY <1>15 DEF SaveHandled, Serving
    <2>2. call'[i].pc = c.pc /\ call'[i].hpc = "ok" /\ c.pc = "posted"
      BY <1>1, <1>15, <2>1, SaveHandledMoves DEF Moved, Awaited
    <2>3. /\ p = "consumer" => c.kind \in {"verify", "terminate"}
          /\ p = "provider" => \/ c.kind \in {"finalize", "terminate"}
                               \/ i = a /\ c.kind = "agree"
          /\ c.hcopy.offer = o
      BY <1>1, <1>3, <2>1, <2>2, LateCaller DEF Running, LateCall
    <2>4. /\ Target(c.kind) # "OFFERED"
          /\ q = "provider" => Target(c.kind) \in LateState
      BY <1>1, <2>3 DEF Target, LateState
    <2>5. \E l \in {a, None} : Save(q, Target(c.kind), o, l)
      BY <1>1, <2>1, <2>3 DEF Agreement
    <2>6. LateRows(a, o)'
      BY <1>1, <2>4, <2>5, <1>3, LateSaved
    <2>7. LateCall(i, a)'
      BY <1>2, <1>3, <2>1, <2>2 DEF LateCall, Running, Runs, Serving
    <2> QED
      BY <1>4, <2>6, <2>7
  <1> QED
    BY <1>5, <1>6, <1>7, <1>8, <1>9, <1>10, <1>11, <1>12, <1>13, <1>14, <1>15
       DEF Progress

\* Every step does.
LEMMA NextLate ==
  ASSUME ClientsWait, OrderInv, RequestFirst, \A i \in Call : Awaited(i),
         NEW a, a # None, LateWith(a), [Next]_vars
  PROVE  LateWith(a)'
  <1>1. TypeOK
    BY DEF OrderInv, TypeInv
  <1>2. consumerRow # Absent
    BY DEF LateWith, Absent
  <1>3. \A i \in UserCall : ~RequestNew(i)
    BY <1>2 DEF RequestNew, RequestFirst, Requested
  <1>4. ASSUME NEW i \in Call, NEW p \in Party, NEW k \in KindsOf(p),
               Begins(i, p, k)
        PROVE  LateWith(a)'
    <2>1. /\ Began(i, p, k) /\ UNCHANGED <<db, agreements, seen>>
          /\ call[i].pc = "idle"
      BY <1>1, <1>4, BeginAwaited DEF Begins
    <2>2. i # a
      BY <2>1 DEF OrderInv, CallOrder, ByRole, LateWith
    <2>3. LateCall(i, a)'
      BY <2>1, <2>2
         DEF Began, LateWith, Late, LateCall, Running, Runs, Serving, KindsOf
    <2>4. PICK o : o = call[a].copy.offer
      OBVIOUS
    <2>5. LateRows(a, o)'
      BY <2>1, <2>4, LateQuiet
    <2> QED
      BY <2>1, <2>2, <2>3, <2>4, <2>5, LateMove DEF Began, LateWith
  <1>5. ASSUME UNCHANGED <<db, call>> PROVE LateWith(a)'
    BY <1>5 DEF LateWith, Late, LateCall, Running, Runs, Serving
  <1> QED
    BY <1>3, <1>4, <1>5, Steps, ProgressLate DEF ListenerIgnores, vars

----------------------------------------------------------------------------
(* Prospects.                                                               *)

\* The members of Prospects.
LEMMA ProspectsOf ==
  ASSUME NEW p
  PROVE  /\ At(db[p]) \in Prospects(p)
         /\ \A i \in Call : Runs(p, i) => Mine(i) \in Prospects(p)
         /\ \A i \in Call : Answering(p, i) => Theirs(i) \in Prospects(p)
         /\ \A x \in Prospects(p) :
              \/ x = At(db[p])
              \/ \E i \in Call : Runs(p, i) /\ x = Mine(i)
              \/ \E i \in Call : Answering(p, i) /\ x = Theirs(i)
  BY DEF Prospects

\* When only call i moves, there are no new prospects but the row's, and its own.
LEMMA ProspectsMove ==
  ASSUME NEW p, NEW i \in Call, \A j \in Call : j # i => call'[j] = call[j]
  PROVE  \A x \in Prospects(p)' :
           \/ x \in Prospects(p)
           \/ x = At(db[p])'
           \/ Runs(p, i)' /\ x = Mine(i)'
           \/ Answering(p, i)' /\ x = Theirs(i)'
  <1>1. ASSUME NEW j \in Call, j # i
        PROVE  /\ Runs(p, j)' <=> Runs(p, j)
               /\ Answering(p, j)' <=> Answering(p, j)
               /\ Mine(j)' = Mine(j) /\ Theirs(j)' = Theirs(j)
    BY <1>1 DEF Runs, Running, Answering, Mine, Theirs, Offer, At
  <1>2. \A x \in Prospects(p)' :
          \/ x = At(db[p])'
          \/ \E j \in Call : Runs(p, j)' /\ x = Mine(j)'
          \/ \E j \in Call : Answering(p, j)' /\ x = Theirs(j)'
    BY DEF Prospects
  <1>3. ASSUME NEW j \in Call, j # i
        PROVE  /\ Runs(p, j)' => Mine(j)' \in Prospects(p)
               /\ Answering(p, j)' => Theirs(j)' \in Prospects(p)
    BY <1>1, <1>3, ProspectsOf
  <1> QED
    BY <1>2, <1>3

\* The prospects of p after the step are those it had, or the end of one of them.
Covered(p) ==
  \A y \in Prospects(p)' : \E z \in Prospects(p) :
    y.offer = z.offer /\ y.state \in {z.state, "TERMINATED"}

\* They fit as they did.
LEMMA CoveredFit ==
  ASSUME AllFit, \A p \in Party : Covered(p)
  PROVE  AllFit' /\ (Shut => Shut')
  <1>1. Shut => Shut'
    BY DEF Shut, Covered
  <1>2. ASSUME NEW x \in Prospects("consumer")', NEW y \in Prospects("provider")'
        PROVE  Fit(x, y)
    <2>1. PICK x0 \in Prospects("consumer") :
            x.offer = x0.offer /\ x.state \in {x0.state, "TERMINATED"}
      BY DEF Covered
    <2>2. PICK y0 \in Prospects("provider") :
            y.offer = y0.offer /\ y.state \in {y0.state, "TERMINATED"}
      BY DEF Covered
    <2>3. Fit(x0, y0)
      BY DEF AllFit
    <2> QED
      BY <2>1, <2>2, <2>3 DEF Fit, Open
  <1> QED
    BY <1>1, <1>2 DEF AllFit

\* A consumer's call, until the consumer has an agreement.
LEMMA EarlyConsumer ==
  ASSUME OrderInv, RequestFirst, Early, NEW u \in Call, Awaited(u),
         Runs("consumer", u)
  PROVE  LET c == call[u] IN
         /\ c.kind \in {"requestNew", "requestExisting", "accept", "terminate",
                        "verify"}
         /\ c.kind # "requestNew" /\ c.pc # "refusing" =>
              \/ c.kind \in {"requestExisting", "accept"}
                 /\ c.copy.state = "OFFERED"
              \/ c.kind = "terminate" /\ c.copy.state \in {"REQUESTED", "OFFERED"}
         /\ c.pc \in {"refusing", "posted", "saving"}
         /\ c.kind # "requestNew" => db["consumer"] # Absent
  <1> DEFINE c == call[u]
  <1>1. /\ c.by = "consumer" /\ c.pc # "idle" /\ Running(u)
        /\ c.pc \in Pc /\ c.kind \in Kind /\ ByRole(u) /\ Recorded(u)
    BY DEF Runs, Running, OrderInv, TypeInv, TypeOK, CallType, Loaded,
         CallOrder, Kind
  <1>2. c.kind \in {"requestNew", "requestExisting", "accept", "terminate", "verify"}
    BY <1>1 DEF ByRole, KindsOf, Kind
  <1>3. /\ c.copy.state \in EarlyState("consumer")
        /\ c.kind = "verify" => c.pc = "refusing"
    BY <1>1 DEF Early, NothingLater, EarlyCall
  <1>4. ASSUME c.kind # "requestNew", c.pc # "refusing"
        PROVE  \/ c.kind \in {"requestExisting", "accept"}
                  /\ c.copy.state = "OFFERED"
               \/ c.kind = "terminate" /\ c.copy.state \in {"REQUESTED", "OFFERED"}
    <2>1. Allowed("consumer", c.copy.state, Target(c.kind))
      BY <1>1, <1>4, CallerRow
    <2> QED
      BY <1>2, <1>3, <1>4, <2>1
         DEF Allowed, consumerTransitions, Target, EarlyState
  <1>5. c.pc \in {"refusing", "posted", "saving"}
    BY <1>1, <1>2, <1>3 DEF Running, Pc, Awaited, Recorded, SavesFirst
  <1>6. c.kind # "requestNew" => db["consumer"] # Absent
    BY <1>1, CallerRow
  <1> QED
    BY <1>2, <1>4, <1>5, <1>6

\* A provider's call, until then.
LEMMA EarlyProvider ==
  ASSUME OrderInv, RequestFirst, Early, NEW v \in Call, Awaited(v),
         Runs("provider", v)
  PROVE  LET c == call[v] IN
         /\ c.kind \in {"offer", "agree", "terminate", "finalize"}
         /\ c.pc # "refusing" =>
              \/ c.kind = "offer" /\ c.copy.state = "REQUESTED"
              \/ c.kind = "agree" /\ c.copy.state \in Open
              \/ /\ c.kind = "terminate"
                 /\ c.copy.state \in {"REQUESTED", "OFFERED", "ACCEPTED"}
         /\ c.pc \in {"refusing", "storing", "recording", "posted", "saving"}
         /\ c.pc \in {"storing", "recording"} => c.kind = "agree"
         /\ c.pc = "saving" => c.kind \in {"offer", "terminate"}
         /\ db["provider"] # Absent
  <1> DEFINE c == call[v]
  <1>1. /\ c.by = "provider" /\ c.pc # "idle" /\ Running(v)
        /\ c.pc \in Pc /\ c.kind \in Kind /\ ByRole(v) /\ Recorded(v)
    BY DEF Runs, Running, OrderInv, TypeInv, TypeOK, CallType, Loaded,
         CallOrder, Kind
  <1>2. c.kind \in {"offer", "agree", "terminate", "finalize"}
    BY <1>1 DEF ByRole, KindsOf, Kind
  <1>3. /\ c.copy.state \in EarlyState("provider")
        /\ c.kind = "finalize" => c.pc = "refusing"
    BY <1>1 DEF Early, NothingLater, EarlyCall
  <1>4. ASSUME c.pc # "refusing"
        PROVE  \/ c.kind = "offer" /\ c.copy.state = "REQUESTED"
               \/ c.kind = "agree" /\ c.copy.state \in Open
               \/ /\ c.kind = "terminate"
                  /\ c.copy.state \in {"REQUESTED", "OFFERED", "ACCEPTED"}
    <2>1. Allowed("provider", c.copy.state, Target(c.kind))
      BY <1>1, <1>2, <1>4, CallerRow
    <2> QED
      BY <1>2, <1>3, <1>4, <2>1
         DEF Allowed, providerTransitions, Target, EarlyState, Open
  <1>5. /\ c.pc \in {"refusing", "storing", "recording", "posted", "saving"}
        /\ c.pc \in {"storing", "recording"} => c.kind = "agree"
        /\ c.pc = "saving" => c.kind \in {"offer", "terminate"}
    BY <1>1, <1>2, <1>3 DEF Running, Pc, Awaited, Recorded, SavesFirst
  <1>6. db["provider"] # Absent
    BY <1>1, <1>2, CallerRow
  <1> QED
    BY <1>2, <1>4, <1>5, <1>6

\* A handler at work, until the consumer has an agreement.
LEMMA EarlyHandler ==
  ASSUME OrderInv, RequestFirst, Early, NEW i \in Call, Awaited(i), Serving(i)
  PROVE  LET c == call[i] IN
         /\ c.pc = "posted" /\ Running(i) /\ c.by \in Party
         /\ c.kind # "requestNew"
         /\ db["consumer"] # Absent /\ db["provider"] # Absent
         /\ c.hcopy.state \in State /\ c.hcopy.state \in EarlyState(Peer(c.by))
         /\ c.hpc # "linking"
         /\ c.hpc = "storing" => c.kind = "agree" /\ c.by = "provider"
         /\ c.hpc \in {"storing", "handling"} =>
              Allowed(c.by, c.hcopy.state, Target(c.kind))
         /\ c.by = "consumer" /\ c.hpc = "handling" =>
              \/ c.kind \in {"requestExisting", "accept"}
                 /\ c.hcopy.state = "OFFERED"
              \/ c.kind = "terminate"
         /\ c.by = "provider" /\ c.hpc = "handling" =>
              \/ c.kind = "offer" /\ c.hcopy.state = "REQUESTED"
              \/ c.kind = "agree" /\ c.hcopy.state \in Open
              \/ c.kind = "terminate"
                 /\ c.hcopy.state \in {"REQUESTED", "OFFERED", "ACCEPTED"}
  <1> DEFINE c == call[i]
  <1>1. /\ c.pc = "posted" /\ Running(i) /\ c.by \in Party
        /\ c.kind # "requestNew"
        /\ db[Peer(c.by)] # Absent /\ db[c.by] # Absent
        /\ c.hcopy.state \in seen[Peer(c.by)]
    BY HandlerRow, CallerRow DEF Awaited, Running
  <1>2. /\ c.hcopy.state \in State
        /\ RemoteCopySeen(i)
    BY <1>1 DEF OrderInv, TypeInv, TypeOK, CallOrder
  <1>3. c.hcopy.state \in EarlyState(Peer(c.by))
    BY <1>1 DEF Early, NothingLater, EarlyCall
  <1>4. /\ c.by = "consumer" => c.kind \in {"requestExisting", "accept", "terminate"}
        /\ c.by = "provider" => c.kind \in {"offer", "agree", "terminate"}
    BY <1>1, EarlyConsumer, EarlyProvider DEF Runs, Open
  <1>5. c.hpc # "linking" /\ (c.hpc = "storing" => c.kind = "agree" /\ c.by = "provider")
    BY <1>1, <1>4 DEF Awaited
  <1>6. c.hpc \in {"storing", "handling"} =>
          Allowed(c.by, c.hcopy.state, Target(c.kind))
    BY <1>2 DEF RemoteCopySeen
  <1>7. c.by = "consumer" /\ c.hpc = "handling" =>
              \/ c.kind \in {"requestExisting", "accept"}
                 /\ c.hcopy.state = "OFFERED"
              \/ c.kind = "terminate"
    BY <1>4, <1>6 DEF Allowed, consumerTransitions, Target
  <1>8. c.by = "provider" /\ c.hpc = "handling" =>
              \/ c.kind = "offer" /\ c.hcopy.state = "REQUESTED"
              \/ c.kind = "agree" /\ c.hcopy.state \in Open
              \/ c.kind = "terminate"
                 /\ c.hcopy.state \in {"REQUESTED", "OFFERED", "ACCEPTED"}
    BY <1>3, <1>4, <1>6
       DEF Allowed, providerTransitions, Target, Open, EarlyState
  <1> QED
    BY <1>1, <1>2, <1>3, <1>5, <1>6, <1>7, <1>8

\* A step of the consumer's only call keeps Early if it keeps its parts.
LEMMA ConsumerMove ==
  ASSUME Early, NEW u \in Call, \A j \in Call : j # u => call'[j] = call[j],
         call'[u].by = "consumer", ~Runs("provider", u),
         \A j \in Call : Runs("consumer", j) => j = u,
         events' \subseteq events \cup {u},
         \A p \in Party : db'[p].state \in EarlyState(p),
         EarlyCall(u)', AllFit', Bound',
         Runs("consumer", u)' => ConsumerCall(u)',
         \A v \in Call : Runs("provider", v) => ProviderCall(v)'
  PROVE  Early'
  <1>1. ASSUME NEW j \in Call
        PROVE  /\ Runs("provider", j)' <=> Runs("provider", j)
               /\ Runs("consumer", j)' => j = u
    BY DEF Runs, Running
  <1>2. OneEach'
    BY <1>1 DEF Early, OneEach
  <1>3. ASSUME NEW j \in Call PROVE EarlyCall(j)'
    BY <1>1 DEF Early, NothingLater, EarlyCall, Running
  <1>4. NothingLater'
    BY <1>3 DEF NothingLater
  <1> QED
    BY <1>1, <1>2, <1>4 DEF Early

\* The same for the provider's.
LEMMA ProviderMove ==
  ASSUME Early, NEW v \in Call, \A j \in Call : j # v => call'[j] = call[j],
         call'[v].by = "provider", ~Runs("consumer", v),
         \A j \in Call : Runs("provider", j) => j = v,
         events' = {},
         \A p \in Party : db'[p].state \in EarlyState(p),
         EarlyCall(v)', AllFit', Bound',
         Runs("provider", v)' => ProviderCall(v)',
         \A u \in Call : Runs("consumer", u) => ConsumerCall(u)'
  PROVE  Early'
  <1>1. ASSUME NEW j \in Call
        PROVE  /\ Runs("consumer", j)' <=> Runs("consumer", j)
               /\ Runs("provider", j)' => j = v
    BY DEF Runs, Running
  <1>2. OneEach'
    BY <1>1 DEF Early, OneEach
  <1>3. ASSUME NEW j \in Call PROVE EarlyCall(j)'
    BY <1>1 DEF Early, NothingLater, EarlyCall, Running
  <1>4. NothingLater'
    BY <1>3 DEF NothingLater
  <1> QED
    BY <1>1, <1>2, <1>4 DEF Early

\* There are no events while a call of the provider's is under way.
LEMMA NoEvents ==
  ASSUME TypeOK, Early, NEW v \in Call, Runs("provider", v)
  PROVE  events = {}
  BY DEF Early, NothingLater, EarlyCall, TypeOK

\* What the consumer's call knows of the rows, and the provider's, when neither
\* their rows nor the other's copies change.
LEMMA ConsumerCallKept ==
  ASSUME NEW u \in Call, ConsumerCall(u), call'[u] = call[u], UNCHANGED db,
         NEW v \in Call, \A j \in Call : j # v => call'[j] = call[j],
         call'[v].copy = call[v].copy,
         Runs("provider", v)' => Runs("provider", v)
  PROVE  ConsumerCall(u)'
  <1>1. ASSUME NEW j \in Call
        PROVE  (Runs("provider", j)' => Runs("provider", j))
               /\ call'[j].copy = call[j].copy
    BY DEF Runs, Running
  <1>2. LoadedOpen(u)' /\ RefusedOpen(u)'
    BY DEF ConsumerCall, LoadedOpen, RefusedOpen, At
  <1>3. Answer(u)'
    BY <1>1 DEF ConsumerCall, Answer
  <1>4. SameOffer(u)'
    BY <1>1 DEF ConsumerCall, SameOffer, Serving
  <1> QED
    BY <1>2, <1>3, <1>4 DEF ConsumerCall

\* The part of ProviderCall that is about the provider's row alone.
LEMMA ProviderCallOwn ==
  ASSUME NEW v \in Call, ProviderCall(v), call'[v] = call[v],
         db'["provider"] = db["provider"]
  PROVE  LoadedOffer(v)' /\ RefusedOpen(v)' /\ SameOfferLoaded(v)'
  BY DEF ProviderCall, LoadedOffer, RefusedOpen, SameOfferLoaded, At

\* The rest, when there are no new prospects, the provider's row is as it was,
\* and the consumer's call saves or goes on with what it had.
LEMMA ProviderCallRest ==
  ASSUME NEW v \in Call, ProviderCall(v), call'[v] = call[v],
         db'["provider"] = db["provider"],
         NEW u \in Call, \A j \in Call : j # u => call'[j] = call[j],
         call'[u].copy = call[u].copy, call'[u].kind = call[u].kind,
         Runs("consumer", u)' => Runs("consumer", u),
         \A p \in Party : Covered(p),
         call[v].pc \in {"storing", "recording"} /\ Answering("provider", u)' =>
           \/ Answering("provider", u) /\ Theirs(u)' = Theirs(u)
           \/ /\ Theirs(u)'.state # "OFFERED"
              /\ Theirs(u)'.state \in Open => Shut,
         \/ db'["consumer"] = db["consumer"]
         \/ /\ Runs("consumer", u)
            /\ \/ call[u].kind = "requestNew" \/ call[u].copy.state = "OFFERED"
               \/ /\ db'["consumer"].state \in {call[u].copy.state, "TERMINATED"}
                  /\ db'["consumer"].offer = call[u].copy.offer
  PROVE  Offered(v)' /\ Agreeing(v)' /\ Binding(v)'
  <1>1. ASSUME NEW j \in Call
        PROVE  /\ Runs("consumer", j)' => Runs("consumer", j)
               /\ call'[j].copy = call[j].copy /\ call'[j].kind = call[j].kind
    BY DEF Runs, Running
  <1>2. ASSUME NEW j \in Call, j # u
        PROVE  (Answering("provider", j)' <=> Answering("provider", j))
               /\ Theirs(j)' = Theirs(j)
    BY <1>2 DEF Answering, Theirs, At
  <1>3. Offered(v)'
    BY <1>1 DEF ProviderCall, Offered
  <1>4. \A y \in Prospects("provider")' : \E z \in Prospects("provider") :
          y.offer = z.offer /\ y.state \in {z.state, "TERMINATED"}
    BY DEF Covered
  <1>5. Agreeing(v)'
    BY <1>1, <1>4 DEF ProviderCall, Agreeing, Open
  <1>6. Shut => Shut'
    BY DEF Shut, Covered
  <1>7. Binding(v)'
    <2>1. SUFFICES ASSUME call[v].kind = "agree", call[v].pc \in {"storing", "recording"}
                   PROVE  /\ \A y \in Prospects("provider")' : y.offer = call[v].copy.offer
                          /\ db["provider"].state # "OFFERED"
                          /\ \A j \in Call : Answering("provider", j)' =>
                               /\ Theirs(j)'.state # "OFFERED"
                               /\ Theirs(j)'.state \in Open => Shut'
      BY DEF Binding
    <2>2. /\ \A y \in Prospects("provider") : y.offer = call[v].copy.offer
          /\ db["provider"].state # "OFFERED"
          /\ \A j \in Call : Answering("provider", j) =>
               /\ Theirs(j).state # "OFFERED"
               /\ Theirs(j).state \in Open => Shut
      BY <2>1 DEF ProviderCall, Binding
    <2> QED
      BY <1>2, <1>4, <1>6, <2>1, <2>2
  <1> QED
    BY <1>3, <1>5, <1>7

\* What binds the provider to an offer goes on as long as its link does.
LEMMA BoundKept ==
  ASSUME Bound, \A p \in Party : Covered(p),
         providerRow'.agr = providerRow.agr,
         providerRow.agr # None =>
           call'[providerRow.agr].copy = call[providerRow.agr].copy
  PROVE  Bound'
  <1>1. Shut => Shut'
    BY DEF Shut, Covered
  <1>2. SUFFICES ASSUME providerRow'.agr # None, NEW y \in Prospects("provider")'
                 PROVE  /\ y.offer = call'[providerRow'.agr].copy.offer
                        /\ y.state # "OFFERED" /\ (y.state \in Open => Shut')
    BY DEF Bound
  <1>3. PICK z \in Prospects("provider") :
          y.offer = z.offer /\ y.state \in {z.state, "TERMINATED"}
    BY DEF Covered
  <1>4. /\ z.offer = call[providerRow.agr].copy.offer
        /\ z.state # "OFFERED" /\ (z.state \in Open => Shut)
    BY <1>2 DEF Bound
  <1> QED
    BY <1>1, <1>2, <1>3, <1>4 DEF Open

\* The agreement a row links is that of an agree call.
LEMMA LinkedCall ==
  ASSUME AgreementInv, NEW p \in Party, db[p].agr # None
  PROVE  db[p].agr \in Call /\ call[db[p].agr].kind = "agree"
  BY DEF AgreementInv, Holds, Issued

----------------------------------------------------------------------------
(* Until the consumer has an agreement: the steps of its own calls.         *)

\* The consumer's call saves its copy or its result, and ends.
LEMMA ConsumerSaves ==
  ASSUME OrderInv, AgreementInv, RequestFirst, Early,
         \A j \in Call : Awaited(j),
         NEW u \in Call, Runs("consumer", u), ~Serving(u), call[u].hpc # "sent",
         \A j \in Call : j # u => call'[j] = call[j],
         call'[u].copy = call[u].copy, call'[u].kind = call[u].kind,
         call'[u].by = call[u].by, call'[u].hpc = call[u].hpc, ~Running(u)',
         NEW s \in State, NEW o, Save("consumer", s, o, None), UNCHANGED events,
         Mine(u) = [state |-> s, offer |-> o],
         s \in EarlyState("consumer"),
         \/ call[u].kind = "requestNew" \/ call[u].copy.state = "OFFERED"
         \/ s \in {call[u].copy.state, "TERMINATED"} /\ o = call[u].copy.offer
  PROVE  Early' /\ consumerRow'.agr = consumerRow.agr
  <1>1. TypeOK /\ call[u].by = "consumer"
    BY DEF OrderInv, TypeInv, Runs
  <1>2. /\ db'["consumer"].state = s /\ db'["consumer"].offer = o
        /\ db'["consumer"].agr = db["consumer"].agr
        /\ At(db'["consumer"]) = [state |-> s, offer |-> o]
        /\ db'["provider"] = db["provider"]
    BY <1>1, SavedRow
  <1>3. /\ \A p : ~Runs(p, u)' /\ ~Answering(p, u)'
        /\ ~Runs("provider", u)
    BY <1>1 DEF Runs, Answering, Serving
  <1>4. ASSUME NEW p \in Party PROVE Covered(p)
    <2>1. At(db[p])' \in Prospects(p)
      BY <1>1, <1>2, ProspectsOf DEF At
    <2> QED
      BY <1>3, <2>1, ProspectsMove DEF Covered
  <1>5. AllFit'
    BY <1>4, CoveredFit DEF Early
  <1>6. Bound'
    BY <1>2, <1>4, BoundKept, LinkedCall DEF Early
  <1>7. ASSUME NEW v \in Call, Runs("provider", v) PROVE ProviderCall(v)'
    <2>1. ProviderCall(v) /\ v # u
      BY <1>3, <1>7 DEF Early
    <2> QED
      BY <1>2, <1>3, <1>4, <2>1, ProviderCallOwn, ProviderCallRest
         DEF ProviderCall
  <1>8. EarlyCall(u)'
    <2>1. \A j \in Call : Runs("provider", j)' => Runs("provider", j)
      BY <1>3 DEF Runs, Running
    <2> QED
      BY <2>1 DEF Early, NothingLater, EarlyCall
  <1>9. \A p \in Party : db'[p].state \in EarlyState(p)
    BY <1>2 DEF Early, NothingLater
  <1>10. \A j \in Call : Runs("consumer", j) => j = u
    BY DEF Early, OneEach
  <1>11. Early'
    BY <1>1, <1>3, <1>5, <1>6, <1>7, <1>8, <1>9, <1>10, ConsumerMove
  <1> QED
    BY <1>2, <1>11

\* The consumer's call reads its response.
LEMMA ConsumerReply ==
  ASSUME OrderInv, AgreementInv, RequestFirst, Early,
         \A j \in Call : Awaited(j),
         NEW u \in Call, Runs("consumer", u), Reply(u)
  PROVE  Early'
  <1> DEFINE c == call[u]
  <1>1. /\ TypeOK /\ c.by = "consumer" /\ c.pc = "posted"
        /\ c.hpc \in {"ok", "failed"} /\ UNCHANGED <<db, events>>
    BY DEF OrderInv, TypeInv, Runs, Reply
  <1>2. PICK pc : /\ pc = IF c.hpc = "failed" THEN "failed"
                          ELSE IF SavesFirst(c.kind) THEN "done"
                          ELSE IF Stores(c.kind) THEN "storing" ELSE "saving"
                  /\ Moved(u, pc, c.hpc) /\ call'[u].hcopy = c.hcopy
    BY <1>1, ReplyMoves, Zenon
  <1>3. pc # "refusing" /\ (pc \in {"storing", "saving"} => c.hpc = "ok")
    BY <1>1, <1>2
  <1>4. /\ \A j \in Call : j # u => call'[j] = call[j]
        /\ call'[u].kind = c.kind /\ call'[u].by = c.by /\ call'[u].copy = c.copy
        /\ call'[u].pc = pc /\ call'[u].hpc = c.hpc /\ call'[u].hcopy = c.hcopy
    BY <1>2 DEF Moved
  <1>5. /\ Mine(u)' = Mine(u)
        /\ \A p : ~Answering(p, u)' /\ ~Runs("provider", u)
        /\ ~Runs("provider", u)'
        /\ Running(u)
    BY <1>1, <1>3, <1>4 DEF Mine, Offer, Answering, Runs, At, Running
  <1>6. ASSUME NEW p \in Party PROVE Covered(p)
    <2>1. At(db[p])' \in Prospects(p)
      BY <1>1, ProspectsOf DEF At
    <2>2. Runs(p, u)' => Mine(u)' \in Prospects(p)
      BY <1>4, <1>5, ProspectsOf DEF Runs
    <2> QED
      BY <1>4, <1>5, <2>1, <2>2, ProspectsMove DEF Covered
  <1>7. AllFit'
    BY <1>6, CoveredFit DEF Early
  <1>8. Bound'
    BY <1>1, <1>4, <1>6, BoundKept, LinkedCall DEF Early
  <1>9. ASSUME NEW v \in Call, Runs("provider", v) PROVE ProviderCall(v)'
    <2>1. ProviderCall(v) /\ v # u
      BY <1>5, <1>9 DEF Early
    <2> QED
      BY <1>1, <1>4, <1>5, <1>6, <2>1, ProviderCallOwn, ProviderCallRest
         DEF ProviderCall, Runs
  <1>10. EarlyCall(u)'
    <2>1. \A j \in Call : Runs("provider", j)' => Runs("provider", j)
      BY <1>4, <1>5 DEF Runs, Running
    <2>2. c.kind \notin {"verify", "finalize"}
      BY <1>1, <1>5, EarlyConsumer DEF Early, NothingLater, EarlyCall
    <2> QED
      BY <1>1, <1>4, <1>5, <2>1, <2>2 DEF Early, NothingLater, EarlyCall
  <1>11. ConsumerCall(u)'
    <2>1. ConsumerCall(u)
      BY DEF Early
    <2> QED
      BY <1>1, <1>4, <2>1
         DEF ConsumerCall, LoadedOpen, RefusedOpen, Answer, SameOffer, Serving, At
  <1>12. \A p \in Party : db'[p].state \in EarlyState(p)
    BY <1>1 DEF Early, NothingLater
  <1>13. \A j \in Call : Runs("consumer", j) => j = u
    BY DEF Early, OneEach
  <1> QED
    BY <1>1, <1>4, <1>5, <1>7, <1>8, <1>9, <1>10, <1>11, <1>12, <1>13,
       ConsumerMove

\* If the provider could agree to what the consumer's call is refused for, the
\* consumer can accept no agreement.
LEMMA RefusedShut ==
  ASSUME OrderInv, RequestFirst, Early, NEW u \in Call, Awaited(u),
         Runs("consumer", u), call[u].kind # "requestNew",
         call[u].pc = "posted", call[u].hpc # "ok",
         NEW y \in Prospects("provider"), y.state \in Open,
         ~Allowed("consumer", y.state, Target(call[u].kind)),
         \A v \in Call : ~Answering("consumer", v)
  PROVE  Shut
  <1> DEFINE c == call[u]
  <1>1. /\ \/ /\ c.kind \in {"requestExisting", "accept"}
              /\ c.copy.state = "OFFERED"
           \/ c.kind = "terminate" /\ c.copy.state \in {"REQUESTED", "OFFERED"}
        /\ db["consumer"] # Absent
    BY EarlyConsumer
  <1>2. Mine(u) = At(c.copy) /\ Mine(u) \in Prospects("consumer")
    BY <1>1, ProspectsOf DEF Mine
  <1>3. Fit(Mine(u), y)
    BY <1>2 DEF Early, AllFit
  <1>4. c.copy.state = "OFFERED"
    <2>1. SUFFICES ASSUME c.kind = "terminate", c.copy.state = "REQUESTED"
                   PROVE  FALSE
      BY <1>1
    <2>2. y.state = "ACCEPTED"
      BY <2>1 DEF Allowed, consumerTransitions, Target, Open
    <2> QED
      BY <1>2, <1>3, <2>1, <2>2 DEF Fit, At, Open
  <1>5. db["consumer"].state \in {"OFFERED", "TERMINATED"}
    <2>1. db["consumer"].state \in State /\ db["consumer"].state \in EarlyState("consumer")
      BY <1>1 DEF Early, NothingLater, OrderInv, TypeInv, TypeOK, Copy, Row
    <2>2. LoadedOpen(u)
      BY DEF Early, ConsumerCall
    <2> QED
      BY <1>4, <2>1, <2>2 DEF LoadedOpen, At, EarlyState, State, Open
  <1>6. \A i \in Call : Runs("consumer", i) => i = u
    BY DEF Early, OneEach
  <1>7. \A x \in Prospects("consumer") : x = At(db["consumer"]) \/ x = Mine(u)
    BY <1>6, ProspectsOf
  <1> QED
    BY <1>2, <1>4, <1>5, <1>7 DEF Shut, At

\* The provider refuses the request of a consumer's call, or goes on to save
\* the end of the negotiation.
LEMMA ConsumerHandledQuietly ==
  ASSUME OrderInv, AgreementInv, RequestFirst, Early,
         \A j \in Call : Awaited(j),
         NEW u \in Call, Runs("consumer", u), Handle(u),
         NEW next \in {"failed", "refusing", "handling"}, HandleOutcome(u, next),
         next = "handling" => call[u].kind = "terminate"
  PROVE  Early'
  <1> DEFINE c == call[u]
  <1>1. /\ TypeOK /\ c.by = "consumer" /\ c.pc = "posted" /\ c.hpc = "sent"
        /\ c.kind # "requestNew" /\ UNCHANGED <<db, events>> /\ Running(u)
    BY DEF OrderInv, TypeInv, Runs, Handle, Awaited
  <1>2. /\ \A j \in Call : j # u => call'[j] = call[j]
        /\ call'[u].kind = c.kind /\ call'[u].by = c.by /\ call'[u].copy = c.copy
        /\ call'[u].pc = c.pc /\ call'[u].hpc = next
        /\ call'[u].hcopy = IF next = "failed" THEN Absent ELSE db["provider"]
        /\ next # "failed" => db["provider"] \in Row
        /\ next = "refusing" =>
             ~Allowed("consumer", db["provider"].state, Target(c.kind))
    BY <1>1 DEF HandleOutcome, Moved
  <1>3. /\ \/ c.kind \in {"requestExisting", "accept"} /\ c.copy.state = "OFFERED"
           \/ c.kind = "terminate" /\ c.copy.state \in {"REQUESTED", "OFFERED"}
    BY <1>1, EarlyConsumer
  <1>4. /\ Mine(u)' = Mine(u) /\ Mine(u) \in Prospects("consumer")
        /\ ~Answering("consumer", u)'
        /\ ~Runs("provider", u)' /\ ~Runs("provider", u)
        /\ Running(u)' /\ Runs("consumer", u)'
    BY <1>1, <1>2, <1>3, ProspectsOf
       DEF Mine, Offer, Answering, Runs, At, Running
  <1>5. At(db["provider"]) \in Prospects("provider")
    BY ProspectsOf
  <1>6. Answering("provider", u)' =>
          /\ next # "failed"
          /\ Theirs(u)'.offer = db["provider"].offer
          /\ \/ Theirs(u)'.state = "TERMINATED"
             \/ next = "refusing" /\ Theirs(u)'.state = db["provider"].state
    BY <1>1, <1>2 DEF Answering, Theirs, At, Target
  <1>7. ASSUME NEW p \in Party PROVE Covered(p)
    <2>1. At(db[p])' \in Prospects(p)
      BY <1>1, ProspectsOf DEF At
    <2>2. Runs(p, u)' => Mine(u)' \in Prospects(p)
      BY <1>2, <1>4 DEF Runs
    <2>3. Answering(p, u)' => /\ p = "provider" /\ At(db[p]) \in Prospects(p)
                              /\ Theirs(u)'.offer = At(db[p]).offer
                              /\ Theirs(u)'.state \in {At(db[p]).state, "TERMINATED"}
      BY <1>4, <1>5, <1>6 DEF At
    <2> QED
      BY <1>2, <2>1, <2>2, <2>3, ProspectsMove DEF Covered
  <1>8. AllFit'
    BY <1>7, CoveredFit DEF Early
  <1>9. Bound'
    BY <1>1, <1>2, <1>7, BoundKept, LinkedCall DEF Early
  <1>10. next = "refusing" => db["provider"].state # "OFFERED"
    BY <1>2, <1>3 DEF Allowed, consumerTransitions, Target
  <1>11. ASSUME NEW v \in Call, Runs("provider", v) PROVE ProviderCall(v)'
    <2>1. ProviderCall(v) /\ v # u
      BY <1>4, <1>11 DEF Early
    <2>2. ASSUME call[v].pc \in {"storing", "recording"}, Answering("provider", u)'
          PROVE  Theirs(u)'.state # "OFFERED" /\ (Theirs(u)'.state \in Open => Shut)
      <3>1. Theirs(u)'.state # "OFFERED"
        BY <1>6, <1>10, <2>2
      <3>2. ASSUME Theirs(u)'.state \in Open PROVE Shut
        <4>1. next = "refusing" /\ Theirs(u)'.state = db["provider"].state
          BY <1>6, <2>2, <3>2 DEF Open
        <4>2. \A j \in Call : Runs("provider", j) => j = v
          BY <1>11 DEF Early, OneEach
        <4>3. \A j \in Call : ~Answering("consumer", j)
          BY <2>2, <4>2 DEF Answering, Awaited, Serving, Runs, Running
        <4>4. At(db["provider"]).state = db["provider"].state
          BY DEF At
        <4> QED
          BY <1>1, <1>2, <1>5, <3>2, <4>1, <4>3, <4>4, RefusedShut
      <3> QED
        BY <3>1, <3>2
    <2> QED
      BY <1>1, <1>2, <1>4, <1>7, <2>1, <2>2, ProviderCallOwn, ProviderCallRest
         DEF ProviderCall, Runs
  <1>12. EarlyCall(u)'
    <2>1. \A j \in Call : Runs("provider", j)' => Runs("provider", j)
      BY <1>2, <1>4 DEF Runs, Running
    <2>2. db["provider"].state \in EarlyState("provider")
          /\ Absent.state \in EarlyState("provider")
      BY DEF Early, NothingLater, EarlyState, Absent
    <2>3. EarlyCall(u)
      BY DEF Early, NothingLater
    <2> QED
      BY <1>1, <1>2, <1>3, <2>1, <2>2, <2>3 DEF EarlyCall
  <1>13. ConsumerCall(u)'
    <2>1. ConsumerCall(u)
      BY DEF Early
    <2>2. LoadedOpen(u)'
      BY <1>1, <1>2, <2>1 DEF ConsumerCall, LoadedOpen, At
    <2>3. RefusedOpen(u)'
      BY <1>1, <1>2, <1>10 DEF RefusedOpen
    <2>4. Answer(u)'
      BY <1>2 DEF Answer
    <2>5. ASSUME NEW v \in Call, Runs("provider", v)', call'[v].copy.state \in Open
          PROVE  call'[v].copy.offer = db["provider"].offer
      <3>1. v # u /\ call'[v] = call[v] /\ Runs("provider", v)
        BY <1>2, <1>4, <2>5 DEF Runs, Running
      <3> QED
        BY <2>5, <3>1 DEF Early, ProviderCall, SameOfferLoaded
    <2>6. SameOffer(u)'
      BY <1>1, <1>2, <2>5 DEF SameOffer, Serving
    <2> QED
      BY <2>2, <2>3, <2>4, <2>6 DEF ConsumerCall
  <1>14. \A p \in Party : db'[p].state \in EarlyState(p)
    BY <1>1 DEF Early, NothingLater
  <1>15. \A j \in Call : Runs("consumer", j) => j = u
    BY DEF Early, OneEach
  <1> QED
    BY <1>1, <1>2, <1>4, <1>8, <1>9, <1>11, <1>12, <1>13, <1>14, <1>15,
       ConsumerMove

\* The provider goes on to save the consumer's answer to its offer.
LEMMA ConsumerAnswers ==
  ASSUME OrderInv, AgreementInv, RequestFirst, Early,
         \A j \in Call : Awaited(j),
         NEW u \in Call, Runs("consumer", u), Handle(u),
         HandleOutcome(u, "handling"), call[u].kind # "terminate"
  PROVE  Early'
  <1> DEFINE c == call[u]
  <1>1. /\ TypeOK /\ c.by = "consumer" /\ c.pc = "posted" /\ c.hpc = "sent"
        /\ c.kind # "requestNew" /\ UNCHANGED <<db, events>> /\ Running(u)
    BY DEF OrderInv, TypeInv, Runs, Handle, Awaited
  <1>2. /\ \A j \in Call : j # u => call'[j] = call[j]
        /\ call'[u].kind = c.kind /\ call'[u].by = c.by /\ call'[u].copy = c.copy
        /\ call'[u].pc = c.pc /\ call'[u].hpc = "handling"
        /\ call'[u].hcopy = db["provider"]
        /\ Allowed("consumer", db["provider"].state, Target(c.kind))
    BY <1>1 DEF HandleOutcome, Moved
  <1>3. c.kind \in {"requestExisting", "accept"} /\ c.copy.state = "OFFERED"
    BY <1>1, EarlyConsumer
  <1>4. db["provider"].state = "OFFERED"
    BY <1>2, <1>3 DEF Allowed, consumerTransitions, Target
  <1>5. /\ Mine(u)' = Mine(u) /\ Mine(u) = At(c.copy)
        /\ Mine(u) \in Prospects("consumer")
        /\ ~Answering("consumer", u)'
        /\ ~Runs("provider", u)' /\ ~Runs("provider", u)
        /\ Running(u)' /\ Runs("consumer", u)'
    BY <1>1, <1>2, <1>3, ProspectsOf
       DEF Mine, Offer, Answering, Runs, At, Running
  <1>6. At(db["provider"]) \in Prospects("provider")
    BY ProspectsOf
  <1>7. db["provider"].agr = None
    BY <1>4, <1>6 DEF Early, Bound, At
  <1>8. \A x \in Prospects("consumer") : x.state \notin Open
    <2>1. At(db["consumer"]).state \notin Open
      <3>1. LoadedOpen(u)
        BY DEF Early, ConsumerCall
      <3> QED
        BY <1>1, <1>3, <3>1 DEF LoadedOpen, At, Open
    <2>2. ASSUME NEW j \in Call, Runs("consumer", j)
          PROVE Mine(j).state \notin Open
      <3>1. j = u
        BY <2>2 DEF Early, OneEach
      <3> QED
        BY <1>3, <1>5, <3>1 DEF At, Open
    <2>3. ASSUME NEW v \in Call, Answering("consumer", v)
          PROVE  Theirs(v).state \notin Open
      <3>1. Serving(v) /\ call[v].by = "provider"
        BY <2>3 DEF Answering, Serving
      <3>2. Runs("provider", v)
        BY <3>1 DEF Awaited, Runs, Running
      <3>3. RefusedOpen(v)
        BY <3>2 DEF Early, ProviderCall
      <3>4. call[v].hpc = "handling" => call[v].kind \in {"offer", "agree", "terminate"}
        BY <3>1, EarlyHandler
      <3> QED
        BY <2>3, <3>1, <3>3, <3>4
           DEF RefusedOpen, Answering, Theirs, At, Target, Open
    <2> QED
      BY <2>1, <2>2, <2>3, ProspectsOf
  <1>9. Prospects("consumer")' \subseteq Prospects("consumer")
    BY <1>1, <1>2, <1>5, ProspectsMove, ProspectsOf DEF At
  <1>10. \A y \in Prospects("provider")' :
           y \in Prospects("provider") \/ y.state \in Open
    <2>1. Theirs(u)'.state \in Open
      BY <1>2, <1>3 DEF Theirs, Target, Open
    <2> QED
      BY <1>1, <1>2, <1>5, <2>1, ProspectsMove, ProspectsOf DEF At
  <1>11. AllFit'
    BY <1>8, <1>9, <1>10 DEF Early, AllFit, Fit, Open
  <1>12. Bound'
    BY <1>1, <1>7 DEF Bound
  <1>13. ASSUME NEW v \in Call, Runs("provider", v) PROVE ProviderCall(v)'
    <2>1. ProviderCall(v) /\ v # u
      BY <1>5, <1>13 DEF Early
    <2>2. Agreeing(v)'
      <3>1. call[v].kind = "agree" => call[v].pc # "posted"
        BY <1>7, <2>1, CallAssumption DEF ProviderCall, Agreeing
      <3> QED
        BY <1>2, <2>1, <3>1 DEF Agreeing
    <2>3. Binding(v)'
      <3>1. call[v].kind = "agree" => call[v].pc \notin {"storing", "recording"}
        BY <1>4, <2>1 DEF ProviderCall, Binding
      <3> QED
        BY <1>2, <2>1, <3>1 DEF Binding
    <2>4. Offered(v)'
      <3>1. \A j \in Call : /\ Runs("consumer", j)' => Runs("consumer", j)
                            /\ call'[j].copy = call[j].copy
                            /\ call'[j].kind = call[j].kind
        BY <1>1, <1>2 DEF Runs, Running
      <3> QED
        BY <1>1, <1>2, <2>1, <3>1 DEF ProviderCall, Offered
    <2> QED
      BY <1>1, <1>2, <2>1, <2>2, <2>3, <2>4, ProviderCallOwn DEF ProviderCall
  <1>14. EarlyCall(u)'
    <2>1. \A j \in Call : Runs("provider", j)' => Runs("provider", j)
      BY <1>2, <1>5 DEF Runs, Running
    <2>2. EarlyCall(u) /\ db["provider"].state \in EarlyState("provider")
      BY DEF Early, NothingLater
    <2> QED
      BY <1>1, <1>2, <1>3, <2>1, <2>2 DEF EarlyCall
  <1>15. ConsumerCall(u)'
    <2>1. ConsumerCall(u)
      BY DEF Early
    <2>2. LoadedOpen(u)'
      BY <1>1, <1>2, <2>1 DEF ConsumerCall, LoadedOpen, At
    <2>3. RefusedOpen(u)'
      BY <1>2 DEF RefusedOpen
    <2>4. ASSUME NEW v \in Call, Runs("provider", v)'
          PROVE  call'[v].copy.state = "OFFERED"
      <3>1. v # u /\ call'[v] = call[v] /\ Runs("provider", v)
        BY <1>2, <1>5, <2>4 DEF Runs, Running
      <3> QED
        BY <1>4, <3>1 DEF Early, ProviderCall, LoadedOffer, At
    <2>5. db["provider"].offer = c.copy.offer
      <3>1. Fit(Mine(u), At(db["provider"]))
        BY <1>5, <1>6 DEF Early, AllFit
      <3> QED
        BY <1>3, <1>4, <1>5, <3>1 DEF Fit, At
    <2>6. Answer(u)'
      BY <1>1, <1>2, <1>4, <1>7, <2>4, <2>5 DEF Answer
    <2>7. SameOffer(u)'
      BY <1>1, <1>2, <1>4, <2>4 DEF SameOffer, Open
    <2> QED
      BY <2>2, <2>3, <2>6, <2>7 DEF ConsumerCall
  <1>16. \A p \in Party : db'[p].state \in EarlyState(p)
    BY <1>1 DEF Early, NothingLater
  <1>17. \A j \in Call : Runs("consumer", j) => j = u
    BY DEF Early, OneEach
  <1> QED
    BY <1>1, <1>2, <1>5, <1>11, <1>12, <1>13, <1>14, <1>15, <1>16, <1>17,
         ConsumerMove

\* The provider's handler saves its refusal, or the end of the negotiation.
LEMMA ConsumerHandlerSaves ==
  ASSUME OrderInv, AgreementInv, RequestFirst, Early,
         \A j \in Call : Awaited(j),
         NEW u \in Call, Runs("consumer", u),
         \/ call[u].hpc = "refusing"
         \/ call[u].hpc = "handling" /\ call[u].kind = "terminate",
         \A j \in Call : j # u => call'[j] = call[j],
         call'[u].copy = call[u].copy, call'[u].kind = call[u].kind,
         call'[u].by = call[u].by, call'[u].pc = call[u].pc,
         call'[u].hcopy = Absent, call'[u].hpc \in {"ok", "failed"},
         call'[u].hpc = "ok" => call[u].kind = "terminate",
         NEW s \in State, NEW o, Theirs(u) = [state |-> s, offer |-> o],
         Save("provider", s, o, None), UNCHANGED events
  PROVE  Early'
  <1> DEFINE c == call[u]
  <1>1. /\ TypeOK /\ c.by = "consumer" /\ c.pc = "posted" /\ Serving(u)
        /\ c.kind # "requestNew" /\ Running(u)
        /\ Answering("provider", u)
    BY EarlyHandler DEF OrderInv, TypeInv, Runs, Serving, Answering
  <1>2. /\ db'["provider"].state = s /\ db'["provider"].offer = o
        /\ db'["provider"].agr = db["provider"].agr
        /\ At(db'["provider"]) = [state |-> s, offer |-> o]
        /\ db'["consumer"] = db["consumer"]
    BY <1>1, SavedRow
  <1>3. c.kind \in {"requestExisting", "accept", "terminate"}
    BY <1>1, EarlyConsumer
  <1>4. /\ Mine(u) \in Prospects("consumer") /\ Mine(u) = At(c.copy)
        /\ Mine(u)'.offer = Mine(u).offer
        /\ Mine(u)'.state \in {Mine(u).state, "TERMINATED"}
        /\ \A p : ~Answering(p, u)'
        /\ ~Runs("provider", u)' /\ ~Runs("provider", u)
        /\ Running(u)' /\ Runs("consumer", u)'
    BY <1>1, <1>3, ProspectsOf
       DEF Mine, Offer, Answering, Runs, At, Running, Target
  <1>5. Theirs(u) \in Prospects("provider")
    BY <1>1, ProspectsOf
  <1>6. ASSUME NEW p \in Party PROVE Covered(p)
    <2>1. At(db[p])' \in Prospects(p)
      BY <1>2, <1>5, ProspectsOf DEF At
    <2>2. Runs(p, u)' => p = "consumer"
      BY <1>4
    <2> QED
      BY <1>4, <2>1, <2>2, ProspectsMove DEF Covered
  <1>7. AllFit'
    BY <1>6, CoveredFit DEF Early
  <1>8. Bound'
    BY <1>2, <1>6, BoundKept, LinkedCall DEF Early
  <1>9. /\ ConsumerCall(u)
        /\ s # "OFFERED" /\ o = c.hcopy.offer
    BY <1>1 DEF Early, ConsumerCall, RefusedOpen, Theirs, At, Target
  <1>10. ASSUME NEW v \in Call, Runs("provider", v) PROVE ProviderCall(v)'
    <2>1. ProviderCall(v) /\ v # u /\ call'[v] = call[v]
      BY <1>4, <1>10 DEF Early
    <2>2. \A j \in Call : /\ Runs("consumer", j)' => Runs("consumer", j)
                          /\ call'[j].copy = call[j].copy
                          /\ call'[j].kind = call[j].kind
      BY DEF Runs, Running
    <2>3. ASSUME NEW j \in Call, Answering("provider", j)'
          PROVE  Answering("provider", j) /\ Theirs(j)' = Theirs(j)
      <3>1. j # u
        BY <1>4, <2>3
      <3> QED
        BY <2>3, <3>1 DEF Answering, Theirs, At
    <2>4. \A y \in Prospects("provider")' : \E z \in Prospects("provider") :
            y.offer = z.offer /\ y.state \in {z.state, "TERMINATED"}
      BY <1>6 DEF Covered
    <2>5. LoadedOffer(v)' /\ RefusedOpen(v)'
      BY <1>2, <1>9, <2>1 DEF ProviderCall, LoadedOffer, RefusedOpen
    <2>6. Offered(v)'
      BY <1>2, <2>1, <2>2 DEF ProviderCall, Offered
    <2>7. SameOfferLoaded(v)'
      <3>1. SameOffer(u)
        BY <1>9 DEF ConsumerCall
      <3> QED
        BY <1>1, <1>2, <1>9, <1>10, <2>1, <3>1 DEF SameOffer, SameOfferLoaded
    <2>8. Agreeing(v)'
      BY <1>2, <2>1, <2>2, <2>4 DEF ProviderCall, Agreeing
    <2>9. Shut => Shut'
      BY <1>6 DEF Shut, Covered
    <2>10. Binding(v)'
      BY <1>2, <1>9, <2>1, <2>3, <2>4, <2>9 DEF ProviderCall, Binding
    <2> QED
      BY <2>5, <2>6, <2>7, <2>8, <2>10 DEF ProviderCall
  <1>11. EarlyCall(u)'
    <2>1. \A j \in Call : Runs("provider", j)' => Runs("provider", j)
      BY <1>4 DEF Runs, Running
    <2>2. EarlyCall(u) /\ Absent.state \in EarlyState("provider")
      BY DEF Early, NothingLater, EarlyState, Absent
    <2> QED
      BY <1>1, <1>3, <2>1, <2>2 DEF EarlyCall
  <1>12. ConsumerCall(u)'
    BY <1>2, <1>9
       DEF ConsumerCall, LoadedOpen, RefusedOpen, Answer, SameOffer, Serving, At
  <1>13. s \in EarlyState("provider")
    <2>1. c.hcopy.state \in EarlyState("provider")
      BY <1>1, EarlyHandler
    <2>2. s = c.hcopy.state \/ s = "TERMINATED"
      BY <1>1 DEF Theirs, At, Target
    <2> QED
      BY <2>1, <2>2 DEF EarlyState
  <1>14. \A p \in Party : db'[p].state \in EarlyState(p)
    BY <1>2, <1>13 DEF Early, NothingLater
  <1>15. \A j \in Call : Runs("consumer", j) => j = u
    BY DEF Early, OneEach
  <1> QED
    BY <1>1, <1>4, <1>7, <1>8, <1>10, <1>11, <1>12, <1>14, <1>15, ConsumerMove

\* The members of Prospects after a step.
LEMMA ProspectsNext ==
  ASSUME NEW p
  PROVE  \A x \in Prospects(p)' :
           \/ x = At(db'[p])
           \/ \E i \in Call : Runs(p, i)' /\ x = Mine(i)'
           \/ \E i \in Call : Answering(p, i)' /\ x = Theirs(i)'
  BY DEF Prospects, At

\* The provider's handler saves the consumer's answer.
LEMMA ConsumerAnswered ==
  ASSUME OrderInv, AgreementInv, RequestFirst, Early,
         \A j \in Call : Awaited(j),
         NEW u \in Call, Runs("consumer", u),
         call[u].hpc = "handling", call[u].kind \in {"requestExisting", "accept"},
         \A j \in Call : j # u => call'[j] = call[j],
         call'[u].copy = call[u].copy, call'[u].kind = call[u].kind,
         call'[u].by = call[u].by, call'[u].pc = call[u].pc,
         call'[u].hcopy = Absent, call'[u].hpc = "ok",
         NEW s \in State, NEW o, Theirs(u) = [state |-> s, offer |-> o],
         Save("provider", s, o, None), UNCHANGED events
  PROVE  Early'
  <1> DEFINE c == call[u]
  <1>1. /\ TypeOK /\ c.by = "consumer" /\ c.pc = "posted" /\ Serving(u)
        /\ Running(u) /\ Answering("provider", u)
    BY EarlyHandler DEF OrderInv, TypeInv, Runs, Serving, Answering
  <1>2. /\ db'["provider"].state = s /\ db'["provider"].offer = o
        /\ db'["provider"].agr = db["provider"].agr
        /\ At(db'["provider"]) = [state |-> s, offer |-> o]
        /\ db'["consumer"] = db["consumer"]
    BY <1>1, SavedRow
  <1>3. ConsumerCall(u)
    BY DEF Early
  <1>4. /\ db["provider"].agr = None
        /\ c.kind = "accept" => c.hcopy.offer = c.copy.offer
        /\ \A v \in Call : Runs("provider", v) =>
             call[v].copy.state \in {"OFFERED", "TERMINATED"}
    BY <1>3 DEF ConsumerCall, Answer
  <1>5. /\ s \in Open /\ Mine(u)' = [state |-> s, offer |-> o]
        /\ \A p : ~Answering(p, u)'
        /\ ~Runs("provider", u)' /\ ~Runs("provider", u)
        /\ Running(u)' /\ Runs("consumer", u)'
    BY <1>1, <1>4
       DEF Mine, Theirs, Offer, Answering, Runs, At, Running, Target, Open
  <1>6. Theirs(u) \in Prospects("provider")
    BY <1>1, ProspectsOf
  <1>7. ASSUME NEW v \in Call, Runs("provider", v)
        PROVE  /\ v # u /\ call'[v] = call[v] /\ ProviderCall(v)
               /\ call[v].copy.state \in {"OFFERED", "TERMINATED"}
               /\ call[v].pc = "refusing" \/ call[v].kind = "terminate"
               /\ Mine(v)' = Mine(v) /\ Mine(v).state \in {"OFFERED", "TERMINATED"}
               /\ Mine(v) \in Prospects("provider")
    <2>1. v # u /\ call'[v] = call[v] /\ ProviderCall(v)
      BY <1>5, <1>7 DEF Early
    <2>2. call[v].copy.state \in {"OFFERED", "TERMINATED"}
      BY <1>4, <1>7
    <2>3. call[v].pc = "refusing" \/ call[v].kind = "terminate"
      BY <1>7, <2>2, EarlyProvider DEF Open
    <2> QED
      BY <1>7, <2>1, <2>2, <2>3, ProspectsOf DEF Mine, Offer, At, Target
  <1>8. ASSUME NEW x \in Prospects("consumer")'
        PROVE  x \in Prospects("consumer") \/ x = [state |-> s, offer |-> o]
    BY <1>2, <1>5, ProspectsMove, ProspectsOf DEF At
  <1>9. ASSUME NEW y \in Prospects("provider")'
        PROVE  \/ y = [state |-> s, offer |-> o]
               \/ y \in Prospects("provider") /\ y.state \in {"OFFERED", "TERMINATED"}
    <2>1. \A j \in Call : Runs("provider", j)' => Runs("provider", j)
      BY <1>5 DEF Runs, Running
    <2>2. \A j \in Call : ~Answering("provider", j)'
      <3>1. ASSUME NEW j \in Call, Answering("provider", j)', j # u PROVE FALSE
        <4>1. Runs("consumer", j)
          BY <3>1 DEF Answering, Runs, Running, Awaited, Serving
        <4> QED
          BY <3>1, <4>1 DEF Early, OneEach
      <3> QED
        BY <1>5, <3>1
    <2> QED
      BY <1>2, <1>7, <2>1, <2>2, ProspectsNext
  <1>10. AllFit'
    <2>1. ASSUME NEW x \in Prospects("consumer"), NEW y \in Prospects("provider")
          PROVE  Fit(x, y)
      BY DEF Early, AllFit
    <2>2. ASSUME NEW x \in Prospects("consumer")', NEW y \in Prospects("provider")'
          PROVE  Fit(x, y)
      <3>1. CASE x \in Prospects("consumer")
        BY <1>6, <1>9, <2>1, <3>1
      <3>2. CASE x = [state |-> s, offer |-> o]
        BY <1>5, <1>9, <3>2 DEF Fit, Open
      <3> QED
        BY <1>8, <3>1, <3>2
    <2> QED
      BY <2>2 DEF AllFit
  <1>11. Bound'
    BY <1>2, <1>4 DEF Bound
  <1>12. ASSUME NEW v \in Call, Runs("provider", v) PROVE ProviderCall(v)'
    <2>1. LoadedOffer(v)' /\ RefusedOpen(v)' /\ SameOfferLoaded(v)'
      BY <1>2, <1>5, <1>7, <1>12
         DEF ProviderCall, LoadedOffer, RefusedOpen, SameOfferLoaded, Open
    <2>2. Agreeing(v)' /\ Binding(v)' /\ Offered(v)'
      <3>1. /\ call[v].hpc = "handling" => call[v].pc = "posted"
        BY DEF Awaited, Serving
      <3> QED
        BY <1>7, <1>12, <3>1 DEF Agreeing, Binding, Offered
    <2> QED
      BY <2>1, <2>2 DEF ProviderCall
  <1>13. EarlyCall(u)'
    <2>1. \A j \in Call : Runs("provider", j)' => Runs("provider", j)
      BY <1>5 DEF Runs, Running
    <2>2. EarlyCall(u) /\ Absent.state \in EarlyState("provider")
      BY DEF Early, NothingLater, EarlyState, Absent
    <2> QED
      BY <1>1, <2>1, <2>2 DEF EarlyCall
  <1>14. ConsumerCall(u)'
    BY <1>2, <1>3
       DEF ConsumerCall, LoadedOpen, RefusedOpen, Answer, SameOffer, Serving, At
  <1>15. \A p \in Party : db'[p].state \in EarlyState(p)
    BY <1>2, <1>5 DEF Early, NothingLater, EarlyState, Open
  <1>16. \A j \in Call : Runs("consumer", j) => j = u
    BY DEF Early, OneEach
  <1> QED
    BY <1>1, <1>5, <1>10, <1>11, <1>12, <1>13, <1>14, <1>15, <1>16, ConsumerMove

\* The provider's handler of the request creates its row.
LEMMA ConsumerRequested ==
  ASSUME OrderInv, RequestFirst, Early, \A j \in Call : Awaited(j),
         NEW u \in Call, HandleNewRequest(u)
  PROVE  Early'
  <1> DEFINE c == call[u]
  <1>1. /\ TypeOK /\ c.kind = "requestNew" /\ c.hpc = "sent" /\ c.pc = "posted"
        /\ c.by = "consumer" /\ c.copy = Absent /\ Runs("consumer", u)
        /\ db["consumer"] = Absent /\ db["provider"] = Absent
    <2>1. c.kind = "requestNew" /\ c.hpc = "sent" /\ c.pc = "posted"
      BY DEF HandleNewRequest, Awaited
    <2>2. RequestInv(u) /\ ByRole(u) /\ TypeOK
      BY DEF RequestFirst, OrderInv, CallOrder, TypeInv
    <2> QED
      BY <2>1, <2>2 DEF RequestInv, ByRole, Runs, Running
  <1>2. /\ db'["provider"].state = "REQUESTED" /\ db'["provider"].offer = u
        /\ db'["provider"].agr = None
        /\ At(db'["provider"]) = [state |-> "REQUESTED", offer |-> u]
        /\ db'["consumer"] = Absent
    <2>1. Save("provider", "REQUESTED", u, None)
      BY <1>1 DEF HandleNewRequest, Offer
    <2>2. "REQUESTED" \in State
      BY DEF State
    <2> QED
      BY <1>1, <2>1, <2>2, SavedRow DEF Absent
  <1>3. /\ \A j \in Call : j # u => call'[j] = call[j]
        /\ call'[u].kind = c.kind /\ call'[u].by = c.by /\ call'[u].copy = c.copy
        /\ call'[u].pc = c.pc /\ call'[u].hpc = "ok" /\ call'[u].hcopy = c.hcopy
        /\ events' \subseteq events \cup {u}
    BY <1>1, HandleNewRequestMoves DEF Moved, HandleNewRequest, Emit
  <1>4. /\ Mine(u)' = [state |-> "REQUESTED", offer |-> u]
        /\ \A p : ~Answering(p, u)'
        /\ ~Runs("provider", u)' /\ ~Runs("provider", u)
        /\ Running(u)' /\ Runs("consumer", u)'
    BY <1>1, <1>3 DEF Mine, Offer, Answering, Runs, Running, Target
  <1>5. \A j \in Call : ~Runs("provider", j)
    BY <1>1, EarlyProvider
  <1>6. \A j \in Call : ~Runs("provider", j)'
    BY <1>3, <1>4, <1>5 DEF Runs, Running
  <1>7. \A j \in Call : Runs("consumer", j) => j = u
    BY <1>1 DEF Early, OneEach
  <1>8. \A p \in Party, j \in Call : ~Answering(p, j)'
    <2>1. ASSUME NEW p \in Party, NEW j \in Call, Answering(p, j)', j # u
          PROVE  FALSE
      <3>1. Serving(j)
        BY <1>3, <2>1 DEF Answering, Serving
      <3> QED
        BY <1>1, <3>1, EarlyHandler
    <2> QED
      BY <1>4, <2>1
  <1>9. \A x \in Prospects("consumer")' :
          x = At(Absent) \/ x = [state |-> "REQUESTED", offer |-> u]
    <2>1. \A j \in Call : Runs("consumer", j)' => j = u
      BY <1>3, <1>7 DEF Runs, Running
    <2> QED
      BY <1>2, <1>4, <1>8, <2>1, ProspectsNext
  <1>10. \A y \in Prospects("provider")' : y = [state |-> "REQUESTED", offer |-> u]
    BY <1>2, <1>6, <1>8, ProspectsNext
  <1>11. AllFit' /\ Bound'
    BY <1>2, <1>9, <1>10 DEF AllFit, Fit, Bound, At, Absent, Open
  <1>12. EarlyCall(u)'
    <2>1. EarlyCall(u)
      BY DEF Early, NothingLater
    <2> QED
      BY <1>1, <1>3, <1>6, <2>1 DEF EarlyCall, Runs, Running
  <1>13. ConsumerCall(u)'
    BY <1>1, <1>3
       DEF ConsumerCall, LoadedOpen, RefusedOpen, Answer, SameOffer, Serving
  <1>14. \A p \in Party : db'[p].state \in EarlyState(p)
    BY <1>2 DEF EarlyState, Absent
  <1> QED
    BY <1>1, <1>3, <1>4, <1>5, <1>7, <1>11, <1>12, <1>13, <1>14, ConsumerMove

\* A call of the consumer's begins.
LEMMA ConsumerBegins ==
  ASSUME OrderInv, AgreementInv, RequestFirst, Early,
         \A j \in Call : Awaited(j),
         NEW u \in Call, call[u].pc = "idle", NEW k \in KindsOf("consumer"),
         Began(u, "consumer", k), UNCHANGED db, events' \subseteq events,
         \A j \in Call : ~Runs("consumer", j)
  PROVE  Early'
  <1>1. /\ TypeOK /\ u \notin events
        /\ k \in {"requestExisting", "accept", "verify", "terminate"}
    BY DEF OrderInv, TypeInv, CallOrder, ByRole, KindsOf
  <1>2. /\ \A j \in Call : j # u => call'[j] = call[j]
        /\ call'[u].kind = k /\ call'[u].by = "consumer"
        /\ call'[u].copy = db["consumer"] /\ call'[u].hcopy = Absent
        /\ call'[u].hpc \in {"sent", "none"}
        /\ call'[u].pc \in {"posted", "refusing", "storing", "recording"}
        /\ k = "verify" => call'[u].pc = "refusing"
    <2>1. db["consumer"].state # "AGREED"
      BY DEF Early, NothingLater, EarlyState
    <2>2. k = "verify" => ~Allowed("consumer", db["consumer"].state, Target(k))
      BY <1>1, <2>1 DEF Allowed, consumerTransitions, Target
    <2> QED
      BY <1>1, <2>2 DEF Began
  <1>3. /\ Mine(u)' = At(db["consumer"])
        /\ \A p : ~Answering(p, u)'
        /\ ~Runs("provider", u)' /\ ~Runs("provider", u)
        /\ Running(u)' /\ Runs("consumer", u)'
    BY <1>1, <1>2 DEF Mine, Answering, Runs, At, Running
  <1>4. ASSUME NEW p \in Party PROVE Covered(p)
    <2>1. At(db[p])' = At(db[p]) /\ At(db[p]) \in Prospects(p)
      BY ProspectsOf DEF At
    <2>2. Runs(p, u)' => p = "consumer"
      BY <1>3
    <2> QED
      BY <1>2, <1>3, <2>1, <2>2, ProspectsMove DEF Covered
  <1>5. AllFit'
    BY <1>4, CoveredFit DEF Early
  <1>6. Bound'
    <2>1. call[u].kind = "none"
      BY DEF OrderInv, CallOrder, ByRole
    <2>2. db["provider"].agr # None =>
            call'[db["provider"].agr].copy = call[db["provider"].agr].copy
      BY <1>2, <2>1, LinkedCall
    <2> QED
      BY <1>4, <2>2, BoundKept DEF Early
  <1>7. ASSUME NEW v \in Call, Runs("provider", v) PROVE ProviderCall(v)'
    <2>1. ProviderCall(v) /\ v # u /\ call'[v] = call[v]
      BY <1>2, <1>3, <1>7 DEF Early
    <2>2. \A j \in Call : Runs("consumer", j)' =>
            /\ j = u /\ call'[j].kind # "requestNew"
            /\ call'[j].copy = db["consumer"]
      BY <1>1, <1>2 DEF Runs, Running
    <2>3. \A y \in Prospects("provider")' : \E z \in Prospects("provider") :
            y.offer = z.offer /\ y.state \in {z.state, "TERMINATED"}
      BY <1>4 DEF Covered
    <2>4. Offered(v)'
      BY <2>1, <2>2 DEF ProviderCall, Offered
    <2>5. Agreeing(v)'
      BY <2>1, <2>2, <2>3 DEF ProviderCall, Agreeing
    <2>6. Shut => Shut'
      BY <1>4 DEF Shut, Covered
    <2>7. ASSUME NEW j \in Call, Answering("provider", j)'
          PROVE  Answering("provider", j) /\ Theirs(j)' = Theirs(j)
      <3>1. j # u
        BY <1>3, <2>7
      <3> QED
        BY <1>2, <2>7, <3>1 DEF Answering, Theirs, At
    <2>8. Binding(v)'
      BY <2>1, <2>3, <2>6, <2>7 DEF ProviderCall, Binding
    <2> QED
      BY <2>1, <2>4, <2>5, <2>8, ProviderCallOwn DEF ProviderCall
  <1>8. EarlyCall(u)'
    <2>1. db["consumer"].state \in EarlyState("consumer")
          /\ Absent.state \in EarlyState("provider")
      BY DEF Early, NothingLater, EarlyState, Absent
    <2> QED
      BY <1>1, <1>2, <2>1 DEF EarlyCall, KindsOf
  <1>9. ConsumerCall(u)'
    BY <1>2
       DEF ConsumerCall, LoadedOpen, RefusedOpen, Answer, SameOffer, Serving, At
  <1>10. \A p \in Party : db'[p].state \in EarlyState(p)
    BY DEF Early, NothingLater
  <1> QED
    BY <1>2, <1>3, <1>5, <1>6, <1>7, <1>8, <1>9, <1>10, ConsumerMove
----------------------------------------------------------------------------
(* Until the consumer has an agreement: the steps of the provider's calls.  *)

\* The states the provider may have and get.
LEMMA ProviderProspects ==
  ASSUME OrderInv, RequestFirst, Early, \A j \in Call : Awaited(j),
         db["provider"] # Absent, NEW y \in Prospects("provider")
  PROVE  y.state \in {"REQUESTED", "OFFERED", "ACCEPTED", "AGREED", "TERMINATED"}
  <1>1. \A s \in EarlyState("provider") \cap State :
          s \in {"REQUESTED", "OFFERED", "ACCEPTED", "AGREED", "TERMINATED"}
    BY DEF EarlyState, State
  <1>2. TypeOK /\ \A p \in Party : \A s \in seen[p] : s \in State
    BY DEF OrderInv, TypeInv, TypeOK
  <1>3. CASE y = At(db["provider"])
    <2>1. db["provider"].state \in State \cap EarlyState("provider")
      BY <1>2 DEF TypeOK, Copy, Row, Early, NothingLater
    <2> QED
      BY <1>1, <1>3, <2>1 DEF At
  <1>4. ASSUME NEW v \in Call, Runs("provider", v), y = Mine(v)
        PROVE  y.state \in {"REQUESTED", "OFFERED", "ACCEPTED", "AGREED", "TERMINATED"}
    <2>1. call[v].kind \in {"offer", "agree", "terminate", "finalize"}
          /\ (call[v].pc # "refusing" => call[v].kind # "finalize")
      BY <1>4, EarlyProvider
    <2>2. call[v].copy.state \in seen["provider"]
      BY <1>4, <2>1, CallerRow DEF Runs
    <2>3. call[v].copy.state \in State \cap EarlyState("provider")
      BY <1>2, <1>4, <2>2 DEF Early, NothingLater, EarlyCall, Runs
    <2>4. \/ y.state = call[v].copy.state
          \/ call[v].kind # "finalize" /\ y.state = Target(call[v].kind)
      BY <1>4, <2>1 DEF Mine, At
    <2> QED
      BY <1>1, <2>1, <2>3, <2>4 DEF Target
  <1>5. ASSUME NEW u \in Call, Answering("provider", u), y = Theirs(u)
        PROVE  y.state \in {"REQUESTED", "OFFERED", "ACCEPTED", "AGREED", "TERMINATED"}
    <2>1. Serving(u) /\ call[u].by = "consumer"
      BY <1>5 DEF Answering, Serving
    <2>2. /\ call[u].hcopy.state \in State \cap EarlyState("provider")
          /\ call[u].hpc = "handling" =>
               call[u].kind \in {"requestExisting", "accept", "terminate"}
      BY <2>1, EarlyHandler
    <2> QED
      BY <1>1, <1>5, <2>2 DEF Answering, Theirs, At, Target
  <1> QED
    BY <1>3, <1>4, <1>5, ProspectsOf

\* The provider's call saves its copy or its result, and ends.
LEMMA ProviderSaves ==
  ASSUME OrderInv, AgreementInv, RequestFirst, Early,
         \A j \in Call : Awaited(j),
         NEW v \in Call, Runs("provider", v), ~Serving(v), call[v].hpc # "sent",
         \A j \in Call : j # v => call'[j] = call[j],
         call'[v].copy = call[v].copy, call'[v].kind = call[v].kind,
         call'[v].by = call[v].by, call'[v].hpc = call[v].hpc, ~Running(v)',
         NEW s \in State, NEW o, Save("provider", s, o, None), UNCHANGED events,
         Mine(v) = [state |-> s, offer |-> o],
         s \in EarlyState("provider"),
         \/ s = call[v].copy.state /\ o = call[v].copy.offer
         \/ s = "TERMINATED"
         \/ s = "OFFERED" /\ call[v].copy.state = "REQUESTED"
  PROVE  Early' /\ consumerRow' = consumerRow
  <1>1. TypeOK /\ call[v].by = "provider" /\ events = {}
    BY NoEvents DEF OrderInv, TypeInv, Runs
  <1>2. /\ db'["provider"].state = s /\ db'["provider"].offer = o
        /\ db'["provider"].agr = db["provider"].agr
        /\ At(db'["provider"]) = [state |-> s, offer |-> o]
        /\ db'["consumer"] = db["consumer"]
    BY <1>1, SavedRow
  <1>3. /\ \A p : ~Runs(p, v)' /\ ~Answering(p, v)'
        /\ ~Runs("consumer", v)
    BY <1>1 DEF Runs, Answering, Serving
  <1>4. ASSUME NEW p \in Party PROVE Covered(p)
    <2>1. At(db[p])' \in Prospects(p)
      BY <1>1, <1>2, ProspectsOf DEF At
    <2> QED
      BY <1>3, <2>1, ProspectsMove DEF Covered
  <1>5. AllFit'
    BY <1>4, CoveredFit DEF Early
  <1>6. Bound'
    BY <1>2, <1>4, BoundKept, LinkedCall DEF Early
  <1>7. ASSUME NEW u \in Call, Runs("consumer", u) PROVE ConsumerCall(u)'
    <2>1. ConsumerCall(u) /\ u # v /\ call'[u] = call[u]
      BY <1>3, <1>7 DEF Early
    <2>2. \A j \in Call : /\ Runs("provider", j)' => Runs("provider", j)
                          /\ call'[j].copy = call[j].copy
      BY <1>3 DEF Runs, Running
    <2>3. LoadedOpen(u)' /\ RefusedOpen(u)'
      BY <1>2, <2>1 DEF ConsumerCall, LoadedOpen, RefusedOpen
    <2>4. Answer(u)'
      BY <1>2, <2>1, <2>2 DEF ConsumerCall, Answer
    <2>5. SameOffer(u)'
      BY <1>2, <2>1, <2>2 DEF ConsumerCall, SameOffer, Serving, Open
    <2> QED
      BY <2>3, <2>4, <2>5 DEF ConsumerCall
  <1>8. EarlyCall(v)'
    BY <1>1 DEF EarlyCall
  <1>9. \A p \in Party : db'[p].state \in EarlyState(p)
    BY <1>2 DEF Early, NothingLater
  <1>10. \A j \in Call : Runs("provider", j) => j = v
    BY DEF Early, OneEach
  <1>11. Early'
    BY <1>1, <1>3, <1>5, <1>6, <1>7, <1>8, <1>9, <1>10, ProviderMove
  <1> QED
    BY <1>2, <1>11

\* The provider's call reads its response.
LEMMA ProviderReply ==
  ASSUME OrderInv, AgreementInv, RequestFirst, Early,
         \A j \in Call : Awaited(j),
         NEW v \in Call, Runs("provider", v), Reply(v)
  PROVE  Early'
  <1> DEFINE c == call[v]
  <1>1. /\ TypeOK /\ c.by = "provider" /\ c.pc = "posted" /\ events = {}
        /\ c.hpc \in {"ok", "failed"} /\ UNCHANGED <<db, events>>
    BY NoEvents DEF OrderInv, TypeInv, Runs, Reply
  <1>2. PICK pc : /\ pc = IF c.hpc = "failed" THEN "failed"
                          ELSE IF SavesFirst(c.kind) THEN "done"
                          ELSE IF Stores(c.kind) THEN "storing" ELSE "saving"
                  /\ Moved(v, pc, c.hpc) /\ call'[v].hcopy = c.hcopy
    BY <1>1, ReplyMoves, Zenon
  <1>3. /\ pc \notin {"refusing", "posted"}
        /\ pc \in {"storing", "saving"} => c.hpc = "ok" /\ c.kind # "agree"
    BY <1>1, <1>2 DEF SavesFirst
  <1>4. /\ \A j \in Call : j # v => call'[j] = call[j]
        /\ call'[v].kind = c.kind /\ call'[v].by = c.by /\ call'[v].copy = c.copy
        /\ call'[v].pc = pc /\ call'[v].hpc = c.hpc /\ call'[v].hcopy = c.hcopy
    BY <1>2 DEF Moved
  <1>5. /\ Mine(v)' = Mine(v)
        /\ \A p : ~Answering(p, v)' /\ ~Runs("consumer", v)
        /\ ~Runs("consumer", v)'
        /\ Running(v)
    BY <1>1, <1>3, <1>4 DEF Mine, Offer, Answering, Runs, At, Running
  <1>6. ASSUME NEW p \in Party PROVE Covered(p)
    <2>1. At(db[p])' \in Prospects(p)
      BY <1>1, ProspectsOf DEF At
    <2>2. Runs(p, v)' => Mine(v)' \in Prospects(p)
      BY <1>4, <1>5, ProspectsOf DEF Runs
    <2> QED
      BY <1>4, <1>5, <2>1, <2>2, ProspectsMove DEF Covered
  <1>7. AllFit'
    BY <1>6, CoveredFit DEF Early
  <1>8. Bound'
    BY <1>1, <1>4, <1>6, BoundKept, LinkedCall DEF Early
  <1>9. ASSUME NEW u \in Call, Runs("consumer", u) PROVE ConsumerCall(u)'
    <2>1. ConsumerCall(u) /\ u # v
      BY <1>5, <1>9 DEF Early
    <2> QED
      BY <1>1, <1>4, <1>5, <2>1, ConsumerCallKept DEF Runs
  <1>10. EarlyCall(v)'
    <2>1. c.kind \notin {"verify", "finalize"}
      BY <1>1, EarlyProvider
    <2>2. EarlyCall(v)
      BY DEF Early, NothingLater
    <2> QED
      BY <1>1, <1>4, <1>5, <2>1, <2>2 DEF EarlyCall
  <1>11. ProviderCall(v)'
    <2>1. ProviderCall(v) /\ pc \in {"failed", "done", "storing", "saving"}
      BY <1>1, <1>2 DEF Early
    <2>2. LoadedOffer(v)' /\ SameOfferLoaded(v)'
      BY <1>1, <1>4, <2>1 DEF ProviderCall, LoadedOffer, SameOfferLoaded
    <2>3. RefusedOpen(v)' /\ Offered(v)' /\ Agreeing(v)' /\ Binding(v)'
      BY <1>1, <1>3, <1>4, <2>1 DEF RefusedOpen, Offered, Agreeing, Binding
    <2> QED
      BY <2>2, <2>3 DEF ProviderCall
  <1>12. \A p \in Party : db'[p].state \in EarlyState(p)
    BY <1>1 DEF Early, NothingLater
  <1>13. \A j \in Call : Runs("provider", j) => j = v
    BY DEF Early, OneEach
  <1> QED
    BY <1>1, <1>4, <1>5, <1>7, <1>8, <1>9, <1>10, <1>11, <1>12, <1>13,
       ProviderMove

\* The provider stores the agreement it is about to record.
LEMMA ProviderStores ==
  ASSUME OrderInv, AgreementInv, RequestFirst, Early,
         \A j \in Call : Awaited(j),
         NEW v \in Call, Runs("provider", v), StoreAgreement(v)
  PROVE  Early'
  <1> DEFINE c == call[v]
  <1>1. /\ TypeOK /\ c.by = "provider" /\ c.pc = "storing" /\ events = {}
        /\ c.kind = "agree" /\ c.hpc = "none" /\ UNCHANGED <<db, events>>
    <2>1. c.pc = "storing" /\ UNCHANGED <<db, events>>
      BY DEF StoreAgreement
    <2>2. c.kind = "agree"
      BY <2>1, EarlyProvider
    <2> QED
      BY <2>1, <2>2, NoEvents DEF OrderInv, TypeInv, Runs, Awaited
  <1>2. /\ \A j \in Call : j # v => call'[j] = call[j]
        /\ call'[v].kind = c.kind /\ call'[v].by = c.by /\ call'[v].copy = c.copy
        /\ call'[v].pc = "recording" /\ call'[v].hpc = c.hpc
        /\ call'[v].hcopy = c.hcopy
    BY <1>1, StoreAgreementMoves DEF Moved, SavesFirst
  <1>3. /\ Mine(v)' = Mine(v)
        /\ \A p : ~Answering(p, v)' /\ ~Answering(p, v)
        /\ ~Runs("consumer", v) /\ ~Runs("consumer", v)'
        /\ Running(v) /\ Running(v)'
    BY <1>1, <1>2 DEF Mine, Offer, Answering, Runs, At, Running
  <1>4. ASSUME NEW p \in Party PROVE Prospects(p)' \subseteq Prospects(p)
    <2>1. At(db[p])' \in Prospects(p)
      BY <1>1, ProspectsOf DEF At
    <2>2. Runs(p, v)' => Mine(v)' \in Prospects(p)
      BY <1>2, <1>3, ProspectsOf DEF Runs
    <2> QED
      BY <1>2, <1>3, <2>1, <2>2, ProspectsMove
  <1>5. ASSUME NEW p \in Party PROVE Covered(p)
    BY <1>4 DEF Covered
  <1>6. AllFit' /\ (Shut => Shut')
    BY <1>5, CoveredFit DEF Early
  <1>7. Bound'
    BY <1>1, <1>2, <1>5, BoundKept, LinkedCall DEF Early
  <1>8. ASSUME NEW u \in Call, Runs("consumer", u) PROVE ConsumerCall(u)'
    <2>1. ConsumerCall(u) /\ u # v
      BY <1>3, <1>8 DEF Early
    <2> QED
      BY <1>1, <1>2, <1>3, <2>1, ConsumerCallKept DEF Runs
  <1>9. EarlyCall(v)'
    <2>1. EarlyCall(v)
      BY DEF Early, NothingLater
    <2> QED
      BY <1>1, <1>2, <1>3, <2>1 DEF EarlyCall
  <1>10. ProviderCall(v)'
    <2>1. ProviderCall(v)
      BY DEF Early
    <2>2. LoadedOffer(v)' /\ SameOfferLoaded(v)'
      BY <1>1, <1>2, <2>1 DEF ProviderCall, LoadedOffer, SameOfferLoaded
    <2>3. RefusedOpen(v)' /\ Offered(v)' /\ Agreeing(v)'
      BY <1>1, <1>2 DEF RefusedOpen, Offered, Agreeing
    <2>4. ASSUME NEW j \in Call, Answering("provider", j)'
          PROVE  Answering("provider", j) /\ Theirs(j)' = Theirs(j)
      <3>1. j # v
        BY <1>3, <2>4
      <3> QED
        BY <1>2, <2>4, <3>1 DEF Answering, Theirs, At
    <2>5. Binding(v)'
      BY <1>1, <1>2, <1>4, <1>6, <2>1, <2>4 DEF ProviderCall, Binding
    <2> QED
      BY <2>2, <2>3, <2>5 DEF ProviderCall
  <1>11. \A p \in Party : db'[p].state \in EarlyState(p)
    BY <1>1 DEF Early, NothingLater
  <1>12. \A j \in Call : Runs("provider", j) => j = v
    BY DEF Early, OneEach
  <1> QED
    BY <1>1, <1>2, <1>3, <1>6, <1>7, <1>8, <1>9, <1>10, <1>11, <1>12,
       ProviderMove

\* The provider records that it agrees, and posts the agreement.
LEMMA ProviderRecords ==
  ASSUME OrderInv, AgreementInv, RequestFirst, Early,
         \A j \in Call : Awaited(j),
         NEW v \in Call, Runs("provider", v), RecordThenPost(v)
  PROVE  Early' /\ consumerRow' = consumerRow
  <1> DEFINE c == call[v]
  <1>1. /\ TypeOK /\ c.by = "provider" /\ c.pc = "recording" /\ events = {}
        /\ c.kind = "agree" /\ c.hpc = "none" /\ UNCHANGED events
        /\ c.copy.state \in Open /\ v # None
    <2>1. c.pc = "recording" /\ UNCHANGED events
      BY DEF RecordThenPost
    <2>2. c.kind = "agree" /\ c.copy.state \in Open
      BY <2>1, EarlyProvider DEF Open
    <2> QED
      BY <2>1, <2>2, NoEvents, CallAssumption
         DEF OrderInv, TypeInv, Runs, Awaited
  <1>2. /\ db'["provider"].state = "AGREED" /\ db'["provider"].offer = c.copy.offer
        /\ db'["provider"].agr = v
        /\ At(db'["provider"]) = [state |-> "AGREED", offer |-> c.copy.offer]
        /\ db'["consumer"] = db["consumer"]
    <2>1. Save("provider", "AGREED", c.copy.offer, v)
      BY <1>1 DEF RecordThenPost, Target, Offer, Link, Stores, Agreement
    <2>2. "AGREED" \in State
      BY DEF State
    <2> QED
      BY <1>1, <2>1, <2>2, SavedRow
  <1>3. /\ \A j \in Call : j # v => call'[j] = call[j]
        /\ call'[v].kind = c.kind /\ call'[v].by = c.by /\ call'[v].copy = c.copy
        /\ call'[v].pc = "posted" /\ call'[v].hpc = "sent"
        /\ call'[v].hcopy = c.hcopy
    BY <1>1, RecordThenPostMoves DEF Moved
  <1>4. /\ Mine(v)' = [state |-> "AGREED", offer |-> c.copy.offer]
        /\ Mine(v) = [state |-> "AGREED", offer |-> c.copy.offer]
        /\ \A p : ~Answering(p, v)' /\ ~Answering(p, v)
        /\ ~Runs("consumer", v) /\ ~Runs("consumer", v)'
        /\ Running(v) /\ Running(v)'
    BY <1>1, <1>3 DEF Mine, Offer, Answering, Runs, At, Running, Target
  <1>5. ASSUME NEW p \in Party PROVE Prospects(p)' \subseteq Prospects(p)
    <2>1. At(db[p])' \in Prospects(p)
      BY <1>2, <1>4, ProspectsOf DEF At
    <2>2. Runs(p, v)' => Mine(v)' \in Prospects(p)
      BY <1>3, <1>4, ProspectsOf DEF Runs
    <2> QED
      BY <1>3, <1>4, <2>1, <2>2, ProspectsMove
  <1>6. AllFit' /\ (Shut => Shut')
    BY <1>5, CoveredFit DEF Early, Covered
  <1>7. ProviderCall(v) /\ \A j \in Call : Runs("provider", j) => j = v
    BY DEF Early, OneEach
  <1>8. Bound'
    <2>1. \A y \in Prospects("provider")' : y.offer = c.copy.offer
      BY <1>1, <1>5, <1>7 DEF ProviderCall, Binding
    <2>2. ASSUME NEW y \in Prospects("provider")'
          PROVE  y.state # "OFFERED" /\ (y.state \in Open => Shut)
      <3>1. \A j \in Call : Runs("provider", j)' => j = v
        BY <1>3, <1>7 DEF Runs, Running
      <3>2. \A j \in Call : Answering("provider", j)' =>
              Answering("provider", j) /\ Theirs(j)' = Theirs(j)
        BY <1>3, <1>4 DEF Answering, Theirs, At
      <3>3. \/ y.state = "AGREED"
            \/ \E j \in Call : Answering("provider", j) /\ y = Theirs(j)
        BY <1>2, <1>4, <3>1, <3>2, ProspectsNext
      <3> QED
        BY <1>1, <1>7, <3>3 DEF ProviderCall, Binding, Open
    <2> QED
      BY <1>2, <1>3, <1>6, <2>1, <2>2 DEF Bound
  <1>9. ASSUME NEW u \in Call, Runs("consumer", u) PROVE ConsumerCall(u)'
    <2>1. ConsumerCall(u) /\ u # v /\ call'[u] = call[u]
      BY <1>3, <1>4, <1>9 DEF Early
    <2>2. \A j \in Call : /\ Runs("provider", j)' => Runs("provider", j)
                          /\ call'[j].copy = call[j].copy
      BY <1>3 DEF Runs, Running
    <2>3. LoadedOpen(u)' /\ RefusedOpen(u)'
      BY <1>2, <2>1 DEF ConsumerCall, LoadedOpen, RefusedOpen
    <2>4. Answer(u)'
      BY <1>1, <2>1 DEF ConsumerCall, Answer, Open
    <2>5. SameOffer(u)'
      BY <1>2, <2>1, <2>2 DEF ConsumerCall, SameOffer, Serving, Open
    <2> QED
      BY <2>3, <2>4, <2>5 DEF ConsumerCall
  <1>10. EarlyCall(v)'
    <2>1. EarlyCall(v)
      BY DEF Early, NothingLater
    <2> QED
      BY <1>1, <1>3, <1>4, <2>1 DEF EarlyCall
  <1>11. ProviderCall(v)'
    BY <1>1, <1>2, <1>3
       DEF ProviderCall, LoadedOffer, RefusedOpen, Offered, SameOfferLoaded,
           Agreeing, Binding
  <1>12. \A p \in Party : db'[p].state \in EarlyState(p)
    BY <1>2 DEF Early, NothingLater, EarlyState
  <1>13. Early'
    BY <1>1, <1>3, <1>4, <1>6, <1>7, <1>8, <1>9, <1>10, <1>11, <1>12,
       ProviderMove
  <1> QED
    BY <1>2, <1>13
\* The consumer refuses the request of a provider's call, or goes on to save
\* the end of the negotiation.
LEMMA ProviderHandledQuietly ==
  ASSUME OrderInv, AgreementInv, RequestFirst, Early,
         \A j \in Call : Awaited(j),
         NEW v \in Call, Runs("provider", v), Handle(v),
         NEW next \in {"failed", "refusing", "handling"}, HandleOutcome(v, next),
         next = "handling" => call[v].kind = "terminate"
  PROVE  Early'
  <1> DEFINE c == call[v]
  <1>1. /\ TypeOK /\ c.by = "provider" /\ c.pc = "posted" /\ c.hpc = "sent"
        /\ UNCHANGED <<db, events>> /\ events = {} /\ Running(v)
    BY NoEvents DEF OrderInv, TypeInv, Runs, Handle, Awaited
  <1>2. /\ \A j \in Call : j # v => call'[j] = call[j]
        /\ call'[v].kind = c.kind /\ call'[v].by = c.by /\ call'[v].copy = c.copy
        /\ call'[v].pc = c.pc /\ call'[v].hpc = next
        /\ call'[v].hcopy = IF next = "failed" THEN Absent ELSE db["consumer"]
        /\ next = "refusing" =>
             ~Allowed("provider", db["consumer"].state, Target(c.kind))
    BY <1>1 DEF HandleOutcome, Moved
  <1>3. \/ c.kind = "offer" /\ c.copy.state = "REQUESTED"
        \/ c.kind = "agree" /\ c.copy.state \in Open
        \/ /\ c.kind = "terminate"
           /\ c.copy.state \in {"REQUESTED", "OFFERED", "ACCEPTED"}
    BY <1>1, EarlyProvider
  <1>4. /\ Mine(v)' = Mine(v) /\ Mine(v) \in Prospects("provider")
        /\ ~Answering("provider", v)'
        /\ ~Runs("consumer", v)' /\ ~Runs("consumer", v)
        /\ Running(v)' /\ Runs("provider", v)'
    BY <1>1, <1>2, <1>3, ProspectsOf
       DEF Mine, Offer, Answering, Runs, At, Running
  <1>5. At(db["consumer"]) \in Prospects("consumer")
    BY ProspectsOf
  <1>6. Answering("consumer", v)' =>
          /\ next # "failed"
          /\ Theirs(v)'.offer = db["consumer"].offer
          /\ \/ Theirs(v)'.state = "TERMINATED"
             \/ next = "refusing" /\ Theirs(v)'.state = db["consumer"].state
    BY <1>1, <1>2 DEF Answering, Theirs, At, Target
  <1>7. ASSUME NEW p \in Party PROVE Covered(p)
    <2>1. At(db[p])' \in Prospects(p)
      BY <1>1, ProspectsOf DEF At
    <2>2. Runs(p, v)' => Mine(v)' \in Prospects(p)
      BY <1>2, <1>4 DEF Runs
    <2>3. Answering(p, v)' => /\ p = "consumer" /\ At(db[p]) \in Prospects(p)
                              /\ Theirs(v)'.offer = At(db[p]).offer
                              /\ Theirs(v)'.state \in {At(db[p]).state, "TERMINATED"}
      BY <1>4, <1>5, <1>6 DEF At
    <2> QED
      BY <1>2, <2>1, <2>2, <2>3, ProspectsMove DEF Covered
  <1>8. AllFit'
    BY <1>7, CoveredFit DEF Early
  <1>9. Bound'
    BY <1>1, <1>2, <1>7, BoundKept, LinkedCall DEF Early
  <1>10. next = "refusing" => db["consumer"].state \notin Open
    <2>1. SUFFICES ASSUME next = "refusing", db["consumer"].state \in Open
                   PROVE  FALSE
      OBVIOUS
    <2>2. c.kind = "offer" /\ c.copy.state = "REQUESTED"
          /\ db["consumer"].state = "ACCEPTED"
      BY <1>2, <1>3, <2>1 DEF Allowed, providerTransitions, Target, Open
    <2>3. Mine(v).state = "REQUESTED"
      BY <1>1, <2>2 DEF Mine, At
    <2>4. Fit(At(db["consumer"]), Mine(v))
      BY <1>4, <1>5 DEF Early, AllFit
    <2> QED
      BY <2>2, <2>3, <2>4 DEF Fit, At, Open
  <1>11. ASSUME NEW u \in Call, Runs("consumer", u) PROVE ConsumerCall(u)'
    <2>1. ConsumerCall(u) /\ u # v
      BY <1>4, <1>11 DEF Early
    <2> QED
      BY <1>1, <1>2, <1>4, <2>1, ConsumerCallKept DEF Runs
  <1>12. EarlyCall(v)'
    <2>1. db["consumer"].state \in EarlyState("consumer")
          /\ Absent.state \in EarlyState("consumer")
      BY DEF Early, NothingLater, EarlyState, Absent
    <2>2. EarlyCall(v)
      BY DEF Early, NothingLater
    <2> QED
      BY <1>1, <1>2, <1>3, <2>1, <2>2 DEF EarlyCall
  <1>13. ProviderCall(v)'
    <2>1. ProviderCall(v)
      BY DEF Early
    <2>2. LoadedOffer(v)' /\ SameOfferLoaded(v)'
      BY <1>1, <1>2, <2>1 DEF ProviderCall, LoadedOffer, SameOfferLoaded
    <2>3. RefusedOpen(v)'
      BY <1>1, <1>2, <1>10 DEF RefusedOpen
    <2>4. Offered(v)' /\ Agreeing(v)' /\ Binding(v)'
      BY <1>1, <1>2, <2>1 DEF ProviderCall, Offered, Agreeing, Binding
    <2> QED
      BY <2>2, <2>3, <2>4 DEF ProviderCall
  <1>14. \A p \in Party : db'[p].state \in EarlyState(p)
    BY <1>1 DEF Early, NothingLater
  <1>15. \A j \in Call : Runs("provider", j) => j = v
    BY DEF Early, OneEach
  <1> QED
    BY <1>1, <1>2, <1>4, <1>8, <1>9, <1>11, <1>12, <1>13, <1>14, <1>15,
       ProviderMove

\* While the consumer's row is open, its call has loaded it as it is.
LEMMA OpenLoaded ==
  ASSUME RequestFirst, Early, NEW u \in Call, Runs("consumer", u),
         db["consumer"].state \in Open
  PROVE  /\ call[u].kind # "requestNew"
         /\ call[u].copy.state = db["consumer"].state
         /\ call[u].copy.offer = db["consumer"].offer
  <1>1. call[u].kind # "requestNew"
    BY DEF RequestFirst, RequestInv, Runs, Running, Open, Absent
  <1>2. LoadedOpen(u)
    BY DEF Early, ConsumerCall
  <1> QED
    BY <1>1, <1>2 DEF LoadedOpen, At

\* The consumer goes on to save the provider's offer.
LEMMA ProviderOffers ==
  ASSUME OrderInv, AgreementInv, RequestFirst, Early,
         \A j \in Call : Awaited(j),
         NEW v \in Call, Runs("provider", v), Handle(v),
         HandleOutcome(v, "handling"), call[v].kind = "offer"
  PROVE  Early'
  <1> DEFINE c == call[v]
  <1>1. /\ TypeOK /\ c.by = "provider" /\ c.pc = "posted" /\ c.hpc = "sent"
        /\ UNCHANGED <<db, events>> /\ events = {} /\ Running(v)
        /\ c.kind = "offer"
    BY NoEvents DEF OrderInv, TypeInv, Runs, Handle, Awaited
  <1>2. /\ \A j \in Call : j # v => call'[j] = call[j]
        /\ call'[v].kind = c.kind /\ call'[v].by = c.by /\ call'[v].copy = c.copy
        /\ call'[v].pc = c.pc /\ call'[v].hpc = "handling"
        /\ call'[v].hcopy = db["consumer"]
        /\ Allowed("provider", db["consumer"].state, Target(c.kind))
    BY <1>1 DEF HandleOutcome, Moved
  <1>3. c.copy.state = "REQUESTED" /\ db["consumer"].state = "REQUESTED"
    BY <1>1, <1>2, EarlyProvider DEF Allowed, providerTransitions, Target
  <1>4. /\ Mine(v)' = Mine(v) /\ Mine(v) = At(c.copy)
        /\ Mine(v) \in Prospects("provider")
        /\ Theirs(v)' = [state |-> "OFFERED", offer |-> v]
        /\ ~Answering("provider", v)'
        /\ ~Runs("consumer", v)' /\ ~Runs("consumer", v)
        /\ Running(v)' /\ Runs("provider", v)'
    BY <1>1, <1>2, ProspectsOf
       DEF Mine, Theirs, Offer, Answering, Runs, At, Running, Target
  <1>5. ProviderCall(v) /\ \A j \in Call : Runs("provider", j) => j = v
    BY DEF Early, OneEach
  <1>6. db["provider"].agr = None
    <2>1. SUFFICES ASSUME db["provider"].agr # None PROVE FALSE
      OBVIOUS
    <2>2. Shut
      BY <1>3, <1>4, <2>1 DEF Early, Bound, At, Open
    <2> QED
      BY <1>3, <2>2, ProspectsOf DEF Shut, At
  <1>7. ASSUME NEW y \in Prospects("provider") PROVE y.state # "OFFERED"
    <2>1. db["provider"].state # "OFFERED"
      BY <1>3, <1>5 DEF ProviderCall, LoadedOffer, At
    <2>2. ASSUME NEW u \in Call, Answering("provider", u)
          PROVE  Theirs(u).state # "OFFERED"
      <3>1. Serving(u) /\ call[u].by = "consumer"
        BY <2>2 DEF Answering, Serving
      <3>2. Runs("consumer", u)
        BY <3>1 DEF Awaited, Runs, Running
      <3>3. RefusedOpen(u)
        BY <3>2 DEF Early, ConsumerCall
      <3>4. call[u].hpc = "handling" =>
              call[u].kind \in {"requestExisting", "accept", "terminate"}
        BY <3>1, EarlyHandler
      <3> QED
        BY <2>2, <3>1, <3>3, <3>4 DEF RefusedOpen, Answering, Theirs, At, Target
    <2>3. ASSUME NEW j \in Call, Runs("provider", j)
          PROVE  Mine(j).state # "OFFERED"
      <3>1. j = v
        BY <1>5, <2>3
      <3> QED
        BY <1>3, <1>4, <3>1 DEF At
    <2>4. At(db["provider"]).state # "OFFERED"
      BY <2>1 DEF At
    <2> QED
      BY <2>2, <2>3, <2>4, ProspectsOf
  <1>8. \A x \in Prospects("consumer")' :
          x \in Prospects("consumer") \/ x = [state |-> "OFFERED", offer |-> v]
    BY <1>1, <1>2, <1>4, ProspectsMove, ProspectsOf DEF At
  <1>9. Prospects("provider")' \subseteq Prospects("provider")
    BY <1>1, <1>2, <1>4, ProspectsMove, ProspectsOf DEF At
  <1>10. AllFit'
    BY <1>7, <1>8, <1>9 DEF Early, AllFit, Fit, Open
  <1>11. Bound'
    BY <1>1, <1>6 DEF Bound
  <1>12. ASSUME NEW u \in Call, Runs("consumer", u) PROVE ConsumerCall(u)'
    <2>1. ConsumerCall(u) /\ u # v
      BY <1>4, <1>12 DEF Early
    <2> QED
      BY <1>1, <1>2, <1>4, <2>1, ConsumerCallKept DEF Runs
  <1>13. EarlyCall(v)'
    <2>1. db["consumer"].state \in EarlyState("consumer")
      BY DEF Early, NothingLater
    <2>2. EarlyCall(v)
      BY DEF Early, NothingLater
    <2> QED
      BY <1>1, <1>2, <2>1, <2>2 DEF EarlyCall
  <1>14. ProviderCall(v)'
    <2>1. LoadedOffer(v)' /\ SameOfferLoaded(v)'
      BY <1>1, <1>2, <1>5 DEF ProviderCall, LoadedOffer, SameOfferLoaded
    <2>2. RefusedOpen(v)' /\ Agreeing(v)' /\ Binding(v)'
      BY <1>1, <1>2 DEF RefusedOpen, Agreeing, Binding
    <2>3. ASSUME NEW u \in Call, Runs("consumer", u)'
          PROVE  call'[u].kind # "requestNew" /\ call'[u].copy.state = "REQUESTED"
      <3>1. u # v /\ call'[u] = call[u] /\ Runs("consumer", u)
        BY <1>2, <1>4, <2>3 DEF Runs, Running
      <3> QED
        BY <1>3, <3>1, OpenLoaded DEF Open
    <2>4. Offered(v)'
      BY <1>1, <1>3, <1>6, <2>3 DEF Offered
    <2> QED
      BY <2>1, <2>2, <2>4 DEF ProviderCall
  <1>15. \A p \in Party : db'[p].state \in EarlyState(p)
    BY <1>1 DEF Early, NothingLater
  <1> QED
    BY <1>1, <1>2, <1>4, <1>5, <1>10, <1>11, <1>12, <1>13, <1>14, <1>15,
       ProviderMove

\* The consumer goes on to store the provider's agreement.
LEMMA ProviderAgrees ==
  ASSUME OrderInv, AgreementInv, RequestFirst, Early,
         \A j \in Call : Awaited(j),
         NEW v \in Call, Runs("provider", v), Handle(v),
         HandleOutcome(v, "storing")
  PROVE  Early'
  <1> DEFINE c == call[v]
  <1>1. /\ TypeOK /\ c.by = "provider" /\ c.pc = "posted" /\ c.hpc = "sent"
        /\ UNCHANGED <<db, events>> /\ events = {} /\ Running(v)
        /\ c.kind = "agree" /\ v # None /\ db["provider"] # Absent
    <2>1. c.pc = "posted" /\ c.hpc = "sent" /\ UNCHANGED <<db, events>>
      BY DEF Handle, Awaited
    <2>2. c.kind = "agree" /\ db["provider"] # Absent
      BY <2>1, EarlyProvider DEF HandleOutcome, Stores
    <2> QED
      BY <2>1, <2>2, NoEvents, CallAssumption DEF OrderInv, TypeInv, Runs
  <1>2. /\ \A j \in Call : j # v => call'[j] = call[j]
        /\ call'[v].kind = c.kind /\ call'[v].by = c.by /\ call'[v].copy = c.copy
        /\ call'[v].pc = c.pc /\ call'[v].hpc = "storing"
        /\ call'[v].hcopy = db["consumer"]
        /\ Allowed("provider", db["consumer"].state, Target(c.kind))
    BY <1>1 DEF HandleOutcome, Moved
  <1>3. db["consumer"].state \in Open
    BY <1>1, <1>2 DEF Allowed, providerTransitions, Target, Open
  <1>4. /\ Mine(v)' = Mine(v)
        /\ Mine(v) = [state |-> "AGREED", offer |-> c.copy.offer]
        /\ Mine(v) \in Prospects("provider")
        /\ \A p : ~Answering(p, v)'
        /\ ~Runs("consumer", v)' /\ ~Runs("consumer", v)
        /\ Running(v)' /\ Runs("provider", v)'
    BY <1>1, <1>2, ProspectsOf
       DEF Mine, Offer, Answering, Runs, At, Running, Target
  <1>5. At(db["consumer"]) \in Prospects("consumer")
    BY ProspectsOf
  <1>6. ASSUME NEW p \in Party PROVE Prospects(p)' \subseteq Prospects(p)
    <2>1. At(db[p])' \in Prospects(p)
      BY <1>1, ProspectsOf DEF At
    <2>2. Runs(p, v)' => Mine(v)' \in Prospects(p)
      BY <1>2, <1>4 DEF Runs
    <2> QED
      BY <1>2, <1>4, <2>1, <2>2, ProspectsMove
  <1>7. ASSUME NEW p \in Party PROVE Covered(p)
    BY <1>6 DEF Covered
  <1>8. AllFit'
    BY <1>7, CoveredFit DEF Early
  <1>9. Bound'
    BY <1>1, <1>2, <1>7, BoundKept, LinkedCall DEF Early
  <1>10. ASSUME NEW u \in Call, Runs("consumer", u) PROVE ConsumerCall(u)'
    <2>1. ConsumerCall(u) /\ u # v
      BY <1>4, <1>10 DEF Early
    <2> QED
      BY <1>1, <1>2, <1>4, <2>1, ConsumerCallKept DEF Runs
  <1>11. EarlyCall(v)'
    <2>1. db["consumer"].state \in EarlyState("consumer")
      BY DEF Early, NothingLater
    <2>2. EarlyCall(v)
      BY DEF Early, NothingLater
    <2> QED
      BY <1>1, <1>2, <2>1, <2>2 DEF EarlyCall
  <1>12. ProviderCall(v) /\ \A j \in Call : Runs("provider", j) => j = v
    BY DEF Early, OneEach
  <1>13. ProviderCall(v)'
    <2>1. LoadedOffer(v)' /\ SameOfferLoaded(v)'
      BY <1>1, <1>2, <1>12 DEF ProviderCall, LoadedOffer, SameOfferLoaded
    <2>2. RefusedOpen(v)' /\ Offered(v)' /\ Binding(v)'
      BY <1>1, <1>2 DEF RefusedOpen, Offered, Binding
    <2>3. db["provider"].agr = v
      BY <1>1, <1>12 DEF ProviderCall, Agreeing
    <2>4. db["consumer"].offer = c.copy.offer
      <3>1. Fit(At(db["consumer"]), Mine(v))
        BY <1>4, <1>5 DEF Early, AllFit
      <3> QED
        BY <1>3, <1>4, <3>1 DEF Fit, At
    <2>5. ASSUME NEW u \in Call, Runs("consumer", u)'
          PROVE  /\ call'[u].kind # "requestNew"
                 /\ call'[u].copy.offer = c.copy.offer
                 /\ call'[u].copy.state \in Open
      <3>1. u # v /\ call'[u] = call[u] /\ Runs("consumer", u)
        BY <1>2, <1>4, <2>5 DEF Runs, Running
      <3> QED
        BY <1>3, <2>4, <3>1, OpenLoaded
    <2>6. ASSUME NEW y \in Prospects("provider")'
          PROVE  y.state \in {"AGREED", "TERMINATED"}
      <3>1. y \in Prospects("provider")
        BY <1>6
      <3>2. y.state # "OFFERED" /\ (y.state \in Open => Shut)
        BY <1>1, <2>3, <3>1 DEF Early, Bound
      <3>3. ~Shut
        BY <1>3, <1>5 DEF Shut, At, Open
      <3> QED
        BY <1>1, <3>1, <3>2, <3>3, ProviderProspects DEF Open
    <2>7. Agreeing(v)'
      BY <1>1, <1>2, <1>3, <2>3, <2>4, <2>5, <2>6 DEF Agreeing
    <2> QED
      BY <2>1, <2>2, <2>7 DEF ProviderCall
  <1>14. \A p \in Party : db'[p].state \in EarlyState(p)
    BY <1>1 DEF Early, NothingLater
  <1> QED
    BY <1>1, <1>2, <1>4, <1>8, <1>9, <1>10, <1>11, <1>12, <1>13, <1>14,
       ProviderMove
\* The consumer's handler saves its refusal, or the end of the negotiation.
LEMMA ProviderHandlerSaves ==
  ASSUME OrderInv, AgreementInv, RequestFirst, Early,
         \A j \in Call : Awaited(j),
         NEW v \in Call, Runs("provider", v),
         \/ call[v].hpc = "refusing"
         \/ call[v].hpc = "handling" /\ call[v].kind = "terminate",
         \A j \in Call : j # v => call'[j] = call[j],
         call'[v].copy = call[v].copy, call'[v].kind = call[v].kind,
         call'[v].by = call[v].by, call'[v].pc = call[v].pc,
         call'[v].hcopy = Absent, call'[v].hpc \in {"ok", "failed"},
         call'[v].hpc = "ok" => call[v].kind = "terminate",
         NEW s \in State, NEW o, Theirs(v) = [state |-> s, offer |-> o],
         Save("consumer", s, o, None), UNCHANGED events
  PROVE  Early' /\ consumerRow'.agr = consumerRow.agr
  <1> DEFINE c == call[v]
  <1>1. /\ TypeOK /\ c.by = "provider" /\ c.pc = "posted" /\ Serving(v)
        /\ Running(v) /\ events = {} /\ Answering("consumer", v)
    BY EarlyHandler, NoEvents DEF OrderInv, TypeInv, Runs, Serving, Answering
  <1>2. /\ db'["consumer"].state = s /\ db'["consumer"].offer = o
        /\ db'["consumer"].agr = db["consumer"].agr
        /\ At(db'["consumer"]) = [state |-> s, offer |-> o]
        /\ db'["provider"] = db["provider"]
    BY <1>1, SavedRow
  <1>3. c.kind \in {"offer", "agree", "terminate"}
    BY <1>1, EarlyProvider DEF Open
  <1>4. /\ Mine(v) \in Prospects("provider")
        /\ Mine(v)'.offer = Mine(v).offer
        /\ Mine(v)'.state \in {Mine(v).state, "TERMINATED"}
        /\ \A p : ~Answering(p, v)'
        /\ ~Runs("consumer", v)' /\ ~Runs("consumer", v)
        /\ Running(v)' /\ Runs("provider", v)'
    BY <1>1, <1>3, ProspectsOf
       DEF Mine, Offer, Answering, Runs, At, Running, Target
  <1>5. Theirs(v) \in Prospects("consumer")
    BY <1>1, ProspectsOf
  <1>6. ASSUME NEW p \in Party PROVE Covered(p)
    <2>1. At(db[p])' \in Prospects(p)
      BY <1>2, <1>5, ProspectsOf DEF At
    <2>2. Runs(p, v)' => p = "provider"
      BY <1>4
    <2> QED
      BY <1>4, <2>1, <2>2, ProspectsMove DEF Covered
  <1>7. AllFit'
    BY <1>6, CoveredFit DEF Early
  <1>8. Bound'
    BY <1>2, <1>6, BoundKept, LinkedCall DEF Early
  <1>9. /\ ProviderCall(v)
        /\ s \notin Open
    BY <1>1 DEF Early, ProviderCall, RefusedOpen, Theirs, At, Target, Open
  <1>10. ASSUME NEW u \in Call, Runs("consumer", u) PROVE ConsumerCall(u)'
    <2>1. ConsumerCall(u) /\ u # v /\ call'[u] = call[u]
      BY <1>4, <1>10 DEF Early
    <2>2. \A j \in Call : /\ Runs("provider", j)' => Runs("provider", j)
                          /\ call'[j].copy = call[j].copy
      BY <1>1 DEF Runs, Running
    <2>3. LoadedOpen(u)' /\ RefusedOpen(u)'
      BY <1>2, <1>9, <2>1 DEF ConsumerCall, LoadedOpen, RefusedOpen
    <2>4. Answer(u)'
      BY <1>2, <2>1, <2>2 DEF ConsumerCall, Answer
    <2>5. SameOffer(u)'
      BY <1>2, <2>1, <2>2 DEF ConsumerCall, SameOffer, Serving
    <2> QED
      BY <2>3, <2>4, <2>5 DEF ConsumerCall
  <1>11. EarlyCall(v)'
    <2>1. EarlyCall(v) /\ Absent.state \in EarlyState("consumer")
      BY DEF Early, NothingLater, EarlyState, Absent
    <2> QED
      BY <1>1, <1>3, <2>1 DEF EarlyCall
  <1>12. ProviderCall(v)'
    <2>1. LoadedOffer(v)' /\ SameOfferLoaded(v)'
      BY <1>2, <1>9 DEF ProviderCall, LoadedOffer, SameOfferLoaded
    <2>2. RefusedOpen(v)' /\ Offered(v)' /\ Agreeing(v)' /\ Binding(v)'
      BY <1>1, <1>2, <1>9
         DEF ProviderCall, RefusedOpen, Offered, Agreeing, Binding
    <2> QED
      BY <2>1, <2>2 DEF ProviderCall
  <1>13. s \in EarlyState("consumer")
    <2>1. c.hcopy.state \in EarlyState("consumer")
      BY <1>1, EarlyHandler
    <2>2. s = c.hcopy.state \/ s = "TERMINATED"
      BY <1>1 DEF Theirs, At, Target
    <2> QED
      BY <2>1, <2>2 DEF EarlyState
  <1>14. \A p \in Party : db'[p].state \in EarlyState(p)
    BY <1>2, <1>13 DEF Early, NothingLater
  <1>15. \A j \in Call : Runs("provider", j) => j = v
    BY DEF Early, OneEach
  <1>16. Early'
    BY <1>1, <1>4, <1>7, <1>8, <1>10, <1>11, <1>12, <1>14, <1>15, ProviderMove
  <1> QED
    BY <1>2, <1>16

\* The consumer has stored the agreement and goes on to save it.
LEMMA ProviderStored ==
  ASSUME OrderInv, AgreementInv, RequestFirst, Early,
         \A j \in Call : Awaited(j),
         NEW v \in Call, Runs("provider", v), StoreRemoteAgreement(v)
  PROVE  Early'
  <1> DEFINE c == call[v]
  <1>1. /\ TypeOK /\ c.by = "provider" /\ c.pc = "posted" /\ c.hpc = "storing"
        /\ c.kind = "agree" /\ Serving(v) /\ Running(v) /\ events = {}
        /\ UNCHANGED <<db, events>> /\ v # None
    <2>1. c.hpc = "storing" /\ UNCHANGED <<db, events>> /\ Serving(v)
      BY DEF StoreRemoteAgreement, Serving
    <2> QED
      BY <2>1, EarlyHandler, NoEvents, CallAssumption
         DEF OrderInv, TypeInv, Runs
  <1>2. /\ \A j \in Call : j # v => call'[j] = call[j]
        /\ call'[v].kind = c.kind /\ call'[v].by = c.by /\ call'[v].copy = c.copy
        /\ call'[v].pc = c.pc /\ call'[v].hpc = "handling"
        /\ call'[v].hcopy = c.hcopy
    BY <1>1, StoreRemoteAgreementMoves DEF Moved
  <1>3. /\ Mine(v)' = Mine(v) /\ Mine(v) \in Prospects("provider")
        /\ Theirs(v)'.state = "AGREED"
        /\ ~Answering("provider", v)'
        /\ ~Runs("consumer", v)' /\ ~Runs("consumer", v)
        /\ Running(v)' /\ Runs("provider", v)'
    BY <1>1, <1>2, ProspectsOf
       DEF Mine, Theirs, Offer, Answering, Runs, At, Running, Target
  <1>4. Prospects("provider")' \subseteq Prospects("provider")
    BY <1>1, <1>2, <1>3, ProspectsMove, ProspectsOf DEF At
  <1>5. \A x \in Prospects("consumer")' :
          x \in Prospects("consumer") \/ x.state = "AGREED"
    BY <1>1, <1>2, <1>3, ProspectsMove, ProspectsOf DEF At
  <1>6. AllFit'
    BY <1>4, <1>5 DEF Early, AllFit, Fit, Open
  <1>7. ProviderCall(v) /\ \A j \in Call : Runs("provider", j) => j = v
    BY DEF Early, OneEach
  <1>8. /\ db["provider"].agr = v
        /\ \A y \in Prospects("provider") : y.state \in {"AGREED", "TERMINATED"}
    BY <1>1, <1>7 DEF ProviderCall, Agreeing
  <1>9. Bound'
    <2>1. \A y \in Prospects("provider")' :
            /\ y.offer = c.copy.offer /\ y.state # "OFFERED" /\ y.state \notin Open
      BY <1>1, <1>4, <1>8 DEF Early, Bound, Open
    <2> QED
      BY <1>1, <1>2, <1>8, <2>1 DEF Bound
  <1>10. ASSUME NEW u \in Call, Runs("consumer", u) PROVE ConsumerCall(u)'
    <2>1. ConsumerCall(u) /\ u # v
      BY <1>3, <1>10 DEF Early
    <2> QED
      BY <1>1, <1>2, <1>3, <2>1, ConsumerCallKept DEF Runs
  <1>11. EarlyCall(v)'
    <2>1. EarlyCall(v)
      BY DEF Early, NothingLater
    <2> QED
      BY <1>1, <1>2, <2>1 DEF EarlyCall
  <1>12. ProviderCall(v)'
    <2>1. LoadedOffer(v)' /\ SameOfferLoaded(v)'
      BY <1>1, <1>2, <1>7 DEF ProviderCall, LoadedOffer, SameOfferLoaded
    <2>2. RefusedOpen(v)' /\ Offered(v)' /\ Binding(v)'
      BY <1>1, <1>2 DEF RefusedOpen, Offered, Binding
    <2>3. \A j \in Call : Runs("consumer", j)' =>
            Runs("consumer", j) /\ call'[j] = call[j]
      BY <1>2, <1>3 DEF Runs, Running
    <2>4. \A y \in Prospects("provider")' : y.state \in {"AGREED", "TERMINATED"}
      BY <1>4, <1>8
    <2>5. Agreeing(v)'
      BY <1>1, <1>2, <1>7, <2>3, <2>4 DEF ProviderCall, Agreeing
    <2> QED
      BY <2>1, <2>2, <2>5 DEF ProviderCall
  <1>13. \A p \in Party : db'[p].state \in EarlyState(p)
    BY <1>1 DEF Early, NothingLater
  <1> QED
    BY <1>1, <1>2, <1>3, <1>6, <1>7, <1>9, <1>10, <1>11, <1>12, <1>13,
       ProviderMove

\* The consumer's handler saves the provider's offer.
LEMMA ProviderOffered ==
  ASSUME OrderInv, AgreementInv, RequestFirst, Early,
         \A j \in Call : Awaited(j),
         NEW v \in Call, Runs("provider", v),
         call[v].hpc = "handling", call[v].kind = "offer",
         \A j \in Call : j # v => call'[j] = call[j],
         call'[v].copy = call[v].copy, call'[v].kind = call[v].kind,
         call'[v].by = call[v].by, call'[v].pc = call[v].pc,
         call'[v].hcopy = Absent, call'[v].hpc = "ok",
         Save("consumer", "OFFERED", v, None), UNCHANGED events
  PROVE  Early' /\ consumerRow'.agr = consumerRow.agr
  <1> DEFINE c == call[v]
  <1>1. /\ TypeOK /\ c.by = "provider" /\ c.pc = "posted" /\ Serving(v)
        /\ Running(v) /\ events = {} /\ Answering("consumer", v)
    BY EarlyHandler, NoEvents DEF OrderInv, TypeInv, Runs, Serving, Answering
  <1>2. /\ db'["consumer"].state = "OFFERED" /\ db'["consumer"].offer = v
        /\ db'["consumer"].agr = db["consumer"].agr
        /\ At(db'["consumer"]) = [state |-> "OFFERED", offer |-> v]
        /\ db'["provider"] = db["provider"]
    BY <1>1, SavedRow DEF State
  <1>3. ProviderCall(v) /\ \A j \in Call : Runs("provider", j) => j = v
    BY DEF Early, OneEach
  <1>4. /\ db["provider"].agr = None
        /\ \A u \in Call : Runs("consumer", u) =>
             /\ call[u].kind # "requestNew"
             /\ call[u].copy.state \in {"REQUESTED", "TERMINATED"}
    BY <1>3 DEF ProviderCall, Offered
  <1>5. /\ Mine(v)' = [state |-> "OFFERED", offer |-> v]
        /\ \A p : ~Answering(p, v)'
        /\ ~Runs("consumer", v)' /\ ~Runs("consumer", v)
        /\ Running(v)' /\ Runs("provider", v)'
    BY <1>1 DEF Mine, Offer, Answering, Runs, Running, Target
  <1>6. /\ Theirs(v) = [state |-> "OFFERED", offer |-> v]
        /\ Theirs(v) \in Prospects("consumer")
    BY <1>1, ProspectsOf DEF Theirs, Target
  <1>7. Prospects("consumer")' \subseteq Prospects("consumer")
    BY <1>2, <1>5, <1>6, ProspectsMove, ProspectsOf DEF At
  <1>8. \A y \in Prospects("provider")' :
          y \in Prospects("provider") \/ y = [state |-> "OFFERED", offer |-> v]
    BY <1>2, <1>5, ProspectsMove, ProspectsOf DEF At
  <1>9. ASSUME NEW x \in Prospects("consumer")', x.state = "OFFERED"
        PROVE  x.offer = v
    <2>1. ASSUME NEW u \in Call, Runs("consumer", u)', x = Mine(u)' PROVE FALSE
      <3>1. u # v /\ call'[u] = call[u] /\ Runs("consumer", u)
        BY <1>5, <2>1 DEF Runs, Running
      <3>2. \/ call[u].pc = "refusing" \/ call[u].kind = "terminate"
        BY <1>4, <3>1, EarlyConsumer
      <3> QED
        BY <1>4, <1>9, <2>1, <3>1, <3>2 DEF Mine, At, Target
    <2>2. ASSUME NEW j \in Call, Answering("consumer", j)' PROVE FALSE
      <3>1. j # v
        BY <1>5, <2>2
      <3>2. Serving(j) /\ call[j].by = "provider"
        BY <2>2, <3>1 DEF Answering, Serving
      <3> QED
        BY <1>3, <3>1, <3>2 DEF Awaited, Runs, Running
    <2> QED
      BY <1>2, <2>1, <2>2, ProspectsNext
  <1>10. AllFit'
    BY <1>7, <1>8, <1>9 DEF Early, AllFit, Fit, Open
  <1>11. Bound'
    BY <1>2, <1>4 DEF Bound
  <1>12. ASSUME NEW u \in Call, Runs("consumer", u) PROVE ConsumerCall(u)'
    <2>1. ConsumerCall(u) /\ u # v /\ call'[u] = call[u]
      BY <1>5, <1>12 DEF Early
    <2>2. \A j \in Call : /\ Runs("provider", j)' => Runs("provider", j)
                          /\ call'[j].copy = call[j].copy
      BY <1>1 DEF Runs, Running
    <2>3. LoadedOpen(u)' /\ RefusedOpen(u)'
      BY <1>2, <2>1 DEF ConsumerCall, LoadedOpen, RefusedOpen, Open
    <2>4. Answer(u)'
      BY <1>2, <2>1, <2>2 DEF ConsumerCall, Answer
    <2>5. SameOffer(u)'
      BY <1>2, <2>1, <2>2 DEF ConsumerCall, SameOffer, Serving
    <2> QED
      BY <2>3, <2>4, <2>5 DEF ConsumerCall
  <1>13. EarlyCall(v)'
    <2>1. EarlyCall(v) /\ Absent.state \in EarlyState("consumer")
      BY DEF Early, NothingLater, EarlyState, Absent
    <2> QED
      BY <1>1, <2>1 DEF EarlyCall
  <1>14. ProviderCall(v)'
    BY <1>1, <1>2, <1>3
       DEF ProviderCall, LoadedOffer, SameOfferLoaded, RefusedOpen, Offered,
           Agreeing, Binding
  <1>15. \A p \in Party : db'[p].state \in EarlyState(p)
    BY <1>2 DEF Early, NothingLater, EarlyState
  <1>16. Early'
    BY <1>1, <1>3, <1>5, <1>10, <1>11, <1>12, <1>13, <1>14, <1>15, ProviderMove
  <1> QED
    BY <1>2, <1>16

\* The consumer's handler saves the provider's agreement.
LEMMA ProviderAgreed ==
  ASSUME OrderInv, AgreementInv, RequestFirst, Early,
         \A j \in Call : Awaited(j),
         NEW v \in Call, Runs("provider", v),
         call[v].hpc = "handling", call[v].kind = "agree",
         \A j \in Call : j # v => call'[j] = call[j],
         call'[v].copy = call[v].copy, call'[v].kind = call[v].kind,
         call'[v].by = call[v].by, call'[v].pc = call[v].pc,
         call'[v].hcopy = Absent, call'[v].hpc = "ok",
         Save("consumer", "AGREED", call[v].hcopy.offer, v)
  PROVE  LateWith(v)'
  <1> DEFINE c == call[v]
  <1>0. PICK o : o = c.copy.offer
    OBVIOUS
  <1>1. /\ TypeOK /\ c.by = "provider" /\ c.pc = "posted" /\ Serving(v)
        /\ Running(v) /\ v # None /\ db["provider"] # Absent
    BY EarlyHandler, CallAssumption DEF OrderInv, TypeInv, Runs, Serving
  <1>2. ProviderCall(v) /\ \A j \in Call : Runs("provider", j) => j = v
    BY DEF Early, OneEach
  <1>3. /\ db["provider"].agr = v /\ c.hcopy.offer = o
        /\ \A u \in Call : Runs("consumer", u) =>
             /\ call[u].kind # "requestNew" /\ call[u].copy.offer = o
             /\ call[u].copy.state \in Open \cup {"TERMINATED"}
        /\ \A y \in Prospects("provider") : y.state \in {"AGREED", "TERMINATED"}
    BY <1>0, <1>1, <1>2 DEF ProviderCall, Agreeing
  <1>4. \A y \in Prospects("provider") : y.offer = o
    BY <1>0, <1>1, <1>3 DEF Early, Bound
  <1>5. /\ db'["consumer"].state = "AGREED" /\ db'["consumer"].offer = o
        /\ db'["consumer"].agr = v
        /\ db'["provider"] = db["provider"]
    <2>1. Save("consumer", "AGREED", o, v) /\ "AGREED" \in State
      BY <1>3 DEF State
    <2>2. /\ db'["consumer"].state = "AGREED" /\ db'["consumer"].offer = o
          /\ db'["consumer"].agr = IF v = None THEN db["consumer"].agr ELSE v
          /\ \A q \in Party : q # "consumer" => db'[q] = db[q]
      BY <1>1, <2>1 DEF Save, TypeOK
    <2> QED
      BY <1>1, <2>2
  <1>6. db["provider"].offer = o /\ db["provider"].state \in {"AGREED", "TERMINATED"}
    BY <1>3, <1>4, ProspectsOf DEF At
  <1>7. LateCall(v, v)'
    BY <1>1 DEF LateCall, Running, Runs, Serving
  <1>8. ASSUME NEW u \in Call, Runs("consumer", u), call'[u] = call[u],
               call'[v].copy = c.copy
        PROVE  LateCall(u, v)'
    <2>1. /\ call[u].kind # "requestNew" /\ call[u].copy.offer = o
          /\ call[u].copy.state # "OFFERED" /\ call[u].by = "consumer"
      BY <1>3, <1>8 DEF Open, Runs
    <2>2. ASSUME Serving(u)
          PROVE  /\ call[u].hcopy.offer = o
                 /\ call[u].hpc = "refusing" =>
                      call[u].hcopy.state \in {"AGREED", "TERMINATED"}
      <3>1. /\ Answering("provider", u)
            /\ call[u].hpc = "handling" =>
                 call[u].kind \in {"requestExisting", "accept", "terminate"}
        BY <2>1, <2>2, EarlyHandler DEF Answering, Serving
      <3>2. Theirs(u).offer = o /\ Theirs(u).state \in {"AGREED", "TERMINATED"}
        BY <1>3, <1>4, <3>1, ProspectsOf
      <3> QED
        BY <3>1, <3>2 DEF Answering, Theirs, At, Target
    <2> QED
      BY <1>0, <1>8, <2>1, <2>2 DEF LateCall, Running, Runs, Serving, LateState
  <1>9. ASSUME NEW i \in Call PROVE LateCall(i, v)'
    <2>1. CASE i = v
      BY <1>7, <2>1
    <2>2. CASE Runs("consumer", i)
      BY <1>1, <1>8, <2>2 DEF Runs
    <2>3. CASE i # v /\ ~Runs("consumer", i)
      <3>1. call[i].by \in Party
        BY DEF OrderInv, TypeInv, TypeOK, CallType
      <3>2. ~Running(i)
        BY <1>2, <2>3, <3>1 DEF Runs
      <3>3. ~Serving(i)
        BY <3>2 DEF Awaited, Running
      <3> QED
        BY <2>3, <3>2, <3>3 DEF LateCall, Running, Runs, Serving
    <2> QED
      BY <2>1, <2>2, <2>3
  <1>10. Late(v)'
    BY <1>0, <1>3, <1>5, <1>6, <1>9 DEF Late, LateState
  <1> QED
    BY <1>5, <1>10 DEF LateWith
\* A call of the provider's begins.
LEMMA ProviderBegins ==
  ASSUME OrderInv, AgreementInv, RequestFirst, Early,
         \A j \in Call : Awaited(j),
         NEW v \in Call, call[v].pc = "idle", NEW k \in KindsOf("provider"),
         Began(v, "provider", k), UNCHANGED db, events' = {},
         \A j \in Call : ~Runs("provider", j)
  PROVE  Early'
  <1>1. /\ TypeOK /\ call[v].kind = "none"
        /\ k \in {"offer", "agree", "finalize", "terminate"}
    BY DEF OrderInv, TypeInv, CallOrder, ByRole, KindsOf
  <1>2. /\ \A j \in Call : j # v => call'[j] = call[j]
        /\ call'[v].kind = k /\ call'[v].by = "provider"
        /\ call'[v].copy = db["provider"] /\ call'[v].hcopy = Absent
        /\ call'[v].hpc \in {"sent", "none"}
        /\ call'[v].pc \in {"posted", "refusing", "storing"}
        /\ k = "finalize" => call'[v].pc = "refusing"
        /\ k = "agree" => call'[v].pc # "posted"
        /\ call'[v].pc # "refusing" =>
             Allowed("provider", db["provider"].state, Target(k))
    <2>1. db["provider"].state # "VERIFIED"
      BY DEF Early, NothingLater, EarlyState
    <2>2. k = "finalize" => ~Allowed("provider", db["provider"].state, Target(k))
      BY <1>1, <2>1 DEF Allowed, providerTransitions, Target
    <2> QED
      BY <1>1, <2>2 DEF Began, SavesFirst, Stores
  <1>3. /\ \A p : ~Answering(p, v)'
        /\ ~Runs("consumer", v)' /\ ~Runs("consumer", v)
        /\ Running(v)' /\ Runs("provider", v)'
        /\ Mine(v)'.offer = db["provider"].offer
        /\ \/ Mine(v)' = At(db["provider"])
           \/ /\ Mine(v)'.state = "AGREED" /\ db["provider"].state \in Open
              /\ k = "agree"
    BY <1>1, <1>2
       DEF Mine, Offer, Answering, Runs, At, Running, Target, Allowed,
           providerTransitions, Open
  <1>4. At(db["provider"]) \in Prospects("provider")
    BY ProspectsOf
  <1>5. Prospects("consumer")' \subseteq Prospects("consumer")
    BY <1>2, <1>3, ProspectsMove, ProspectsOf DEF At, Runs
  <1>6. \A y \in Prospects("provider")' :
          y \in Prospects("provider") \/ y = Mine(v)'
    BY <1>2, <1>3, <1>4, ProspectsMove DEF At
  <1>7. ASSUME NEW x \in Prospects("consumer")', NEW y \in Prospects("provider")'
        PROVE  Fit(x, y)
    <2>1. Fit(x, At(db["provider"]))
      BY <1>4, <1>5 DEF Early, AllFit
    <2>2. CASE y \in Prospects("provider")
      BY <1>5, <2>2 DEF Early, AllFit
    <2>3. CASE y = Mine(v)' /\ Mine(v)' # At(db["provider"])
      BY <1>3, <2>1, <2>3 DEF Fit, At, Open
    <2> QED
      BY <1>4, <1>6, <2>2, <2>3
  <1>8. AllFit'
    BY <1>7 DEF AllFit
  <1>9. Shut => Shut'
    BY <1>5 DEF Shut
  <1>10. Bound'
    <2>1. SUFFICES ASSUME db["provider"].agr # None, NEW y \in Prospects("provider")'
                   PROVE  /\ y.offer = call'[db["provider"].agr].copy.offer
                          /\ y.state # "OFFERED" /\ (y.state \in Open => Shut')
      BY DEF Bound
    <2>2. /\ db["provider"].agr \in Call
          /\ call'[db["provider"].agr] = call[db["provider"].agr]
      BY <1>1, <1>2, <2>1, LinkedCall
    <2>3. \A z \in Prospects("provider") :
            /\ z.offer = call[db["provider"].agr].copy.offer
            /\ z.state # "OFFERED" /\ (z.state \in Open => Shut)
      BY <2>1 DEF Early, Bound
    <2>4. CASE y \in Prospects("provider")
      BY <1>9, <2>2, <2>3, <2>4
    <2>5. CASE y = Mine(v)' /\ Mine(v)' # At(db["provider"])
      BY <1>3, <1>4, <2>2, <2>3, <2>5 DEF At, Open
    <2> QED
      BY <1>4, <1>6, <2>4, <2>5
  <1>11. ASSUME NEW u \in Call, Runs("consumer", u) PROVE ConsumerCall(u)'
    <2>1. ConsumerCall(u) /\ u # v /\ call'[u] = call[u]
      BY <1>2, <1>3, <1>11 DEF Early
    <2>2. \A j \in Call : Runs("provider", j)' =>
            call'[j].copy = db["provider"]
      BY <1>2 DEF Runs, Running
    <2>3. LoadedOpen(u)' /\ RefusedOpen(u)'
      BY <2>1 DEF ConsumerCall, LoadedOpen, RefusedOpen
    <2>4. Answer(u)'
      BY <2>1, <2>2 DEF ConsumerCall, Answer
    <2>5. SameOffer(u)'
      BY <2>1, <2>2 DEF ConsumerCall, SameOffer, Serving
    <2> QED
      BY <2>3, <2>4, <2>5 DEF ConsumerCall
  <1>12. EarlyCall(v)'
    <2>1. db["provider"].state \in EarlyState("provider")
          /\ Absent.state \in EarlyState("consumer")
      BY DEF Early, NothingLater, EarlyState, Absent
    <2> QED
      BY <1>1, <1>2, <2>1 DEF EarlyCall
  <1>13. ASSUME NEW u \in Call, Answering("provider", u),
                db["provider"].state \in Open
         PROVE  /\ Theirs(u).offer = db["provider"].offer
                /\ Theirs(u).state # "OFFERED" /\ (Theirs(u).state \in Open => Shut)
    <2>1. Serving(u) /\ call[u].by = "consumer" /\ call[u].pc = "posted"
          /\ Runs("consumer", u)
      BY <1>13 DEF Answering, Serving, Awaited, Runs, Running
    <2>2. ConsumerCall(u)
      BY <2>1 DEF Early
    <2>3. call[u].hcopy.offer = db["provider"].offer
      BY <1>13, <2>1, <2>2 DEF ConsumerCall, SameOffer
    <2>4. call[u].hpc = "handling" => call[u].kind = "terminate"
      <3>1. call[u].hpc = "handling" =>
              call[u].kind \in {"requestExisting", "accept", "terminate"}
        BY <2>1, EarlyHandler
      <3> QED
        BY <1>13, <2>2, <3>1 DEF ConsumerCall, Answer, Open
    <2>5. Theirs(u).offer = db["provider"].offer
      BY <1>13, <2>3, <2>4 DEF Answering, Theirs, At
    <2>6. call[u].hpc = "refusing" =>
            /\ Theirs(u).state = call[u].hcopy.state
            /\ call[u].hcopy.state # "OFFERED"
            /\ ~Allowed("consumer", call[u].hcopy.state, Target(call[u].kind))
      BY <2>1, <2>2 DEF ConsumerCall, RefusedOpen, Theirs, At
    <2>7. call[u].hpc = "handling" => Theirs(u).state = "TERMINATED"
      BY <2>4 DEF Theirs, Target
    <2>8. Theirs(u).state # "OFFERED"
      BY <1>13, <2>6, <2>7 DEF Answering
    <2>9. ASSUME Theirs(u).state \in Open PROVE Shut
      <3>1. call[u].hpc = "refusing"
        BY <1>13, <2>7, <2>9 DEF Answering, Open
      <3>2. Theirs(u) \in Prospects("provider")
        BY <1>13, ProspectsOf
      <3>3. \A j \in Call : ~Answering("consumer", j)
        BY DEF Answering, Awaited, Serving, Runs, Running
      <3>4. call[u].kind # "requestNew"
        BY <2>1, HandlerRow
      <3> QED
        BY <2>1, <2>6, <2>9, <3>1, <3>2, <3>3, <3>4, RefusedShut
    <2> QED
      BY <2>5, <2>8, <2>9
  <1>14. ProviderCall(v)'
    <2>1. LoadedOffer(v)' /\ SameOfferLoaded(v)'
      BY <1>2 DEF LoadedOffer, SameOfferLoaded, At
    <2>2. RefusedOpen(v)' /\ Offered(v)' /\ Agreeing(v)'
      BY <1>2 DEF RefusedOpen, Offered, Agreeing
    <2>3. Binding(v)'
      <3>1. SUFFICES ASSUME k = "agree", call'[v].pc \in {"storing", "recording"}
                     PROVE  Binding(v)'
        BY <1>2 DEF Binding
      <3>2. db["provider"].state \in Open
        BY <1>2, <3>1 DEF Allowed, providerTransitions, Target, Open
      <3>3. ASSUME NEW u \in Call, Answering("provider", u)'
            PROVE  Answering("provider", u) /\ Theirs(u)' = Theirs(u)
        <4>1. u # v
          BY <1>3, <3>3
        <4> QED
          BY <1>2, <3>3, <4>1 DEF Answering, Theirs, At
      <3>4. \A u \in Call : Runs("provider", u)' => u = v
        BY <1>2 DEF Runs, Running
      <3>5. \A y \in Prospects("provider")' : y.offer = db["provider"].offer
        <4>1. At(db'["provider"]).offer = db["provider"].offer
          BY DEF At
        <4>2. \A u \in Call : Answering("provider", u)' =>
                Theirs(u)'.offer = db["provider"].offer
          BY <1>13, <3>2, <3>3
        <4> QED
          BY <1>3, <3>4, <4>1, <4>2, ProspectsNext
      <3>6. \A u \in Call : Answering("provider", u)' =>
              /\ Theirs(u)'.state # "OFFERED"
              /\ Theirs(u)'.state \in Open => Shut'
        BY <1>9, <1>13, <3>2, <3>3
      <3> QED
        BY <1>2, <3>2, <3>5, <3>6 DEF Binding, Open
    <2> QED
      BY <2>1, <2>2, <2>3 DEF ProviderCall
  <1>15. \A p \in Party : db'[p].state \in EarlyState(p)
    BY DEF Early, NothingLater
  <1> QED
    BY <1>2, <1>3, <1>8, <1>10, <1>11, <1>12, <1>14, <1>15, ProviderMove
----------------------------------------------------------------------------
(* SerialInv is inductive.                                                  *)

\* A step of a call of the consumer's, until the consumer has an agreement.
LEMMA ConsumerProgress ==
  ASSUME OrderInv, AgreementInv, RequestFirst, Early,
         \A j \in Call : Awaited(j),
         NEW u \in Call, Runs("consumer", u), Progress(u)
  PROVE  Early' /\ consumerRow'.agr = consumerRow.agr
  <1> DEFINE c == call[u]
  <1>1. /\ TypeOK /\ c.by = "consumer" /\ Running(u) /\ RequestInv(u)
        /\ \A j \in Call : j # u => call'[j] = call[j]
        /\ call'[u].kind = c.kind /\ call'[u].by = c.by /\ call'[u].copy = c.copy
    BY ProgressAwaited DEF OrderInv, TypeInv, Runs, RequestFirst
  <1>2. /\ c.kind \in {"requestNew", "requestExisting", "accept", "terminate",
                       "verify"}
        /\ c.kind # "requestNew" /\ c.pc # "refusing" =>
             \/ c.kind \in {"requestExisting", "accept"} /\ c.copy.state = "OFFERED"
             \/ c.kind = "terminate" /\ c.copy.state \in {"REQUESTED", "OFFERED"}
        /\ c.pc \in {"refusing", "posted", "saving"}
    BY EarlyConsumer
  <1>3. CASE SaveRefusal(u)
    <2>1. /\ c.pc = "refusing" /\ c.hpc = "none" /\ c.kind # "requestNew"
          /\ Save("consumer", c.copy.state, c.copy.offer, None)
          /\ UNCHANGED events
      BY <1>1, <1>3 DEF SaveRefusal, Awaited, RequestInv
    <2>2. call'[u].hpc = c.hpc /\ ~Running(u)'
      BY <1>1, <1>3, SaveRefusalMoves DEF Moved, Running
    <2>3. /\ c.copy.state \in seen["consumer"]
      BY <1>1, <2>1, CallerRow
    <2>4. c.copy.state \in State /\ c.copy.state \in EarlyState("consumer")
      BY <1>1, <2>3 DEF TypeOK, Early, NothingLater, EarlyCall
    <2>5. Mine(u) = [state |-> c.copy.state, offer |-> c.copy.offer]
      BY <2>1 DEF Mine, At
    <2> QED
      BY <1>1, <2>1, <2>2, <2>4, <2>5, ConsumerSaves DEF Serving
  <1>4. CASE Reply(u)
    <2>1. UNCHANGED db
      BY <1>4 DEF Reply
    <2> QED
      BY <1>4, <2>1, ConsumerReply
  <1>5. CASE SaveAfterReply(u)
    <2>1. /\ c.pc = "saving" /\ c.hpc = "ok" /\ UNCHANGED events
          /\ Save("consumer", Target(c.kind), Offer(u), Link(u))
      BY <1>1, <1>5 DEF SaveAfterReply, Awaited
    <2>2. /\ c.kind \in {"requestNew", "requestExisting", "accept", "terminate"}
          /\ c.kind \in {"requestExisting", "accept"} => c.copy.state = "OFFERED"
      BY <1>2, <2>1
    <2>3. Link(u) = None
      BY <2>2 DEF Link, Stores
    <2>4. call'[u].hpc = c.hpc /\ ~Running(u)'
      BY <1>1, <1>5, SaveAfterReplyMoves DEF Moved, Running
    <2>5. /\ Target(c.kind) \in State /\ Target(c.kind) \in EarlyState("consumer")
          /\ c.kind = "terminate" => /\ Target(c.kind) = "TERMINATED"
                                     /\ Offer(u) = c.copy.offer
      BY <2>2 DEF Target, State, EarlyState, Offer
    <2>6. Mine(u) = [state |-> Target(c.kind), offer |-> Offer(u)]
      BY <2>1 DEF Mine
    <2>7. \/ c.kind = "requestNew" \/ c.copy.state = "OFFERED"
          \/ /\ Target(c.kind) \in {c.copy.state, "TERMINATED"}
             /\ Offer(u) = c.copy.offer
      BY <2>2, <2>5
    <2> QED
      BY <1>1, <2>1, <2>3, <2>4, <2>5, <2>6, <2>7, ConsumerSaves DEF Serving
  <1>6. CASE HandleNewRequest(u)
    <2>1. db'["consumer"] = db["consumer"]
      BY <1>1, <1>6 DEF HandleNewRequest, Save, TypeOK
    <2> QED
      BY <1>6, <2>1, ConsumerRequested
  <1>7. CASE Handle(u)
    <2>1. UNCHANGED db
      BY <1>7 DEF Handle
    <2>2. PICK next \in {"failed", "refusing", "storing", "handling"} :
            HandleOutcome(u, next)
      BY <1>1, <1>7, HandleMoves
    <2>3. next # "storing"
      BY <1>2, <2>2 DEF HandleOutcome, Stores
    <2>4. CASE next = "handling" /\ c.kind # "terminate"
      BY <1>7, <2>1, <2>2, <2>4, ConsumerAnswers
    <2>5. CASE next \in {"failed", "refusing"} \/ c.kind = "terminate"
      BY <1>7, <2>1, <2>2, <2>3, <2>5, ConsumerHandledQuietly
    <2> QED
      BY <2>3, <2>4, <2>5
  <1>8. CASE SaveRemoteRefusal(u)
    <2>1. /\ c.hpc = "refusing" /\ Serving(u) /\ UNCHANGED events
          /\ Save("provider", c.hcopy.state, c.hcopy.offer, None)
      BY <1>1, <1>8 DEF SaveRemoteRefusal, Serving
    <2>2. call'[u].pc = c.pc /\ call'[u].hpc = "failed" /\ call'[u].hcopy = Absent
      BY <1>1, <1>8, SaveRemoteRefusalMoves DEF Moved
    <2>3. c.hcopy.state \in State
      BY <2>1, EarlyHandler
    <2>4. Theirs(u) = [state |-> c.hcopy.state, offer |-> c.hcopy.offer]
      BY <2>1 DEF Theirs, At
    <2>5. db'["consumer"] = db["consumer"]
      BY <1>1, <2>1 DEF Save, TypeOK
    <2> QED
      BY <1>1, <2>1, <2>2, <2>3, <2>4, <2>5, ConsumerHandlerSaves
  <1>9. CASE SaveHandled(u)
    <2>1. /\ c.hpc = "handling" /\ Serving(u)
          /\ Save("provider", Target(c.kind),
                  IF c.kind \in {"requestExisting", "offer"} THEN Offer(u)
                                                             ELSE c.hcopy.offer,
                  IF c.kind = "agree" THEN Agreement(u) ELSE None)
          /\ Emit(u)
      BY <1>1, <1>9 DEF SaveHandled, Serving
    <2>2. c.kind \in {"requestExisting", "accept", "terminate"}
      BY <1>1, <2>1, EarlyHandler
    <2>3. UNCHANGED events
      BY <2>1, <2>2 DEF Emit, Emitting
    <2>4. call'[u].pc = c.pc /\ call'[u].hpc = "ok" /\ call'[u].hcopy = Absent
      BY <1>1, <1>9, SaveHandledMoves DEF Moved
    <2>5. PICK o : o = IF c.kind = "requestExisting" THEN u ELSE c.hcopy.offer
      OBVIOUS
    <2>6. Save("provider", Target(c.kind), o, None)
      BY <2>1, <2>2, <2>5 DEF Offer
    <2>7. Theirs(u) = [state |-> Target(c.kind), offer |-> o]
      BY <2>1, <2>2, <2>5 DEF Theirs
    <2>8. Target(c.kind) \in State
      BY <2>2 DEF Target, State
    <2>9. db'["consumer"] = db["consumer"]
      BY <1>1, <2>6 DEF Save, TypeOK
    <2>10. CASE c.kind = "terminate"
      BY <1>1, <2>1, <2>3, <2>4, <2>6, <2>7, <2>8, <2>9, <2>10,
         ConsumerHandlerSaves
    <2>11. CASE c.kind \in {"requestExisting", "accept"}
      BY <1>1, <2>1, <2>3, <2>4, <2>6, <2>7, <2>8, <2>9, <2>11, ConsumerAnswered
    <2> QED
      BY <2>2, <2>10, <2>11
  <1>10. ~StoreAgreement(u) /\ ~RecordThenPost(u)
    BY <1>2 DEF StoreAgreement, RecordThenPost
  <1>11. ~StoreRemoteAgreement(u) /\ ~LinkFinalized(u)
    BY <1>1, EarlyHandler DEF StoreRemoteAgreement, LinkFinalized, Serving
  <1> QED
    BY <1>3, <1>4, <1>5, <1>6, <1>7, <1>8, <1>9, <1>10, <1>11 DEF Progress

\* A step of a call of the provider's: it may end with the consumer's agreement.
LEMMA ProviderProgress ==
  ASSUME OrderInv, AgreementInv, RequestFirst, Early,
         \A j \in Call : Awaited(j),
         NEW v \in Call, Runs("provider", v), Progress(v)
  PROVE  \/ Early' /\ consumerRow'.agr = consumerRow.agr
         \/ LateWith(v)'
  <1> DEFINE c == call[v]
  <1>1. /\ TypeOK /\ c.by = "provider" /\ Running(v)
        /\ \A j \in Call : j # v => call'[j] = call[j]
        /\ call'[v].kind = c.kind /\ call'[v].by = c.by /\ call'[v].copy = c.copy
    BY ProgressAwaited DEF OrderInv, TypeInv, Runs
  <1>2. /\ c.kind \in {"offer", "agree", "terminate", "finalize"}
        /\ c.pc # "refusing" =>
             \/ c.kind = "offer" /\ c.copy.state = "REQUESTED"
             \/ c.kind = "agree" /\ c.copy.state \in Open
             \/ /\ c.kind = "terminate"
                /\ c.copy.state \in {"REQUESTED", "OFFERED", "ACCEPTED"}
        /\ c.pc = "saving" => c.kind \in {"offer", "terminate"}
    BY EarlyProvider
  <1>3. CASE SaveRefusal(v)
    <2>1. /\ c.pc = "refusing" /\ c.hpc = "none"
          /\ Save("provider", c.copy.state, c.copy.offer, None)
          /\ UNCHANGED events
      BY <1>1, <1>3 DEF SaveRefusal, Awaited
    <2>2. call'[v].hpc = c.hpc /\ ~Running(v)'
      BY <1>1, <1>3, SaveRefusalMoves DEF Moved, Running
    <2>3. c.copy.state \in seen["provider"]
      BY <1>1, <1>2, CallerRow
    <2>4. c.copy.state \in State /\ c.copy.state \in EarlyState("provider")
      BY <1>1, <2>3 DEF TypeOK, Early, NothingLater, EarlyCall
    <2>5. Mine(v) = [state |-> c.copy.state, offer |-> c.copy.offer]
      BY <2>1 DEF Mine, At
    <2> QED
      BY <1>1, <2>1, <2>2, <2>4, <2>5, ProviderSaves DEF Serving
  <1>4. CASE StoreAgreement(v) \/ Reply(v)
    <2>1. UNCHANGED db
      BY <1>4 DEF StoreAgreement, Reply
    <2> QED
      BY <1>4, <2>1, ProviderStores, ProviderReply
  <1>5. CASE RecordThenPost(v)
    BY <1>5, ProviderRecords
  <1>6. CASE SaveAfterReply(v)
    <2>1. /\ c.pc = "saving" /\ c.hpc = "ok" /\ UNCHANGED events
          /\ Save("provider", Target(c.kind), Offer(v), Link(v))
      BY <1>1, <1>6 DEF SaveAfterReply, Awaited
    <2>2. /\ c.kind \in {"offer", "terminate"}
          /\ c.kind = "offer" => c.copy.state = "REQUESTED"
      BY <1>2, <2>1
    <2>3. Link(v) = None
      BY <2>2 DEF Link, Stores
    <2>4. call'[v].hpc = c.hpc /\ ~Running(v)'
      BY <1>1, <1>6, SaveAfterReplyMoves DEF Moved, Running
    <2>5. /\ Target(c.kind) \in State /\ Target(c.kind) \in EarlyState("provider")
          /\ c.kind = "terminate" => Target(c.kind) = "TERMINATED"
          /\ c.kind = "offer" => Target(c.kind) = "OFFERED"
      BY <2>2 DEF Target, State, EarlyState
    <2>6. Mine(v) = [state |-> Target(c.kind), offer |-> Offer(v)]
      BY <2>1 DEF Mine
    <2> QED
      BY <1>1, <2>1, <2>2, <2>3, <2>4, <2>5, <2>6, ProviderSaves DEF Serving
  <1>7. CASE Handle(v)
    <2>1. UNCHANGED db
      BY <1>7 DEF Handle
    <2>2. PICK next \in {"failed", "refusing", "storing", "handling"} :
            HandleOutcome(v, next)
      BY <1>1, <1>7, HandleMoves
    <2>3. CASE next = "storing"
      BY <1>7, <2>1, <2>2, <2>3, ProviderAgrees
    <2>4. CASE next = "handling" /\ c.kind = "offer"
      BY <1>7, <2>1, <2>2, <2>4, ProviderOffers
    <2>5. CASE next \in {"failed", "refusing"} \/ c.kind = "terminate"
      BY <1>7, <2>1, <2>2, <2>3, <2>5, ProviderHandledQuietly
    <2>6. next = "handling" => c.kind \in {"offer", "terminate"}
      BY <1>2, <2>2 DEF HandleOutcome, Stores
    <2> QED
      BY <2>3, <2>4, <2>5, <2>6
  <1>8. CASE SaveRemoteRefusal(v)
    <2>1. /\ c.hpc = "refusing" /\ Serving(v) /\ UNCHANGED events
          /\ Save("consumer", c.hcopy.state, c.hcopy.offer, None)
      BY <1>1, <1>8 DEF SaveRemoteRefusal, Serving
    <2>2. call'[v].pc = c.pc /\ call'[v].hpc = "failed" /\ call'[v].hcopy = Absent
      BY <1>1, <1>8, SaveRemoteRefusalMoves DEF Moved
    <2>3. c.hcopy.state \in State
      BY <2>1, EarlyHandler
    <2>4. Theirs(v) = [state |-> c.hcopy.state, offer |-> c.hcopy.offer]
      BY <2>1 DEF Theirs, At
    <2> QED
      BY <1>1, <2>1, <2>2, <2>3, <2>4, ProviderHandlerSaves
  <1>9. CASE StoreRemoteAgreement(v)
    <2>1. UNCHANGED db
      BY <1>9 DEF StoreRemoteAgreement
    <2> QED
      BY <1>9, <2>1, ProviderStored
  <1>10. CASE SaveHandled(v)
    <2>1. /\ c.hpc = "handling" /\ Serving(v)
          /\ Save("consumer", Target(c.kind),
                  IF c.kind \in {"requestExisting", "offer"} THEN Offer(v)
                                                             ELSE c.hcopy.offer,
                  IF c.kind = "agree" THEN Agreement(v) ELSE None)
          /\ Emit(v)
      BY <1>1, <1>10 DEF SaveHandled, Serving
    <2>2. c.kind \in {"offer", "agree", "terminate"}
      BY <1>1, <2>1, EarlyHandler
    <2>3. c.kind # "agree" => UNCHANGED events
      BY <2>1, <2>2 DEF Emit, Emitting
    <2>4. call'[v].pc = c.pc /\ call'[v].hpc = "ok" /\ call'[v].hcopy = Absent
      BY <1>1, <1>10, SaveHandledMoves DEF Moved
    <2>5. CASE c.kind = "terminate"
      <3>1. Save("consumer", "TERMINATED", c.hcopy.offer, None)
        BY <2>1, <2>5 DEF Target
      <3>2. Theirs(v) = [state |-> "TERMINATED", offer |-> c.hcopy.offer]
        BY <2>1, <2>5 DEF Theirs, Target
      <3>3. "TERMINATED" \in State
        BY DEF State
      <3> QED
        BY <1>1, <2>1, <2>3, <2>4, <2>5, <3>1, <3>2, <3>3, ProviderHandlerSaves
    <2>6. CASE c.kind = "offer"
      <3>1. Save("consumer", "OFFERED", v, None)
        BY <2>1, <2>6 DEF Target, Offer
      <3> QED
        BY <1>1, <2>1, <2>3, <2>4, <2>6, <3>1, ProviderOffered
    <2>7. CASE c.kind = "agree"
      <3>1. Save("consumer", "AGREED", c.hcopy.offer, v)
        BY <2>1, <2>7 DEF Target, Agreement
      <3> QED
        BY <1>1, <2>1, <2>4, <2>7, <3>1, ProviderAgreed
    <2> QED
      BY <2>2, <2>5, <2>6, <2>7
  <1>11. ~LinkFinalized(v) /\ ~HandleNewRequest(v)
    BY <1>1, <1>2, EarlyHandler DEF LinkFinalized, HandleNewRequest, Serving
  <1> QED
    BY <1>3, <1>4, <1>5, <1>6, <1>7, <1>8, <1>9, <1>10, <1>11 DEF Progress
\* The first call, the request, begins.
LEMMA RequestBegins ==
  ASSUME OrderInv, RequestFirst, NEW i \in UserCall, RequestNew(i)
  PROVE  Early' /\ consumerRow'.agr = None
  <1>1. TypeOK /\ UNCHANGED <<db, events>> /\ ~Requested
    BY DEF OrderInv, TypeInv, RequestNew, Requested
  <1>2. /\ i \in Call /\ \A j \in Call : j # i => call'[j] = call[j]
        /\ call'[i].kind = "requestNew" /\ call'[i].by = "consumer"
        /\ call'[i].pc = "posted" /\ call'[i].hpc = "sent"
        /\ call'[i].copy = Absent /\ call'[i].hcopy = Absent
    BY <1>1, RequestNewFacts
  <1>3. /\ db'["consumer"] = Absent /\ db'["provider"] = Absent
        /\ \A j \in Call : call[j].pc = "idle"
        /\ events' = {}
    BY <1>1 DEF RequestFirst
  <1>4. \A j \in Call : ~Serving(j)
    <2>1. \A j \in Call : call[j].hpc = "none"
      BY <1>3 DEF OrderInv, TypeInv, Loaded
    <2> QED
      BY <2>1 DEF Serving
  <1>5. Mine(i)' = At(Absent)
    BY <1>2 DEF Mine, At
  <1>6. ASSUME NEW p \in Party, NEW x \in Prospects(p)' PROVE x = At(Absent)
    <2>1. At(db'[p]) = At(Absent)
      BY <1>3
    <2>2. \/ x = At(db'[p])
          \/ \E j \in Call : Runs(p, j)' /\ x = Mine(j)'
          \/ \E j \in Call : Answering(p, j)' /\ x = Theirs(j)'
      BY <1>6, ProspectsNext
    <2>3. CASE \E j \in Call : Runs(p, j)' /\ x = Mine(j)'
      BY <1>2, <1>3, <1>5, <2>3 DEF Runs, Running
    <2>4. CASE \E j \in Call : Answering(p, j)' /\ x = Theirs(j)'
      BY <1>2, <1>4, <2>4 DEF Answering, Serving
    <2> QED
      BY <2>1, <2>2, <2>3, <2>4
  <1>7. AllFit'
    BY <1>6 DEF AllFit, Fit, At, Absent, Open
  <1>8. Bound' /\ consumerRow'.agr = None
    BY <1>3 DEF Bound, Absent
  <1>9. OneEach'
    BY <1>2, <1>3 DEF OneEach, Runs, Running
  <1>10. NothingLater'
    BY <1>2, <1>3 DEF NothingLater, EarlyCall, EarlyState, Absent, Running
  <1>11. ConsumerCall(i)'
    BY <1>2
       DEF ConsumerCall, LoadedOpen, RefusedOpen, Answer, SameOffer, Serving
  <1>12. ASSUME NEW j \in Call
         PROVE  /\ Runs("consumer", j)' => ConsumerCall(j)'
                /\ ~Runs("provider", j)'
    <2>1. Runs("consumer", j)' => j = i
      BY <1>2, <1>3 DEF Runs, Running
    <2>2. ~Runs("provider", j)'
      BY <1>2, <1>3 DEF Runs, Running
    <2> QED
      BY <1>11, <2>1, <2>2
  <1> QED
    BY <1>7, <1>8, <1>9, <1>10, <1>12 DEF Early

\* A call begins only when its party has none under way; the provider's first
\* takes the event that the request left.
LEMMA BeginsAlone ==
  ASSUME ClientsWait, OrderInv, RequestFirst, Early,
         NEW i \in Call, NEW p \in Party, NEW k \in KindsOf(p), Begins(i, p, k)
  PROVE  /\ \A j \in Call : ~Runs(p, j)
         /\ p = "provider" => events' = {}
         /\ events' \subseteq events
  <1>1. TypeOK /\ events \subseteq Call
    BY DEF OrderInv, TypeInv, TypeOK
  <1>2. \A j \in events : /\ call[j].kind = "requestNew"
                          /\ call[j].by = "consumer"
                          /\ \A n \in Call : ~Runs("provider", n)
    BY <1>1 DEF Early, NothingLater, EarlyCall, OrderInv, CallOrder, ByRole
  <1>3. CASE ClientFree(p) /\ UNCHANGED events
    <2>1. /\ \A j \in Call : call[j].by = p => ~Running(j)
          /\ \A j \in events : call[j].by = p
      BY <1>3 DEF ClientFree, ClientsWait
    <2>2. p = "provider" => events = {}
      BY <1>2, <2>1
    <2> QED
      BY <1>3, <2>1, <2>2 DEF Runs
  <1>4. ASSUME NEW e \in events, p = Peer(call[e].by), events' = events \ {e}
        PROVE  /\ \A j \in Call : ~Runs(p, j)
               /\ p = "provider" => events' = {}
               /\ events' \subseteq events
    <2>1. p = "provider" /\ e \in Call /\ call[e].kind = "requestNew"
      BY <1>1, <1>2, <1>4
    <2>2. \A j \in events : j = e
      BY <1>1, <1>2, <2>1 DEF RequestFirst, RequestInv
    <2> QED
      BY <1>2, <1>4, <2>1, <2>2
  <1> QED
    BY <1>3, <1>4 DEF Begins

\* Every step keeps Early, or gives the consumer its agreement.
LEMMA NextEarly ==
  ASSUME ClientsWait, OrderInv, AgreementInv, RequestFirst,
         \A j \in Call : Awaited(j), Early, consumerRow.agr = None, [Next]_vars
  PROVE  \/ Early' /\ consumerRow'.agr = None
         \/ \E v \in Call : LateWith(v)'
  <1>1. TypeOK
    BY DEF OrderInv, TypeInv
  <1>2. ASSUME NEW i \in UserCall, RequestNew(i)
        PROVE  Early' /\ consumerRow'.agr = None
    BY <1>2, RequestBegins
  <1>3. ASSUME NEW i \in Call, NEW p \in Party, NEW k \in KindsOf(p),
               Begins(i, p, k)
        PROVE  Early' /\ consumerRow'.agr = None
    <2>1. Began(i, p, k) /\ UNCHANGED db /\ call[i].pc = "idle"
      BY <1>1, <1>3, BeginAwaited DEF Begins
    <2>2. /\ \A j \in Call : ~Runs(p, j)
          /\ p = "provider" => events' = {}
          /\ events' \subseteq events
      BY <1>3, BeginsAlone
    <2>3. CASE p = "consumer"
      BY <2>1, <2>2, <2>3, ConsumerBegins
    <2>4. CASE p = "provider"
      BY <2>1, <2>2, <2>4, ProviderBegins
    <2> QED
      BY <2>3, <2>4
  <1>4. ASSUME NEW i \in Call, Progress(i)
        PROVE  \/ Early' /\ consumerRow'.agr = None
               \/ \E v \in Call : LateWith(v)'
    <2>1. call[i].by \in Party
      BY DEF OrderInv, TypeInv, TypeOK, CallType
    <2>2. Running(i)
      BY <1>4 DEF Progress, SaveRefusal, StoreAgreement, RecordThenPost, Reply,
         SaveAfterReply, HandleNewRequest, Handle, SaveRemoteRefusal,
         StoreRemoteAgreement, LinkFinalized, SaveHandled, Awaited, Serving,
         Running
    <2>3. CASE call[i].by = "consumer"
      BY <1>4, <2>2, <2>3, ConsumerProgress DEF Runs
    <2>4. CASE call[i].by = "provider"
      BY <1>4, <2>2, <2>4, ProviderProgress DEF Runs
    <2> QED
      BY <2>1, <2>3, <2>4
  <1>5. ASSUME UNCHANGED <<db, call>>, events' \subseteq events
        PROVE  Early' /\ consumerRow'.agr = None
    <2>1. /\ \A p : Prospects(p)' = Prospects(p)
          /\ \A p, j : Runs(p, j)' <=> Runs(p, j)
          /\ \A p, j : Answering(p, j)' <=> Answering(p, j)
          /\ \A j : Theirs(j)' = Theirs(j)
      BY <1>5 DEF Prospects, Mine, Theirs, Offer, Answering, Runs, Running, At
    <2>2. OneEach' /\ NothingLater' /\ AllFit' /\ (Shut <=> Shut')
      BY <1>5, <2>1
         DEF Early, OneEach, NothingLater, EarlyCall, Running, AllFit,
         Shut
    <2>3. Bound'
      BY <1>5, <2>1, <2>2 DEF Early, Bound
    <2>4. \A j \in Call : ConsumerCall(j) => ConsumerCall(j)'
      BY <1>5, <2>1
         DEF ConsumerCall, LoadedOpen, RefusedOpen, Answer, SameOffer, Serving, At
    <2>5. \A j \in Call : ProviderCall(j) => ProviderCall(j)'
      BY <1>5, <2>1, <2>2
         DEF ProviderCall, LoadedOffer, RefusedOpen, Offered, SameOfferLoaded,
             Agreeing, Binding, At
    <2> QED
      BY <1>5, <2>1, <2>2, <2>3, <2>4, <2>5 DEF Early
  <1> QED
    BY <1>2, <1>3, <1>4, <1>5, Steps DEF ListenerIgnores, vars

\* At first nothing has happened.
LEMMA InitSerial == Init => SerialInv
  <1> SUFFICES ASSUME Init PROVE SerialInv
    OBVIOUS
  <1>1. /\ \A p \in Party : db[p] = Absent /\ seen[p] = {}
        /\ \A i \in Call : call[i] = Idle
        /\ events = {}
    BY DEF Init
  <1>2. \A i \in Call : Awaited(i) /\ ~Running(i) /\ ~Serving(i) /\ RequestInv(i)
    BY <1>1 DEF Idle, Awaited, Running, Serving, RequestInv
  <1>3. RequestFirst
    BY <1>1, <1>2 DEF RequestFirst, Idle
  <1>4. \A p \in Party : \A x \in Prospects(p) : x = At(Absent)
    BY <1>1, <1>2, ProspectsOf DEF Runs, Answering, Serving
  <1>5. AllFit
    BY <1>4 DEF AllFit, Fit, At, Absent, Open
  <1>6. OneEach /\ NothingLater /\ Bound /\ consumerRow.agr = None
    BY <1>1, <1>2
       DEF OneEach, NothingLater, EarlyCall, EarlyState, Runs, Absent, Bound
  <1>7. Early
    BY <1>2, <1>5, <1>6 DEF Early, Runs
  <1> QED
    BY <1>2, <1>3, <1>6, <1>7 DEF SerialInv

\* Every step of a system in which clients wait and nothing fails keeps
\* SerialInv.
LEMMA NextSerial ==
  ASSUME ClientsWait, OrderInv, AgreementInv, SerialInv, [Next]_vars
  PROVE  SerialInv'
  <1>1. \A i \in Call : Awaited(i)
    BY DEF SerialInv
  <1>2. RequestFirst
    BY DEF SerialInv
  <1>3. (\A i \in Call : Awaited(i))' /\ RequestFirst'
    BY <1>1, <1>2, NextAwaited, NextRequest
  <1>4. \A v \in Call : LateWith(v)' => consumerRow'.agr = v /\ v # None /\ Late(v)'
    BY CallAssumption DEF LateWith
  <1>5. CASE consumerRow.agr = None
    <2>1. \/ Early' /\ consumerRow'.agr = None
          \/ \E v \in Call : LateWith(v)'
      BY <1>1, <1>2, <1>5, NextEarly DEF SerialInv
    <2> QED
      BY <1>3, <1>4, <2>1 DEF SerialInv
  <1>6. CASE consumerRow.agr # None
    <2>1. PICK a : a = consumerRow.agr
      OBVIOUS
    <2>2. LateWith(a) /\ a \in Call
      BY <1>6, <2>1, LinkedCall DEF SerialInv, LateWith
    <2>3. LateWith(a)'
      BY <1>1, <1>2, <1>6, <2>1, <2>2, NextLate
    <2> QED
      BY <1>3, <1>4, <2>2, <2>3 DEF SerialInv
  <1> QED
    BY <1>5, <1>6

\* So it always holds.
LEMMA SerialInvariant ==
  ASSUME ClientsWait PROVE Spec => [](AgreementInv /\ SerialInv)
  <1>1. Init => AgreementInv /\ SerialInv
    BY InitAgreement, InitSerial
  <1>2. OrderInv /\ (AgreementInv /\ SerialInv) /\ [Next]_vars =>
          (AgreementInv /\ SerialInv)'
    BY NextAgreement, NextSerial
  <1> QED
    BY <1>1, <1>2, OrderInvariant, PTL DEF Spec

\* When clients wait for their calls and nothing fails, the agreement a party
\* holds is on the offer its own row shows.
THEOREM AgreementsMatchOffers ==
  ASSUME ClientsWait PROVE Spec => []AgreementMatchesOffer
  <1>1. AgreementInv /\ SerialInv => AgreementMatchesOffer
    <2> SUFFICES ASSUME AgreementInv, SerialInv, NEW p \in Party, db[p].agr # None
                 PROVE  call[db[p].agr].copy.offer = db[p].offer
      BY DEF AgreementMatchesOffer
    <2>1. CASE consumerRow.agr = None
      <3>1. p = "provider" /\ Bound
        BY <2>1 DEF SerialInv, Early
      <3> QED
        BY <3>1, ProspectsOf DEF Bound, At
    <2>2. CASE consumerRow.agr # None
      BY <2>2 DEF SerialInv, Late
    <2> QED
      BY <2>1, <2>2
  <1> QED
    BY <1>1, SerialInvariant, PTL

\* When clients wait for their calls and nothing fails, two parties that have
\* finalized the negotiation hold one agreement.
THEOREM OneAgreementFinalized ==
  ASSUME ClientsWait PROVE Spec => []FinalizedOnSameAgreement
  <1>1. AgreementInv /\ SerialInv => FinalizedOnSameAgreement
    <2> SUFFICES ASSUME SerialInv, \A p \in Party : db[p].state = "FINALIZED"
                 PROVE  db["consumer"].agr = db["provider"].agr
      BY DEF FinalizedOnSameAgreement
    <2>1. consumerRow.agr # None
      BY DEF SerialInv, Early, NothingLater, EarlyState
    <2> QED
      BY <2>1 DEF SerialInv, Late
  <1> QED
    BY <1>1, SerialInvariant, PTL
=============================================================================
