--------------------------- MODULE TransferProofs ---------------------------
(***************************************************************************)
(* Proofs that the four rows of a transfer enter their states in order and *)
(* that acknowledged calls are recorded by all of them: for any number of  *)
(* calls, with or without addresses, denials, an automatic start and       *)
(* faults, and clients that wait for their calls or do not.  And that the  *)
(* four rows agree when nothing is under way, if clients wait for one      *)
(* another's calls and nothing fails or starts by itself.                  *)
(***************************************************************************)
EXTENDS TransferInduction, TLAPS

USE DEF Party, Peer

----------------------------------------------------------------------------
(* Types.                                                                   *)

\* Absent is no row that exists.
LEMMA AbsentRow == Absent \in Copy /\ \A r \in Row : r # Absent
  BY DEF Absent, Copy, Row, State

\* Every call leads to a state of the table.
LEMMA TargetState == \A k \in Kind : Target(k) \in State
  BY DEF Kind, ClientKind, Target, State

\* What the types say of one call.
LEMMA CallFacts ==
  ASSUME TypeInv, NEW i \in Call
  PROVE  /\ call[i] \in CallType
         /\ call[i].by \in Party /\ Peer(call[i].by) \in Party
         /\ call[i].pc # "idle" => call[i].kind \in Kind
         /\ call[i].copy.addr \in BOOLEAN /\ call[i].hcopy.addr \in BOOLEAN
         /\ call[i].addr \in BOOLEAN
         /\ call[i].pc = "refusing" => call[i].copy.state \in State
         /\ call[i].hpc = "refusing" => call[i].hcopy.state \in State
  <1>1. call[i] \in CallType
    BY DEF TypeInv, TypeOK
  <1>2. \A c \in Copy : c.addr \in BOOLEAN
    <2>1. \A c \in Row : c.addr \in BOOLEAN
      BY Zenon DEF Row
    <2>2. Absent.addr \in BOOLEAN
      BY DEF Absent
    <2> QED
      BY <2>1, <2>2 DEF Copy
  <1>3. \A c \in Row : c.state \in State
    BY DEF Row
  <1>4. call[i].copy \in Copy /\ call[i].hcopy \in Copy
    BY <1>1 DEF CallType
  <1>5. /\ call[i].by \in Party /\ call[i].addr \in BOOLEAN
        /\ call[i].kind # "none" => call[i].kind \in Kind
    BY <1>1 DEF CallType
  <1> QED
    BY <1>1, <1>2, <1>3, <1>4, <1>5 DEF TypeInv, Loaded

\* A save leaves a well-typed row and history.
LEMMA SaveType ==
  ASSUME TypeOK, NEW p \in Party, NEW s \in State, NEW a \in BOOLEAN,
         Save(p, s, a)
  PROVE  /\ cp' \in [Party -> Copy]
         /\ seen' \in [Plane -> [Party -> SUBSET State]]
  <1>1. [state |-> s, addr |-> a] \in Copy
    BY DEF Copy, Row
  <1>2. cp' \in [Party -> Copy]
    BY <1>1 DEF TypeOK, Save
  <1>3. seen' \in [Plane -> [Party -> SUBSET State]]
    BY DEF TypeOK, Save, Plane
  <1> QED
    BY <1>2, <1>3

\* So does a data plane's store.
LEMMA StoreType ==
  ASSUME TypeOK, NEW p \in Party, NEW s \in State, Store(p, s)
  PROVE  /\ dp' \in [Party -> State \cup {"NONE"}]
         /\ seen' \in [Plane -> [Party -> SUBSET State]]
  BY DEF TypeOK, Store, Plane

\* What a step of call i leaves alone: every other call, and all of call i but
\* its progress and its handler's.
Moved(i, pc, hpc) ==
  /\ call' \in [Call -> CallType]
  /\ \A j \in Call : j # i => call'[j] = call[j]
  /\ call'[i].kind = call[i].kind /\ call'[i].by = call[i].by
  /\ call'[i].copy = call[i].copy /\ call'[i].addr = call[i].addr
  /\ call'[i].pc = pc /\ call'[i].hpc = hpc

\* The caller moves on.
LEMMA MovePc ==
  ASSUME TypeOK, NEW i \in Call, NEW pc \in Pc,
         call' = [call EXCEPT ![i].pc = pc]
  PROVE  Moved(i, pc, call[i].hpc) /\ call'[i].hcopy = call[i].hcopy
  BY DEF Moved, TypeOK, CallType

\* The handler moves on and keeps its copy.
LEMMA MoveHpc ==
  ASSUME TypeOK, NEW i \in Call, NEW hpc \in HPc,
         call' = [call EXCEPT ![i].hpc = hpc]
  PROVE  Moved(i, call[i].pc, hpc) /\ call'[i].hcopy = call[i].hcopy
  BY DEF Moved, TypeOK, CallType

\* The caller moves on and sends its request.
LEMMA MoveBoth ==
  ASSUME TypeOK, NEW i \in Call, NEW pc \in Pc, NEW hpc \in HPc,
         call' = [call EXCEPT ![i].pc = pc, ![i].hpc = hpc]
  PROVE  Moved(i, pc, hpc) /\ call'[i].hcopy = call[i].hcopy
  BY DEF Moved, TypeOK, CallType

\* The handler moves on with a new copy, or gives it up.
LEMMA MoveHandler ==
  ASSUME TypeOK, NEW i \in Call, NEW hpc \in HPc, NEW hc \in Copy,
         call' = [call EXCEPT ![i].hpc = hpc, ![i].hcopy = hc]
  PROVE  Moved(i, call[i].pc, hpc) /\ call'[i].hcopy = hc
  BY DEF Moved, TypeOK, CallType

\* A step of a call that loaded what it is about to save keeps TypeInv.
LEMMA MoveType ==
  ASSUME TypeInv, NEW i \in Call, NEW pc \in Pc, NEW hpc \in HPc,
         Moved(i, pc, hpc), call[i].pc # "idle", pc # "idle",
         pc = "refusing" => call[i].copy \in Row,
         hpc = "refusing" => call'[i].hcopy \in Row,
         cp' \in [Party -> Copy], dp' \in [Party -> State \cup {"NONE"}],
         seen' \in [Plane -> [Party -> SUBSET State]],
         starting' \in BOOLEAN, late' \subseteq Party \X State
  PROVE  TypeInv'
  <1>1. TypeOK'
    BY DEF Moved, TypeOK
  <1>2. Loaded'
    BY DEF Moved, TypeInv, Loaded
  <1> QED
    BY <1>1, <1>2 DEF TypeInv

\* What happens to call j when it, its handler or a whole process is cut off: the
\* caller fails or goes on, and so does the handler.
Ended(j) ==
  /\ call'[j].kind = call[j].kind /\ call'[j].by = call[j].by
  /\ call'[j].copy = call[j].copy
  /\ \/ call'[j].pc = call[j].pc
     \/ Running(j) /\ call'[j].pc = "failed"
  /\ \/ call'[j].hpc = call[j].hpc /\ call'[j].hcopy = call[j].hcopy
     \/ call[j].hpc \notin {"none", "ok"} /\ call'[j].hpc = "failed"

\* A command that is late is one a call or a handler was waiting for.
LateGrows ==
  \A m \in late' : m \notin late =>
    \E j \in Call, p \in Party :
      /\ Sending(p, j) /\ call[j].kind # "request"
      /\ m = <<p, Target(call[j].kind)>>

\* A step that ends calls and handlers and starts nothing.
EndStep ==
  /\ call' \in [Call -> CallType] /\ \A j \in Call : Ended(j)
  /\ LateGrows /\ late' \subseteq Party \X State
  /\ starting' \in BOOLEAN

\* The commands a process is waiting for are well typed.
LEMMA StrayType ==
  ASSUME TypeInv, NEW p \in Party, NEW S \in SUBSET Call, NEW m \in Strays(p, S)
  PROVE  /\ m \in Party \X State
         /\ \E j \in Call : /\ Sending(p, j) /\ call[j].kind # "request"
                            /\ m = <<p, Target(call[j].kind)>>
  <1>1. PICK j \in S : /\ Sending(p, j) /\ call[j].kind # "request"
                       /\ m = <<p, Target(call[j].kind)>>
    BY DEF Strays
  <1>2. call[j].kind \in Kind
    BY <1>1, CallFacts DEF Sending, TypeInv, Loaded
  <1> QED
    BY <1>1, <1>2, TargetState

\* A process that stops ends calls and handlers.
LEMMA StopEnds ==
  ASSUME TypeInv, NEW p \in Party, Stop(p)
  PROVE  EndStep
  <1> DEFINE f(i) ==
        IF call[i].by = p /\ Running(i)
          THEN [call[i] EXCEPT !.pc = "failed"]
        ELSE IF call[i].by = Peer(p) /\ Handling(i)
          THEN [call[i] EXCEPT !.hpc = "failed", !.hcopy = Absent]
        ELSE call[i]
  <1>1. call' = [i \in Call |-> f(i)]
    BY DEF Stop
  <1>2. ASSUME NEW i \in Call PROVE f(i) \in CallType
    <2>1. call[i] \in CallType /\ Absent \in Copy
      BY AbsentRow, CallFacts
    <2>2. [call[i] EXCEPT !.pc = "failed"] \in CallType
      BY <2>1 DEF CallType, Pc
    <2>3. [call[i] EXCEPT !.hpc = "failed", !.hcopy = Absent] \in CallType
      BY <2>1 DEF CallType, HPc
    <2> QED
      BY <2>1, <2>2, <2>3
  <1>3. ASSUME NEW j \in Call PROVE Ended(j)
    <2>1. call[j] \in CallType /\ call'[j] = f(j)
      BY <1>1, CallFacts
    <2> QED
      BY <2>1 DEF Ended, Handling, CallType
  <1>4. LateGrows /\ late' \subseteq Party \X State
    <2>1. late' = late \cup Strays(p, Call) /\ late \subseteq Party \X State
      BY DEF Stop, TypeInv, TypeOK
    <2> QED
      BY <2>1, StrayType DEF LateGrows
  <1>5. starting' \in BOOLEAN
    BY DEF Stop
  <1> QED
    BY <1>1, <1>2, <1>3, <1>4, <1>5 DEF EndStep

\* So does a call that throws.
LEMMA ThrowEnds ==
  ASSUME TypeInv, NEW i \in Call, Running(i), Throw(i)
  PROVE  EndStep
  <1>1. CASE i \in AutoCall
    BY <1>1, StopEnds DEF Throw
  <1>2. CASE i \notin AutoCall
    <2>1. /\ call' = [call EXCEPT ![i].pc = "failed"]
          /\ late' = late \cup Strays(call[i].by, {i})
          /\ starting' = starting
      BY <1>2 DEF Throw
    <2>2. TypeOK /\ "failed" \in Pc
      BY DEF TypeInv, Pc
    <2>3. Moved(i, "failed", call[i].hpc) /\ call'[i].hcopy = call[i].hcopy
      BY <2>1, <2>2, MovePc
    <2>4. \A j \in Call : Ended(j)
      BY <2>3 DEF Moved, Ended
    <2>5. LateGrows /\ late' \subseteq Party \X State
      <3>1. late \subseteq Party \X State /\ call[i].by \in Party
        BY CallFacts DEF TypeInv, TypeOK
      <3> QED
        BY <2>1, <3>1, StrayType DEF LateGrows
    <2> QED
      BY <2>1, <2>2, <2>3, <2>4, <2>5 DEF EndStep, Moved, TypeOK
  <1> QED
    BY <1>1, <1>2

\* So does a handler that gives up.
LEMMA HandlerEnds ==
  ASSUME TypeInv, NEW i \in Call, call[i].hpc \notin {"none", "ok"},
         \/ call' = [call EXCEPT ![i].hpc = "failed", ![i].hcopy = Absent]
         \/ call' = [call EXCEPT ![i].hpc = "failed"]
  PROVE  call' \in [Call -> CallType] /\ \A j \in Call : Ended(j)
  <1>1. TypeOK /\ "failed" \in HPc /\ Absent \in Copy
    BY AbsentRow DEF TypeInv, HPc
  <1>2. Moved(i, call[i].pc, "failed")
    BY <1>1, MoveHpc, MoveHandler
  <1> QED
    BY <1>2 DEF Moved, Ended

\* A step that ends calls keeps TypeInv.
LEMMA EndType ==
  ASSUME TypeInv, EndStep, cp' \in [Party -> Copy],
         dp' \in [Party -> State \cup {"NONE"}],
         seen' \in [Plane -> [Party -> SUBSET State]]
  PROVE  TypeInv'
  <1>1. TypeOK'
    BY DEF EndStep, TypeOK
  <1>2. Loaded'
    BY DEF EndStep, Ended, Running, TypeInv, Loaded
  <1> QED
    BY <1>1, <1>2 DEF TypeInv

\* Begin makes a call out of an idle one.
Began(i, p, k) ==
  /\ call' \in [Call -> CallType]
  /\ \A j \in Call : j # i => call'[j] = call[j]
  /\ call'[i].kind = k /\ call'[i].by = p
  /\ call'[i].pc \in {"commanding", "refusing"} /\ call'[i].hpc = "none"

\* A call begins with the row its party has, and the transition checked.
LEMMA BeginFacts ==
  ASSUME TypeInv, NEW i \in Call, NEW p \in Party, NEW k \in ClientKind,
         NEW given \in BOOLEAN, Begin(i, p, k, given)
  PROVE  /\ Began(i, p, k) /\ call'[i].copy = cp[p] /\ cp[p] \in Row
         /\ call'[i].pc = "commanding" => Allowed(p, cp[p].state, Target(k))
         /\ call'[i].addr = (k = "start" /\ (given \/ cp[p].addr))
  <1> DEFINE pc == IF Allowed(p, cp[p].state, Target(k)) THEN "commanding"
                                                         ELSE "refusing"
             c == [kind |-> k, by |-> p, pc |-> pc, hpc |-> "none",
                   copy |-> cp[p], hcopy |-> Absent,
                   addr |-> k = "start" /\ (given \/ cp[p].addr)]
  <1>1. cp[p] \in Copy /\ cp[p] \in Row /\ Absent \in Copy
    BY AbsentRow DEF TypeInv, TypeOK, Begin, Copy
  <1>2. pc \in Pc /\ "none" \in HPc /\ k \in Kind
    BY DEF Pc, HPc, Kind
  <1>3. (k = "start" /\ (given \/ cp[p].addr)) \in BOOLEAN
    OBVIOUS
  <1>4. c \in CallType
    <2> HIDE DEF pc
    <2> QED
      BY <1>1, <1>2, <1>3 DEF CallType
  <1>5. /\ call' \in [Call -> CallType] /\ call'[i] = c
        /\ \A j \in Call : j # i => call'[j] = call[j]
    <2>1. call' = [call EXCEPT ![i] = c]
      BY DEF Begin
    <2> HIDE DEF c
    <2> QED
      BY <1>4, <2>1 DEF TypeInv, TypeOK
  <1> QED
    BY <1>1, <1>5 DEF Began

\* A new request is the consumer's.
LEMMA RequestFacts ==
  ASSUME TypeInv, NEW i \in Call, RequestTransfer(i)
  PROVE  /\ Began(i, "consumer", "request") /\ call'[i].pc = "commanding"
         /\ call'[i].copy = Absent
  <1> DEFINE c == [Idle EXCEPT !.kind = "request", !.pc = "commanding"]
  <1>1. c \in CallType
    BY AbsentRow DEF Idle, CallType, Kind, Pc, HPc
  <1>2. /\ c.kind = "request" /\ c.by = "consumer" /\ c.pc = "commanding"
        /\ c.hpc = "none" /\ c.copy = Absent
    BY DEF Idle
  <1>3. call' = [call EXCEPT ![i] = c]
    BY DEF RequestTransfer
  <1> HIDE DEF c
  <1> QED
    BY <1>1, <1>2, <1>3 DEF TypeInv, TypeOK, Began

\* A call that has begun keeps TypeInv.
LEMMA BeganType ==
  ASSUME TypeInv, NEW i \in Call, NEW p, NEW k \in Kind, Began(i, p, k),
         call'[i].pc = "refusing" => call'[i].copy \in Row,
         UNCHANGED <<cp, dp, late, seen>>, starting' \in BOOLEAN
  PROVE  TypeInv'
  <1>1. TypeOK'
    BY DEF Began, TypeInv, TypeOK
  <1>2. k # "none"
    BY DEF Kind, ClientKind
  <1>3. Loaded'
    BY <1>2 DEF Began, TypeInv, Loaded
  <1> QED
    BY <1>1, <1>3 DEF TypeInv

\* The handler's next step, and what it loads.
LEMMA ReceiveFacts ==
  ASSUME TypeInv, NEW i \in Call, Receive(i)
  PROVE  \E next \in {"commanding", "refusing", "failed"} :
           LET row == cp[Peer(call[i].by)] IN
           /\ Moved(i, call[i].pc, next)
           /\ call'[i].hcopy = IF next = "failed" THEN Absent ELSE row
           /\ call[i].kind # "request" /\ next # "failed" => row \in Row
           /\ call[i].kind = "request" => next = "commanding"
           /\ call[i].kind # "request" /\ next = "commanding" =>
                Allowed(call[i].by, row.state, Target(call[i].kind))
           /\ next = "refusing" =>
                ~Allowed(call[i].by, row.state, Target(call[i].kind))
           /\ next = "failed" =>
                row = Absent \/ (call[i].kind = "start" /\ ~call[i].addr)
  <1> DEFINE c    == call[i]
             row  == cp[Peer(c.by)]
             next == IF c.kind = "request" THEN "commanding"
                     ELSE IF c.kind = "start" /\ ~c.addr THEN "failed"
                     ELSE IF row = Absent THEN "failed"
                     ELSE IF Allowed(c.by, row.state, Target(c.kind))
                       THEN "commanding" ELSE "refusing"
             hc   == IF next = "failed" THEN Absent ELSE row
  <1>1. TypeOK /\ row \in Copy /\ Absent \in Copy /\ next \in HPc
    BY CallFacts, AbsentRow DEF TypeInv, TypeOK, HPc
  <1>2. hc \in Copy
    BY <1>1
  <1>3. call' = [call EXCEPT ![i].hpc = next, ![i].hcopy = hc]
    BY DEF Receive
  <1>4. Moved(i, call[i].pc, next) /\ call'[i].hcopy = hc
    <2> HIDE DEF next, hc
    <2> QED
      BY <1>1, <1>2, <1>3, MoveHandler
  <1> QED
    BY <1>1, <1>4 DEF Copy

\* How the steps that go on move a call.
LEMMA StepMoves ==
  ASSUME TypeInv, NEW i \in Call
  PROVE  /\ Command(i) =>
              Moved(i, "posted", "sent") /\ call'[i].hcopy = call[i].hcopy
         /\ Reply(i) /\ call[i].hpc = "ok" =>
              Moved(i, "saving", "ok") /\ call'[i].hcopy = call[i].hcopy
         /\ SaveAfterReply(i) =>
              Moved(i, "done", call[i].hpc) /\ call'[i].hcopy = call[i].hcopy
         /\ CommandRemote(i) => /\ Moved(i, call[i].pc, "handling")
                                /\ call'[i].hcopy = call[i].hcopy
         /\ SaveHandled(i) => Moved(i, call[i].pc, "ok")
  <1>1. /\ TypeOK /\ Absent \in Copy
        /\ {"posted", "saving", "done"} \subseteq Pc
        /\ {"sent", "handling", "ok"} \subseteq HPc
    BY AbsentRow DEF TypeInv, Pc, HPc
  <1>2. Command(i) =>
          Moved(i, "posted", "sent") /\ call'[i].hcopy = call[i].hcopy
    BY <1>1, MoveBoth DEF Command
  <1>3. Reply(i) /\ call[i].hpc = "ok" =>
          Moved(i, "saving", "ok") /\ call'[i].hcopy = call[i].hcopy
    BY <1>1, MovePc DEF Reply
  <1>4. SaveAfterReply(i) =>
          Moved(i, "done", call[i].hpc) /\ call'[i].hcopy = call[i].hcopy
    BY <1>1, MovePc DEF SaveAfterReply
  <1>5. CommandRemote(i) =>
          Moved(i, call[i].pc, "handling") /\ call'[i].hcopy = call[i].hcopy
    BY <1>1, MoveHpc DEF CommandRemote
  <1>6. SaveHandled(i) => Moved(i, call[i].pc, "ok")
    BY <1>1, MoveHandler DEF SaveHandled
  <1> QED
    BY <1>2, <1>3, <1>4, <1>5, <1>6

\* The steps that cut a call or a handler off.
Cut(i) ==
  \/ SaveRefusal(i)
  \/ Reply(i) /\ call[i].hpc = "failed"
  \/ SaveRemoteRefusal(i) \/ DenyRequest(i) \/ Fail(i)

LEMMA CutEnds ==
  ASSUME TypeInv, NEW i \in Call, Cut(i)
  PROVE  EndStep
  <1>1. CASE SaveRefusal(i)
    BY <1>1, ThrowEnds DEF SaveRefusal, Running
  <1>2. CASE Reply(i) /\ call[i].hpc = "failed"
    BY <1>2, ThrowEnds DEF Reply, Running
  <1>3. CASE SaveRemoteRefusal(i)
    BY <1>3, HandlerEnds
       DEF SaveRemoteRefusal, EndStep, LateGrows, TypeInv, TypeOK
  <1>4. CASE DenyRequest(i)
    BY <1>4, HandlerEnds DEF DenyRequest, EndStep, LateGrows, TypeInv, TypeOK
  <1>5. CASE LoseRequest(i)
    BY <1>5, HandlerEnds DEF LoseRequest, EndStep, LateGrows, TypeInv, TypeOK
  <1>6. CASE Timeout(i)
    BY <1>6, ThrowEnds DEF Timeout, Running
  <1>7. CASE CommandFails(i)
    BY <1>7, ThrowEnds DEF CommandFails, Running
  <1>8. CASE RemoteCommandFails(i)
    <2>1. call' \in [Call -> CallType] /\ \A j \in Call : Ended(j)
      BY <1>8, HandlerEnds DEF RemoteCommandFails
    <2>2. /\ late' = late \cup Strays(Peer(call[i].by), {i})
          /\ late \subseteq Party \X State /\ starting' \in BOOLEAN
          /\ Peer(call[i].by) \in Party
      BY <1>8, CallFacts DEF RemoteCommandFails, TypeInv, TypeOK
    <2> QED
      BY <2>1, <2>2, StrayType DEF EndStep, LateGrows
  <1> QED
    BY <1>1, <1>2, <1>3, <1>4, <1>5, <1>6, <1>7, <1>8 DEF Cut, Fail

\* Of these only the two refusals save a row, as it was loaded.
LEMMA CutSaves ==
  ASSUME NEW i \in Call, Cut(i)
  PROVE  /\ dp' = dp
         /\ \/ UNCHANGED <<cp, seen>>
            \/ /\ call[i].pc = "refusing"
               /\ Save(call[i].by, call[i].copy.state, call[i].copy.addr)
            \/ /\ call[i].hpc = "refusing"
               /\ Save(Peer(call[i].by), call[i].hcopy.state,
                       call[i].hcopy.addr)
  BY DEF Cut, Fail, SaveRefusal, Reply, SaveRemoteRefusal, DenyRequest,
         LoseRequest, Timeout, CommandFails, RemoteCommandFails

\* The steps of a call and of its handler, sorted.
LEMMA ProgressCases ==
  ASSUME NEW i \in Call, Progress(i) \/ Fail(i)
  PROVE  \/ Cut(i) \/ Command(i)
         \/ Reply(i) /\ call[i].hpc = "ok"
         \/ SaveAfterReply(i) \/ Receive(i) \/ CommandRemote(i)
         \/ SaveHandled(i)
  BY DEF Progress, Cut, Reply

\* A step of a call or of its handler keeps TypeInv.
LEMMA ProgressType ==
  ASSUME TypeInv, NEW i \in Call, Progress(i) \/ Fail(i)
  PROVE  TypeInv'
  <1>1. TypeOK /\ call[i] \in CallType
    BY CallFacts DEF TypeInv
  <1>2. /\ call[i].hpc # "none" => call[i].pc # "idle"
        /\ call[i].pc # "idle" => Target(call[i].kind) \in State
    BY CallFacts, TargetState DEF TypeInv, Loaded
  <1>3. {"posted", "saving", "done"} \subseteq Pc
        /\ {"sent", "handling", "ok"} \subseteq HPc
        /\ call[i].pc \in Pc /\ call[i].hpc \in HPc
    BY <1>1 DEF Pc, HPc, CallType
  <1>4. CASE Cut(i)
    <2>1. cp' \in [Party -> Copy] /\ seen' \in [Plane -> [Party -> SUBSET State]]
      BY <1>1, <1>4, CutSaves, SaveType, CallFacts DEF TypeOK
    <2> QED
      BY <1>1, <1>4, <2>1, CutEnds, CutSaves, EndType DEF TypeOK
  <1>5. CASE Command(i)
    <2>1. /\ call[i].pc = "commanding" /\ Store(call[i].by, Target(call[i].kind))
          /\ UNCHANGED <<cp, starting, late>>
      BY <1>5 DEF Command
    <2> QED
      BY <1>1, <1>2, <1>3, <1>5, <2>1, StepMoves, StoreType, CallFacts, MoveType
         DEF TypeOK
  <1>6. CASE Reply(i) /\ call[i].hpc = "ok"
    <2>1. call[i].pc = "posted" /\ UNCHANGED <<cp, dp, starting, late, seen>>
      BY <1>6 DEF Reply
    <2> QED
      BY <1>1, <1>3, <1>6, <2>1, StepMoves, MoveType DEF TypeOK
  <1>7. CASE SaveAfterReply(i)
    <2>1. /\ call[i].pc = "saving" /\ UNCHANGED <<dp, starting, late>>
          /\ Save(call[i].by, Target(call[i].kind), call[i].copy.addr)
      BY <1>7 DEF SaveAfterReply
    <2> QED
      BY <1>1, <1>2, <1>3, <1>7, <2>1, StepMoves, SaveType, CallFacts, MoveType
         DEF TypeOK, TypeInv, Loaded
  <1>8. CASE Receive(i)
    <2>1. call[i].hpc = "sent" /\ UNCHANGED <<cp, dp, starting, late, seen>>
      BY <1>8 DEF Receive
    <2>2. PICK next \in {"commanding", "refusing", "failed"} :
            /\ Moved(i, call[i].pc, next)
            /\ next = "refusing" => call'[i].hcopy \in Row
      BY <1>8, ReceiveFacts
    <2>3. next \in HPc
      BY DEF HPc
    <2> QED
      BY <1>1, <1>2, <1>3, <2>1, <2>2, <2>3, MoveType
         DEF TypeOK, TypeInv, Loaded
  <1>9. CASE CommandRemote(i)
    <2>1. /\ call[i].hpc = "commanding" /\ UNCHANGED <<cp, starting, late>>
          /\ Store(Peer(call[i].by), Target(call[i].kind))
      BY <1>9 DEF CommandRemote
    <2> QED
      BY <1>1, <1>2, <1>3, <1>9, <2>1, StepMoves, StoreType, CallFacts, MoveType
         DEF TypeOK, TypeInv, Loaded
  <1>10. CASE SaveHandled(i)
    <2>1. /\ call[i].hpc = "handling" /\ UNCHANGED <<dp, late>>
          /\ Save(Peer(call[i].by), Target(call[i].kind),
                  call[i].addr \/ call[i].hcopy.addr)
          /\ starting' \in BOOLEAN
      BY <1>10 DEF SaveHandled
    <2>2. (call[i].addr \/ call[i].hcopy.addr) \in BOOLEAN
      OBVIOUS
    <2> QED
      BY <1>1, <1>2, <1>3, <1>10, <2>1, <2>2, StepMoves, SaveType, CallFacts,
         MoveType
         DEF TypeOK, TypeInv, Loaded
  <1> QED
    BY <1>4, <1>5, <1>6, <1>7, <1>8, <1>9, <1>10, ProgressCases

LEMMA InitType == Init => TypeInv
  <1> SUFFICES ASSUME Init PROVE TypeInv
    OBVIOUS
  <1>1. Idle \in CallType
    BY AbsentRow DEF Idle, CallType, Kind, Pc, HPc
  <1>2. cp \in [Party -> Copy] /\ call \in [Call -> CallType]
    BY <1>1, AbsentRow DEF Init
  <1>3. /\ dp \in [Party -> State \cup {"NONE"}] /\ starting \in BOOLEAN
        /\ late \subseteq Party \X State
        /\ seen \in [Plane -> [Party -> SUBSET State]]
    BY DEF Init
  <1>4. Loaded
    BY DEF Init, Loaded, Idle
  <1> QED
    BY <1>2, <1>3, <1>4 DEF TypeInv, TypeOK

\* What a client, or the automatic start, begins.
LEMMA StartsBegin ==
  ASSUME TypeInv, NEW i \in Call
  PROVE  /\ \A p \in Party, k \in ClientKind : ClientCall(i, p, k) =>
              /\ call[i].pc = "idle" /\ starting' \in BOOLEAN
              /\ \E given \in BOOLEAN : Begin(i, p, k, given)
         /\ AutomaticStart(i) =>
              /\ call[i].pc = "idle" /\ starting' \in BOOLEAN
              /\ Begin(i, "provider", "start", TRUE)
  BY EnvironmentAssumption
     DEF TypeInv, TypeOK, ClientCall, AutomaticStart, Fresh

\* Every step keeps TypeInv.
LEMMA NextType ==
  ASSUME TypeInv, [Next]_vars
  PROVE  TypeInv'
  <1>1. ASSUME NEW i \in UserCall, RequestTransfer(i) PROVE TypeInv'
    BY <1>1, RequestFacts, BeganType
       DEF RequestTransfer, Call, Kind, TypeInv, TypeOK
  <1>2. ASSUME NEW i \in Call, NEW p \in Party, NEW k \in ClientKind,
               NEW given \in BOOLEAN, Begin(i, p, k, given),
               starting' \in BOOLEAN
        PROVE  TypeInv'
    <2>1. UNCHANGED <<cp, dp, late, seen>> /\ k \in Kind
      BY <1>2 DEF Begin, Kind
    <2> QED
      BY <1>2, <2>1, BeginFacts, BeganType
  <1>3. ASSUME NEW i \in UserCall, NEW p \in Party, NEW k \in ClientKind,
               ClientCall(i, p, k)
        PROVE  TypeInv'
    BY <1>2, <1>3, StartsBegin DEF Call
  <1>4. ASSUME NEW i \in AutoCall, AutomaticStart(i) PROVE TypeInv'
    BY <1>2, <1>4, StartsBegin DEF Call, ClientKind
  <1>5. ASSUME NEW p \in Party, NEW s \in State, LateCommand(p, s)
        PROVE  TypeInv'
    <2>1. /\ dp' \in [Party -> State \cup {"NONE"}]
          /\ seen' \in [Plane -> [Party -> SUBSET State]]
      BY <1>5, StoreType DEF LateCommand, TypeInv, TypeOK
    <2> QED
      BY <1>5, <2>1 DEF LateCommand, TypeInv, TypeOK, Loaded
  <1>6. ASSUME NEW p \in Party, Restart(p) PROVE TypeInv'
    BY <1>6, StopEnds, EndType DEF Restart, TypeInv, TypeOK
  <1>7. CASE UNCHANGED vars
    BY <1>7 DEF vars, TypeInv, TypeOK, Loaded
  <1> QED
    BY <1>1, <1>3, <1>4, <1>5, <1>6, <1>7, ProgressType DEF Next

LEMMA TypeInvariant == Spec => []TypeInv
  BY InitType, NextType, PTL DEF Spec

\* Every reachable state is well typed.
THEOREM TransferTypeCorrect == Spec => []TypeOK
  <1>1. TypeInv => TypeOK
    BY DEF TypeInv
  <1> QED
    BY <1>1, TypeInvariant, PTL

----------------------------------------------------------------------------
(* The abstract transfer.                                                   *)

\* What the order gives to a control plane that has been in some state.
LEMMA Opened ==
  ASSUME TypeOK, TransferOrdered, NEW p \in Party, NEW s \in seen["control"][p]
  PROVE  /\ "REQUESTED" \in seen["control"][p]
         /\ s = "SUSPENDED" => /\ "STARTED" \in seen["control"]["consumer"]
                               /\ "STARTED" \in seen["data"]["provider"]
  <1>1. \A pl \in Plane, q \in Party : \A t \in seen[pl][q] :
          \A n \in O!Needs(pl, q, t) : n[3] \in seen[n[1]][n[2]]
    BY DEF TransferOrdered, O!Ordered, O!Ready, O!Party, O!Plane, Plane
  <1>2. \A q \in Party, t \in State : t \in seen["control"][q] =>
          \A n \in O!ControlNeeds(q, t) : n[3] \in seen[n[1]][n[2]]
    BY <1>1 DEF O!Needs, Plane
  <1>3. \A q \in Party, t \in State : t \in seen["data"][q] =>
          \A n \in O!DataNeeds(q, t) : n[3] \in seen[n[1]][n[2]]
    BY <1>1 DEF O!Needs, Plane
  <1>4. /\ "STARTED" \in seen["control"]["provider"] =>
             "STARTED" \in seen["control"]["consumer"]
        /\ "STARTED" \in seen["control"]["consumer"] =>
             "STARTED" \in seen["data"]["consumer"]
        /\ \A t \in {"SUSPENDED", "COMPLETED", "TERMINATED"} :
             t \in seen["control"][p] => t \in seen["data"][p]
    BY <1>2 DEF O!ControlNeeds, State
  <1>5. /\ "STARTED" \in seen["data"]["consumer"] =>
             /\ "REQUESTED" \in seen["control"]["consumer"]
             /\ "STARTED" \in seen["data"]["provider"]
        /\ "STARTED" \in seen["data"]["provider"] =>
             "REQUESTED" \in seen["control"]["provider"]
        /\ \A t \in {"SUSPENDED", "COMPLETED"} :
             t \in seen["data"][p] => "STARTED" \in seen["control"][p]
        /\ "TERMINATED" \in seen["data"][p] =>
             "REQUESTED" \in seen["control"][p]
    BY <1>3 DEF O!DataNeeds, State
  <1>6. s \in State
    BY DEF TypeOK, Plane
  <1> QED
    BY <1>4, <1>5, <1>6 DEF State

\* The rows' histories only grow.
SeenGrows ==
  \A pl \in Plane, p \in Party : seen[pl][p] \subseteq seen'[pl][p]

\* Entering a state that is ready is a step of the abstract transfer, keeps the
\* order and leaves ready what was.
LEMMA Enters ==
  ASSUME TypeOK, TransferOrdered, NEW pl \in Plane, NEW p \in Party,
         NEW s \in State, O!Ready(pl, p, s),
         seen' = [seen EXCEPT ![pl][p] = @ \cup {s}]
  PROVE  /\ O!Next /\ TransferOrdered' /\ SeenGrows /\ s \in seen'[pl][p]
         /\ \A m \in Party \X State :
              O!Ready("data", m[1], m[2]) => O!Ready("data", m[1], m[2])'
  <1>1. SeenGrows /\ s \in seen'[pl][p]
    BY DEF SeenGrows, TypeOK, Plane
  <1>2. \A r \in Plane, q \in Party, t \in State :
          \A n \in O!Needs(r, q, t) : n[1] \in Plane /\ n[2] \in Party
    BY DEF O!Needs, O!ControlNeeds, O!DataNeeds, State, Plane
  <1>3. \A r \in Plane, q \in Party, t \in State :
          O!Ready(r, q, t) => O!Ready(r, q, t)'
    BY <1>1, <1>2 DEF O!Ready, SeenGrows
  <1>4. \A r \in Plane, q \in Party : \A t \in seen'[r][q] :
          t \in State /\ (t \in seen[r][q] \/ (r = pl /\ q = p /\ t = s))
    BY DEF TypeOK, Plane
  <1>5. TransferOrdered'
    BY <1>3, <1>4 DEF TransferOrdered, O!Ordered, O!Party, O!Plane, Plane
  <1>6. O!Next
    BY DEF O!Next, O!Enter, O!Party, O!Plane, O!State, Plane, State
  <1> QED
    BY <1>1, <1>3, <1>5, <1>6 DEF Plane

----------------------------------------------------------------------------
(* What is saved or stored is ready.                                        *)

\* Who makes a call, and from which states of a row it is allowed.
LEMMA KindFacts ==
  ASSUME NEW k \in ClientKind, NEW p \in Party, NEW s, Allowed(p, s, Target(k))
  PROVE  /\ k = "start" /\ p = "consumer" => s = "SUSPENDED"
         /\ k \in {"suspend", "complete"} => s = "STARTED"
  BY DEF ClientKind, Target, Allowed, providerTransitions, consumerTransitions

\* A call under way, its kind and the state of its copy.
LEMMA KnownCopy ==
  ASSUME OrderInv, NEW i \in Call, call[i].kind # "request",
         call[i].hpc # "none" \/ call[i].pc = "commanding"
  PROVE  LET k == call[i].kind  p == call[i].by  s == call[i].copy.state IN
         /\ k \in ClientKind /\ "REQUESTED" \in seen["control"][p]
         /\ k = "start" /\ p = "consumer" =>
              /\ "STARTED" \in seen["control"]["consumer"]
              /\ "STARTED" \in seen["data"]["provider"]
         /\ k \in {"suspend", "complete"} => "STARTED" \in seen["control"][p]
  <1> DEFINE k == call[i].kind  p == call[i].by  s == call[i].copy.state
  <1>1. /\ TypeOK /\ TransferOrdered /\ TypeInv /\ p \in Party /\ k \in ClientKind
        /\ s \in seen["control"][p] /\ Allowed(p, s, Target(k))
    BY CallFacts DEF OrderInv, TypeInv, Loaded, CallOrder, CopySeen, Kind
  <1>2. /\ k = "start" /\ p = "consumer" => s = "SUSPENDED"
        /\ k \in {"suspend", "complete"} => s = "STARTED"
    BY <1>1, KindFacts
  <1> QED
    BY <1>1, <1>2, Opened

\* The same for the copy of its handler.
LEMMA KnownRemoteCopy ==
  ASSUME OrderInv, NEW i \in Call, call[i].kind # "request",
         call[i].hpc \in {"commanding", "handling"}
  PROVE  LET k == call[i].kind  q == Peer(call[i].by) IN
         /\ "REQUESTED" \in seen["control"][q]
         /\ k \in {"suspend", "complete"} => "STARTED" \in seen["control"][q]
  <1> DEFINE k == call[i].kind  p == call[i].by  s == call[i].hcopy.state
  <1>1. /\ TypeOK /\ TransferOrdered /\ TypeInv /\ p \in Party /\ k \in ClientKind
        /\ s \in seen["control"][Peer(p)] /\ Allowed(p, s, Target(k))
    BY CallFacts DEF OrderInv, TypeInv, Loaded, CallOrder, RemoteCopySeen, Kind
  <1>2. k \in {"suspend", "complete"} => s = "STARTED"
    BY <1>1, KindFacts
  <1> QED
    BY <1>1, <1>2, Opened

\* A client's call needs of a data plane that its own control plane has what
\* the call builds on and, to start the consumer's, that the provider's is open.
LEMMA DataReady ==
  ASSUME NEW k \in ClientKind, NEW p \in Party,
         "REQUESTED" \in seen["control"][p],
         k = "start" /\ p = "consumer" => "STARTED" \in seen["data"]["provider"],
         k \in {"suspend", "complete"} => "STARTED" \in seen["control"][p]
  PROVE  O!Ready("data", p, Target(k))
  BY DEF ClientKind, Target, O!Ready, O!Needs, O!DataNeeds

\* What a call tells its own data plane is ready.
LEMMA CommandReady ==
  ASSUME OrderInv, NEW i \in Call, call[i].pc = "commanding"
  PROVE  O!Ready("data", call[i].by, Target(call[i].kind))
  <1>1. call[i].by \in Party
    BY CallFacts DEF OrderInv
  <1>2. CASE call[i].kind = "request"
    <2>1. call[i].by = "consumer"
      BY <1>2 DEF OrderInv, CallOrder, CopySeen
    <2> QED
      BY <1>2, <2>1 DEF Target, O!Ready, O!Needs, O!DataNeeds
  <1>3. CASE call[i].kind # "request"
    BY <1>1, <1>3, KnownCopy, DataReady
  <1> QED
    BY <1>2, <1>3

\* What a handler tells its data plane is ready.
LEMMA CommandRemoteReady ==
  ASSUME OrderInv, NEW i \in Call, call[i].hpc = "commanding"
  PROVE  O!Ready("data", Peer(call[i].by), Target(call[i].kind))
  <1>1. /\ call[i].by \in Party /\ Peer(call[i].by) \in Party
        /\ Target(call[i].kind) \in seen["data"][call[i].by]
    BY CallFacts DEF OrderInv, CallOrder, Recorded
  <1>2. CASE call[i].kind = "request"
    <2>1. call[i].by = "consumer"
      BY <1>2 DEF OrderInv, CallOrder, CopySeen
    <2> QED
      BY <1>1, <1>2, <2>1 DEF Target, O!Ready, O!Needs, O!DataNeeds
  <1>3. CASE call[i].kind # "request"
    <2>1. call[i].kind = "start" => "STARTED" \in seen["data"][call[i].by]
      BY <1>1 DEF Target
    <2> QED
      BY <1>1, <1>3, <2>1, KnownCopy, KnownRemoteCopy, DataReady
  <1> QED
    BY <1>2, <1>3

\* What the process of either side is waiting for its data plane to store.
LEMMA StrayReady ==
  ASSUME OrderInv, NEW i \in Call, NEW p \in Party, Sending(p, i)
  PROVE  O!Ready("data", p, Target(call[i].kind))
  <1>1. CASE call[i].by = p /\ call[i].pc = "commanding"
    BY <1>1, CommandReady
  <1>2. CASE call[i].by = Peer(p) /\ call[i].hpc = "commanding"
    <2>1. Peer(call[i].by) = p
      BY <1>2
    <2> QED
      BY <1>2, <2>1, CommandRemoteReady
  <1> QED
    BY <1>1, <1>2 DEF Sending

\* What a handler saves is ready: both data planes have been told.
LEMMA HandledReady ==
  ASSUME OrderInv, NEW i \in Call, call[i].hpc = "handling"
  PROVE  O!Ready("control", Peer(call[i].by), Target(call[i].kind))
  <1> DEFINE k == call[i].kind  p == call[i].by
  <1>1. /\ TypeInv /\ p \in Party
        /\ Target(k) \in seen["data"][p] /\ Target(k) \in seen["data"][Peer(p)]
    BY CallFacts DEF OrderInv, CallOrder, Recorded
  <1>2. CASE k = "request"
    <2>1. p = "consumer"
      BY <1>2 DEF OrderInv, CallOrder, CopySeen
    <2> QED
      BY <1>1, <1>2, <2>1 DEF Target, O!Ready, O!Needs, O!ControlNeeds
  <1>3. CASE k = "start"
    <2>1. p = "consumer" => "STARTED" \in seen["control"]["consumer"]
      BY <1>3, KnownCopy
    <2> QED
      BY <1>1, <1>3, <2>1 DEF Target, O!Ready, O!Needs, O!ControlNeeds
  <1>4. CASE k \in {"suspend", "complete", "terminate"}
    BY <1>1, <1>4 DEF Target, O!Ready, O!Needs, O!ControlNeeds
  <1>5. k \in Kind
    BY <1>1, CallFacts DEF TypeInv, Loaded
  <1> QED
    BY <1>2, <1>3, <1>4, <1>5 DEF Kind, ClientKind

\* What a call saves after its response is ready: the peer has saved it.
LEMMA ReplyReady ==
  ASSUME OrderInv, NEW i \in Call, call[i].pc = "saving"
  PROVE  O!Ready("control", call[i].by, Target(call[i].kind))
  <1> DEFINE k == call[i].kind  p == call[i].by
  <1>1. /\ TypeInv /\ p \in Party
        /\ Target(k) \in seen["data"][p] /\ Target(k) \in seen["data"][Peer(p)]
        /\ Target(k) \in seen["control"][Peer(p)]
    BY CallFacts DEF OrderInv, CallOrder, Recorded
  <1>2. CASE k = "request"
    <2>1. p = "consumer"
      BY <1>2 DEF OrderInv, CallOrder, CopySeen
    <2> QED
      BY <1>1, <1>2, <2>1 DEF Target, O!Ready, O!Needs, O!ControlNeeds
  <1>3. CASE k = "start"
    BY <1>1, <1>3 DEF Target, O!Ready, O!Needs, O!ControlNeeds
  <1>4. CASE k \in {"suspend", "complete", "terminate"}
    BY <1>1, <1>4 DEF Target, O!Ready, O!Needs, O!ControlNeeds
  <1>5. k \in Kind
    BY <1>1, CallFacts
  <1> QED
    BY <1>2, <1>3, <1>4, <1>5 DEF Kind, ClientKind

----------------------------------------------------------------------------
(* OrderInv is inductive, and every step is one of the abstract transfer's. *)

\* What a step leaves true of the rows and of what is ready.
Kept ==
  /\ SeenGrows /\ RowsSeen' /\ TransferOrdered'
  /\ \A m \in Party \X State :
       O!Ready("data", m[1], m[2]) => O!Ready("data", m[1], m[2])'

LEMMA SaveKeeps ==
  ASSUME OrderInv, NEW p \in Party, NEW s \in State, NEW a, Save(p, s, a),
         O!Ready("control", p, s)
  PROVE  Kept /\ O!Next /\ s \in seen'["control"][p]
  <1>1. TypeOK /\ TransferOrdered /\ "control" \in Plane
    BY DEF OrderInv, TypeInv, Plane
  <1>2. seen' = [seen EXCEPT !["control"][p] = @ \cup {s}]
    BY DEF Save
  <1>3. /\ SeenGrows /\ TransferOrdered' /\ O!Next /\ s \in seen'["control"][p]
        /\ \A m \in Party \X State :
             O!Ready("data", m[1], m[2]) => O!Ready("data", m[1], m[2])'
    BY <1>1, <1>2, Enters
  <1>4. cp'[p].state = s /\ \A q \in Party : q # p => cp'[q] = cp[q]
    BY <1>1 DEF Save, TypeOK
  <1>5. RowsSeen'
    BY <1>1, <1>3, <1>4 DEF RowsSeen, OrderInv, SeenGrows
  <1> QED
    BY <1>3, <1>5 DEF Kept

LEMMA StoreKeeps ==
  ASSUME OrderInv, NEW p \in Party, NEW s \in State, Store(p, s), cp' = cp,
         O!Ready("data", p, s)
  PROVE  Kept /\ O!Next /\ s \in seen'["data"][p]
  <1>1. TypeOK /\ TransferOrdered /\ {"control", "data"} \subseteq Plane
    BY DEF OrderInv, TypeInv, Plane
  <1>2. seen' = [seen EXCEPT !["data"][p] = @ \cup {s}]
    BY DEF Store
  <1>3. /\ SeenGrows /\ TransferOrdered' /\ O!Next /\ s \in seen'["data"][p]
        /\ \A m \in Party \X State :
             O!Ready("data", m[1], m[2]) => O!Ready("data", m[1], m[2])'
    BY <1>1, <1>2, Enters
  <1>4. RowsSeen'
    BY <1>1, <1>3 DEF RowsSeen, OrderInv, SeenGrows
  <1> QED
    BY <1>3, <1>4 DEF Kept

LEMMA QuietKeeps ==
  ASSUME OrderInv, UNCHANGED <<cp, seen>>
  PROVE  Kept
  BY DEF OrderInv, Kept, SeenGrows, RowsSeen, TransferOrdered, O!Ordered,
         O!Ready

\* What is known of a call stays true while others move.
LEMMA OtherCall ==
  ASSUME TypeInv, SeenGrows, NEW j \in Call, CallOrder(j), call'[j] = call[j]
  PROVE  CallOrder(j)'
  <1>1. /\ call[j].by \in Party /\ Peer(call[j].by) \in Party
        /\ {"control", "data"} \subseteq Plane
    BY CallFacts DEF Plane
  <1> QED
    BY <1>1 DEF CallOrder, CopySeen, RemoteCopySeen, Recorded, SeenGrows

\* A step of call i keeps OrderInv if it keeps what is known of call i.
LEMMA MoveOrder ==
  ASSUME OrderInv, TypeInv', Kept, NEW i \in Call,
         \A j \in Call : j # i => call'[j] = call[j],
         late' \subseteq late, CallOrder(i)'
  PROVE  OrderInv'
  <1>1. \A j \in Call : CallOrder(j)'
    BY OtherCall DEF OrderInv, Kept
  <1>2. LateReady'
    BY DEF OrderInv, LateReady, Kept, TypeInv, TypeOK
  <1> QED
    BY <1>1, <1>2 DEF OrderInv, Kept

\* A step that ends calls keeps OrderInv.
LEMMA EndOrder ==
  ASSUME OrderInv, TypeInv', Kept, EndStep
  PROVE  OrderInv'
  <1>1. ASSUME NEW j \in Call PROVE CallOrder(j)'
    <2>1. /\ call[j].by \in Party /\ Peer(call[j].by) \in Party
          /\ {"control", "data"} \subseteq Plane
          /\ Ended(j) /\ CallOrder(j) /\ SeenGrows
      BY CallFacts DEF Plane, OrderInv, EndStep, Kept
    <2> QED
      BY <2>1 DEF Ended, Running, CallOrder, CopySeen, RemoteCopySeen, Recorded,
                  SeenGrows
  <1>2. ASSUME NEW m \in late' PROVE O!Ready("data", m[1], m[2])'
    <2>1. m \in Party \X State
      BY DEF EndStep
    <2>2. O!Ready("data", m[1], m[2])
      <3>1. CASE m \in late
        BY <3>1 DEF OrderInv, LateReady
      <3>2. CASE m \notin late
        <4>1. PICK j \in Call, p \in Party :
                Sending(p, j) /\ m = <<p, Target(call[j].kind)>>
          BY <3>2 DEF EndStep, LateGrows
        <4> QED
          BY <4>1, StrayReady
      <3> QED
        BY <3>1, <3>2
    <2> QED
      BY <2>1, <2>2 DEF Kept
  <1> QED
    BY <1>1, <1>2 DEF OrderInv, Kept, LateReady

\* A call that begins keeps OrderInv.
LEMMA BeginOrder ==
  ASSUME OrderInv, TypeInv', NEW i \in Call, NEW p \in Party,
         NEW k \in ClientKind, NEW given \in BOOLEAN, Begin(i, p, k, given)
  PROVE  OrderInv' /\ UNCHANGED seen
  <1>1. /\ UNCHANGED <<cp, late, seen>> /\ k \notin {"none", "request"}
        /\ TypeInv
    BY DEF Begin, ClientKind, OrderInv
  <1>2. /\ Began(i, p, k) /\ call'[i].copy = cp[p] /\ cp[p] \in Row
        /\ call'[i].pc = "commanding" => Allowed(p, cp[p].state, Target(k))
    BY <1>1, BeginFacts
  <1>3. cp[p].state \in seen["control"][p]
    BY <1>2, AbsentRow DEF OrderInv, RowsSeen
  <1>4. CallOrder(i)'
    BY <1>1, <1>2, <1>3
       DEF Began, CallOrder, CopySeen, RemoteCopySeen, Recorded
  <1> QED
    BY <1>1, <1>2, <1>4, QuietKeeps, MoveOrder DEF Began

\* A step of a call or of its handler keeps OrderInv and is a step of the
\* abstract transfer, or none.
LEMMA ProgressOrder ==
  ASSUME OrderInv, TypeInv', NEW i \in Call, Progress(i) \/ Fail(i)
  PROVE  OrderInv' /\ [O!Next]_seen
  <1> DEFINE p == call[i].by  q == Peer(p)  s == Target(call[i].kind)
  <1>1. /\ TypeInv /\ TransferOrdered /\ CallOrder(i) /\ p \in Party /\ q \in Party
        /\ call[i].hpc # "none" => call[i].pc # "idle"
        /\ call[i].pc # "idle" => s \in State
        /\ {"control", "data"} \subseteq Plane
    BY CallFacts, TargetState DEF OrderInv, TypeInv, Loaded, Plane
  <1>2. CASE Cut(i)
    <2>1. ASSUME NEW r \in Party, NEW c \in Copy, c.state \in State,
                 c.state \in seen["control"][r], Save(r, c.state, c.addr)
          PROVE  Kept /\ O!Next
      <3>1. O!Ready("control", r, c.state)
        BY <2>1, <1>1 DEF TransferOrdered, O!Ordered, O!Party, O!Plane, Plane
      <3> QED
        BY <2>1, <3>1, SaveKeeps
    <2>2. /\ call[i].copy \in Copy /\ call[i].hcopy \in Copy
          /\ call[i].pc = "refusing" => /\ call[i].copy.state \in State
                                        /\ call[i].copy.state \in seen["control"][p]
          /\ call[i].hpc = "refusing" =>
               /\ call[i].hcopy.state \in State
               /\ call[i].hcopy.state \in seen["control"][q]
      BY <1>1, CallFacts DEF CallOrder, CopySeen, RemoteCopySeen, CallType
    <2>3. Kept /\ [O!Next]_seen
      BY <1>1, <1>2, <2>1, <2>2, CutSaves, QuietKeeps
    <2> QED
      BY <1>1, <1>2, <2>3, CutEnds, EndOrder
  <1>3. CASE Command(i)
    <2>1. /\ call[i].pc = "commanding" /\ Store(p, s)
          /\ UNCHANGED <<cp, starting, late>>
      BY <1>3 DEF Command
    <2>2. Kept /\ O!Next /\ s \in seen'["data"][p]
      BY <1>1, <2>1, CommandReady, StoreKeeps
    <2>3. Moved(i, "posted", "sent")
      BY <1>1, <1>3, StepMoves
    <2>4. CallOrder(i)'
      BY <1>1, <2>1, <2>2, <2>3
         DEF Moved, Kept, SeenGrows, CallOrder, CopySeen, RemoteCopySeen,
             Recorded
    <2> QED
      BY <2>1, <2>2, <2>3, <2>4, MoveOrder DEF Moved
  <1>4. CASE Reply(i) /\ call[i].hpc = "ok"
    <2>1. call[i].pc = "posted" /\ UNCHANGED <<cp, late, seen>>
      BY <1>4 DEF Reply
    <2>2. Moved(i, "saving", "ok") /\ call'[i].hcopy = call[i].hcopy
      BY <1>1, <1>4, StepMoves
    <2>3. CallOrder(i)'
      BY <1>1, <1>4, <2>1, <2>2
         DEF Moved, CallOrder, CopySeen, RemoteCopySeen, Recorded
    <2> QED
      BY <2>1, <2>2, <2>3, QuietKeeps, MoveOrder DEF Moved
  <1>5. CASE SaveAfterReply(i)
    <2>1. /\ call[i].pc = "saving" /\ UNCHANGED <<dp, late>>
          /\ Save(p, s, call[i].copy.addr)
      BY <1>5 DEF SaveAfterReply
    <2>2. Kept /\ O!Next /\ s \in seen'["control"][p]
      BY <1>1, <2>1, ReplyReady, SaveKeeps
    <2>3. Moved(i, "done", call[i].hpc) /\ call'[i].hcopy = call[i].hcopy
      BY <1>1, <1>5, StepMoves
    <2>4. CallOrder(i)'
      BY <1>1, <2>1, <2>2, <2>3
         DEF Moved, Kept, SeenGrows, CallOrder, CopySeen, RemoteCopySeen,
             Recorded
    <2> QED
      BY <2>1, <2>2, <2>3, <2>4, MoveOrder DEF Moved
  <1>6. CASE Receive(i)
    <2>1. call[i].hpc = "sent" /\ UNCHANGED <<cp, late, seen>>
      BY <1>6 DEF Receive
    <2>2. PICK next \in {"commanding", "refusing", "failed"} :
            /\ Moved(i, call[i].pc, next)
            /\ call'[i].hcopy = IF next = "failed" THEN Absent ELSE cp[q]
            /\ call[i].kind # "request" /\ next # "failed" => cp[q] \in Row
            /\ call[i].kind = "request" => next = "commanding"
            /\ call[i].kind # "request" /\ next = "commanding" =>
                 Allowed(p, cp[q].state, s)
      BY <1>1, <1>6, ReceiveFacts
    <2>3. cp[q] \in Row => cp[q].state \in seen["control"][q]
      BY <1>1, AbsentRow DEF OrderInv, RowsSeen
    <2>4. CallOrder(i)'
      BY <1>1, <2>1, <2>2, <2>3
         DEF Moved, CallOrder, CopySeen, RemoteCopySeen, Recorded
    <2> QED
      BY <2>1, <2>2, <2>4, QuietKeeps, MoveOrder DEF Moved
  <1>7. CASE CommandRemote(i)
    <2>1. /\ call[i].hpc = "commanding" /\ Store(q, s) /\ UNCHANGED <<cp, late>>
      BY <1>7 DEF CommandRemote
    <2>2. Kept /\ O!Next /\ s \in seen'["data"][q]
      BY <1>1, <2>1, CommandRemoteReady, StoreKeeps
    <2>3. Moved(i, call[i].pc, "handling") /\ call'[i].hcopy = call[i].hcopy
      BY <1>1, <1>7, StepMoves
    <2>4. CallOrder(i)'
      BY <1>1, <2>1, <2>2, <2>3
         DEF Moved, Kept, SeenGrows, CallOrder, CopySeen, RemoteCopySeen,
             Recorded
    <2> QED
      BY <2>1, <2>2, <2>3, <2>4, MoveOrder DEF Moved
  <1>8. CASE SaveHandled(i)
    <2>1. /\ call[i].hpc = "handling" /\ UNCHANGED <<dp, late>>
          /\ Save(q, s, call[i].addr \/ call[i].hcopy.addr)
      BY <1>8 DEF SaveHandled
    <2>2. Kept /\ O!Next /\ s \in seen'["control"][q]
      BY <1>1, <2>1, HandledReady, SaveKeeps
    <2>3. Moved(i, call[i].pc, "ok")
      BY <1>1, <1>8, StepMoves
    <2>4. CallOrder(i)'
      BY <1>1, <2>1, <2>2, <2>3
         DEF Moved, Kept, SeenGrows, CallOrder, CopySeen, RemoteCopySeen,
             Recorded
    <2> QED
      BY <2>1, <2>2, <2>3, <2>4, MoveOrder DEF Moved
  <1> QED
    BY <1>2, <1>3, <1>4, <1>5, <1>6, <1>7, <1>8, ProgressCases

\* Before the request OrderInv holds, and the abstract transfer has not begun.
LEMMA InitOrder == Init => OrderInv /\ O!Init
  BY InitType
     DEF Init, OrderInv, RowsSeen, LateReady, TransferOrdered, O!Ordered,
         O!Party, O!Plane, Plane, CallOrder, CopySeen, RemoteCopySeen, Recorded,
         Idle, O!Init

\* Every step keeps OrderInv and is a step of the abstract transfer, or none.
LEMMA NextOrder ==
  ASSUME OrderInv, [Next]_vars
  PROVE  OrderInv' /\ [O!Next]_seen
  <1>1. TypeInv /\ TypeOK /\ TypeInv'
    BY NextType DEF OrderInv, TypeInv
  <1>2. ASSUME NEW i \in UserCall, RequestTransfer(i)
        PROVE  OrderInv' /\ UNCHANGED seen
    <2>1. i \in Call /\ UNCHANGED <<cp, late, seen>>
      BY <1>2 DEF RequestTransfer, Call
    <2>2. Began(i, "consumer", "request") /\ call'[i].pc = "commanding"
      BY <1>1, <1>2, <2>1, RequestFacts
    <2>3. CallOrder(i)'
      BY <2>2 DEF Began, CallOrder, CopySeen, RemoteCopySeen, Recorded
    <2> QED
      BY <1>1, <2>1, <2>2, <2>3, QuietKeeps, MoveOrder DEF Began
  <1>3. ASSUME NEW i \in UserCall, NEW p \in Party, NEW k \in ClientKind,
               ClientCall(i, p, k)
        PROVE  OrderInv' /\ UNCHANGED seen
    BY <1>1, <1>3, StartsBegin, BeginOrder DEF Call
  <1>4. ASSUME NEW i \in AutoCall, AutomaticStart(i)
        PROVE  OrderInv' /\ UNCHANGED seen
    BY <1>1, <1>4, StartsBegin, BeginOrder DEF Call, ClientKind
  <1>5. ASSUME NEW p \in Party, NEW s \in State, LateCommand(p, s)
        PROVE  OrderInv' /\ [O!Next]_seen
    <2>1. /\ <<p, s>> \in late /\ late' \subseteq late /\ UNCHANGED <<cp, call>>
          /\ Store(p, s) \/ UNCHANGED <<dp, seen>>
      BY <1>5 DEF LateCommand
    <2>2. O!Ready("data", p, s)
      BY <2>1 DEF OrderInv, LateReady
    <2>3. Kept /\ [O!Next]_seen
      BY <2>1, <2>2, StoreKeeps, QuietKeeps
    <2>4. EndStep
      BY <1>1, <2>1 DEF EndStep, Ended, LateGrows, TypeInv, TypeOK
    <2> QED
      BY <1>1, <2>3, <2>4, EndOrder
  <1>6. ASSUME NEW p \in Party, Restart(p) PROVE OrderInv' /\ UNCHANGED seen
    BY <1>1, <1>6, StopEnds, QuietKeeps, EndOrder DEF Restart
  <1>7. CASE UNCHANGED vars
    <2>1. UNCHANGED <<cp, seen, call, late>>
      BY <1>7 DEF vars
    <2>2. EndStep
      BY <1>1, <1>7, <2>1 DEF vars, EndStep, Ended, LateGrows, TypeInv, TypeOK
    <2> QED
      BY <1>1, <2>1, <2>2, QuietKeeps, EndOrder
  <1> QED
    BY <1>1, <1>2, <1>3, <1>4, <1>5, <1>6, <1>7, ProgressOrder DEF Next

\* OrderInv holds throughout: induction over the steps.
LEMMA OrderInvariant == Spec => []OrderInv
  BY InitOrder, NextOrder, PTL DEF Spec

\* The four rows of a transfer enter their states in order, whatever calls are
\* made, interleaved, refused, lost, late or cut off by a restart.
THEOREM RowsOrdered == Spec => []TransferOrdered
  <1>1. OrderInv => TransferOrdered
    BY DEF OrderInv
  <1> QED
    BY <1>1, OrderInvariant, PTL

\* The two control planes and their data planes implement the abstract transfer.
THEOREM TransferImplementsOrder == Spec => ImplementsOrder
  <1>1. Init => O!Init
    BY InitOrder
  <1>2. OrderInv /\ [Next]_vars => [O!Next]_seen
    BY NextOrder
  <1> QED
    BY <1>1, <1>2, OrderInvariant, PTL DEF Spec, ImplementsOrder, O!Spec

\* A call that succeeded has been recorded by all four rows.
THEOREM TransferAcknowledged == Spec => []AcknowledgedByAll
  <1>1. OrderInv => AcknowledgedByAll
    <2> SUFFICES ASSUME OrderInv, NEW i \in Call, call[i].pc = "done",
                        NEW pl \in Plane, NEW p \in Party
                 PROVE  Target(call[i].kind) \in seen[pl][p]
      BY DEF AcknowledgedByAll
    <2>1. call[i].by \in Party
      BY CallFacts DEF OrderInv
    <2> QED
      BY <2>1 DEF OrderInv, CallOrder, Recorded, Plane
  <1> QED
    BY <1>1, OrderInvariant, PTL
----------------------------------------------------------------------------
(* Agreement when nothing is under way.                                     *)

\* The row a party has not got is the one in no state.
LEMMA NoRow ==
  ASSUME TypeInv, NEW p \in Party
  PROVE  /\ cp[p] = Absent <=> cp[p].state = "NONE"
         /\ cp[p].state \in State \cup {"NONE"}
         /\ cp[p] # Absent => cp[p].state \in State
  <1>1. cp[p] \in Row \cup {Absent}
    BY DEF TypeInv, TypeOK, Copy
  <1>2. \A r \in Row : r.state \in State
    BY Zenon DEF Row
  <1>3. Absent.state = "NONE" /\ "NONE" \notin State
    BY DEF Absent, State
  <1> QED
    BY <1>1, <1>2, <1>3

\* What a save, and a store, make of the four rows.
LEMMA SaveRows ==
  ASSUME TypeInv, NEW p \in Party, NEW s, NEW a, Save(p, s, a)
  PROVE  cp'[p].state = s /\ \A q \in Party : q # p => cp'[q] = cp[q]
  <1>1. cp' = [cp EXCEPT ![p] = [state |-> s, addr |-> a]]
    BY DEF Save
  <1>2. cp'[p] = [state |-> s, addr |-> a]
    BY <1>1 DEF TypeInv, TypeOK
  <1> QED
    BY <1>1, <1>2 DEF TypeInv, TypeOK

LEMMA StoreRows ==
  ASSUME TypeInv, NEW p \in Party, NEW s, Store(p, s)
  PROVE  dp'[p] = s /\ \A q \in Party : q # p => dp'[q] = dp[q]
  BY DEF Store, TypeInv, TypeOK

\* Where a call that is under way, and its handler, can be.
LEMMA WhileRunning ==
  ASSUME TypeInv, QuietInv, NEW i \in Call
  PROVE  /\ call[i].hpc = "sent" \/ Handling(i) => call[i].pc = "posted"
         /\ call[i].pc \in {"refusing", "commanding", "posted", "saving"} =>
              Running(i) /\ Halfway(i) /\ i \notin AutoCall
         /\ call[i].hpc # "refusing" \/ call[i].pc # "posted"
  BY DEF QuietInv, Alone, Running, Halfway

\* A step of the call that is under way keeps QuietInv if it leaves the call
\* halfway, or all rows alike when it ends the call.
LEMMA QuietMove ==
  ASSUME TypeInv, QuietInv, NEW i \in Call, NEW pc, NEW hpc, Running(i),
         Moved(i, pc, hpc), pc # "idle", ~starting', late' = {},
         hpc \in {"sent", "refusing", "commanding", "handling"} => pc = "posted",
         pc \in {"refusing", "commanding"} => hpc = "none",
         pc = "posted" => hpc # "none",
         pc = "saving" => hpc = "ok",
         pc \in {"done", "failed"} \/ Halfway(i)',
         pc \in {"done", "failed"} => (\E s \in State : RowsIn(s)') \/ NoTransfer'
  PROVE  QuietInv'
  <1>1. \A j \in Call : j # i => call'[j] = call[j] /\ ~Running(j)
    BY DEF Moved, QuietInv, Alone
  <1>2. \A j \in Call : Running(j)' => j = i /\ pc \notin {"done", "failed"}
    BY <1>1 DEF Moved, Running
  <1>3. i \notin AutoCall
    BY DEF QuietInv, Alone, Running
  <1>4. Alone'
    <2>1. \A j \in AutoCall : call'[j].pc = "idle"
      BY <1>1, <1>3 DEF QuietInv, Alone, Call
    <2>2. \A j \in Call :
            /\ (call[j].hpc = "sent" \/ Handling(j) => call[j].pc = "posted")'
            /\ (call[j].pc \in {"refusing", "commanding"} =>
                  call[j].hpc = "none")'
            /\ (call[j].pc = "posted" => call[j].hpc # "none")'
            /\ (call[j].pc = "saving" => call[j].hpc = "ok")'
      BY <1>1 DEF Moved, QuietInv, Alone, Handling
    <2> QED
      BY <1>2, <2>1, <2>2 DEF Alone
  <1>5. \A j \in Call : Running(j)' => Halfway(j)'
    BY <1>2
  <1>6. Requested'
    <2>1. Requested
      BY DEF QuietInv, Running
    <2> QED
      BY <1>1, <2>1 DEF Requested, Moved
  <1>7. (\A j \in Call : ~Running(j)') =>
          (\E s \in State : RowsIn(s)') \/ NoTransfer'
    BY DEF Running, Moved
  <1> QED
    BY <1>4, <1>5, <1>6, <1>7 DEF QuietInv
\* A call that throws, with no command on its way, just ends.
LEMMA ThrowMoves ==
  ASSUME TypeInv, QuietInv, NEW i \in Call, Running(i), Throw(i),
         call[i].pc # "commanding", call[i].hpc # "commanding"
  PROVE  Moved(i, "failed", call[i].hpc) /\ ~starting' /\ late' = {}
  <1>1. i \notin AutoCall
    BY DEF QuietInv, Alone, Running
  <1>2. /\ call' = [call EXCEPT ![i].pc = "failed"]
        /\ late' = late \cup Strays(call[i].by, {i}) /\ starting' = starting
    BY <1>1 DEF Throw
  <1>3. Strays(call[i].by, {i}) = {}
    BY DEF Strays, Sending
  <1>4. Moved(i, "failed", call[i].hpc)
    BY <1>2, MovePc DEF TypeInv, Pc
  <1> QED
    BY <1>2, <1>3, <1>4 DEF QuietInv, Alone

\* The steps that cut a call off: a refused call leaves the rows as they were,
\* and a request that was turned away has made no row in a control plane.
LEMMA QuietCut ==
  ASSUME OneByOne, TypeInv, QuietInv, NEW i \in Call, Cut(i)
  PROVE  QuietInv'
  <1> DEFINE p == call[i].by  q == Peer(call[i].by)
  <1>1. /\ p \in Party /\ q \in Party /\ \A r \in Party : r = p \/ r = q
        /\ p # q
    BY CallFacts
  <1>2. CASE SaveRefusal(i)
    <2>1. /\ call[i].pc = "refusing" /\ call[i].hpc = "none"
          /\ Running(i) /\ Halfway(i)
      BY <1>2, WhileRunning DEF SaveRefusal, QuietInv, Alone
    <2>2. /\ Moved(i, "failed", "none") /\ ~starting' /\ late' = {}
          /\ dp' = dp
      BY <1>2, <2>1, ThrowMoves DEF SaveRefusal
    <2>3. PICK s \in State : s = call[i].copy.state
      BY <2>1, CallFacts
    <2>4. Save(p, s, call[i].copy.addr)
      BY <1>2, <2>3 DEF SaveRefusal
    <2>5. cp'[p].state = s /\ cp'[q] = cp[q]
      <3> HIDE DEF p, q
      <3> QED
        BY <1>1, <2>4, SaveRows
    <2>6. cp[q].state = s /\ dp[p] = s /\ dp[q] = s
      BY <2>1, <2>3 DEF Halfway
    <2>7. RowsIn(s)'
      <3>1. \A r \in Party : cp'[r].state = s /\ dp'[r] = s
        BY <1>1, <2>2, <2>5, <2>6
      <3> QED
        BY <3>1 DEF RowsIn
    <2> QED
      BY <2>1, <2>2, <2>7, QuietMove
  <1>3. CASE Reply(i) /\ call[i].hpc = "failed"
    <2>1. call[i].pc = "posted" /\ Running(i) /\ Halfway(i)
      BY <1>3, WhileRunning DEF Reply
    <2>2. /\ Moved(i, "failed", "failed") /\ ~starting' /\ late' = {}
          /\ UNCHANGED <<cp, dp>>
      BY <1>3, <2>1, ThrowMoves DEF Reply
    <2>3. cp[p].state = "NONE" /\ cp[q].state = "NONE"
      BY <1>3, <2>1 DEF Halfway
    <2>4. NoTransfer'
      <3>1. \A r \in Party : cp[r] = Absent
        BY <1>1, <2>3, NoRow
      <3> QED
        BY <2>2, <3>1 DEF NoTransfer
    <2> QED
      BY <2>1, <2>2, <2>4, QuietMove
  <1>4. CASE DenyRequest(i)
    <2>1. /\ call[i].pc = "posted" /\ call[i].hpc = "handling"
          /\ call[i].kind = "request" /\ Running(i) /\ Halfway(i)
      BY <1>4, WhileRunning DEF DenyRequest, Handling
    <2>2. Moved(i, "posted", "failed") /\ UNCHANGED <<cp, dp, starting, late>>
      <3>1. /\ call' = [call EXCEPT ![i].hpc = "failed", ![i].hcopy = Absent]
            /\ UNCHANGED <<cp, dp, starting, late>>
        BY <1>4 DEF DenyRequest
      <3>2. TypeOK /\ "failed" \in HPc
        BY DEF TypeInv, HPc
      <3>3. Moved(i, call[i].pc, "failed")
        BY <3>1, <3>2, MoveHandler, AbsentRow
      <3> QED
        BY <2>1, <3>1, <3>3
    <2>3. Halfway(i)'
      BY <2>1, <2>2 DEF Moved, Halfway
    <2> QED
      BY <2>1, <2>2, <2>3, QuietMove DEF QuietInv, Alone
  <1>5. ~SaveRemoteRefusal(i)
    BY WhileRunning DEF SaveRemoteRefusal, Handling
  <1>6. ~Fail(i)
    BY DEF OneByOne, Fail, LoseRequest, Timeout, CommandFails, RemoteCommandFails
  <1> QED
    BY <1>2, <1>3, <1>4, <1>5, <1>6 DEF Cut
\* The steps by which a call goes on bring one row after the other into the new
\* state; the last of them makes the four rows alike.
LEMMA QuietGoesOn ==
  ASSUME OneByOne, TypeInv, QuietInv, NEW i \in Call,
         \/ Command(i)
         \/ Reply(i) /\ call[i].hpc = "ok"
         \/ SaveAfterReply(i) \/ Receive(i) \/ CommandRemote(i)
         \/ SaveHandled(i)
  PROVE  QuietInv'
  <1>1. PICK p \in Party, q \in Party :
          /\ p = call[i].by /\ q = Peer(p)
          /\ p # q /\ \A r \in Party : r = p \/ r = q
    BY CallFacts
  <1>2. call[i].pc # "idle" => call[i].kind \in Kind
    BY CallFacts
  <1>3. PICK t : /\ t = Target(call[i].kind)
                 /\ call[i].kind \in Kind => t \in State
    BY TargetState
  <1>4. PICK s : s = call[i].copy.state
    OBVIOUS
  <1>5. ~starting /\ late = {}
    BY DEF QuietInv, Alone
  <1>6. CASE Command(i)
    <2>1. /\ call[i].pc = "commanding" /\ call[i].hpc = "none"
          /\ Running(i) /\ Halfway(i)
      BY <1>6, WhileRunning DEF Command, QuietInv, Alone
    <2>2. Moved(i, "posted", "sent") /\ UNCHANGED <<cp, starting, late>>
      BY <1>6, StepMoves DEF Command
    <2>3. dp'[p] = t /\ dp'[q] = dp[q]
      BY <1>1, <1>3, <1>6, StoreRows DEF Command
    <2>4. Halfway(i)'
      BY <1>1, <1>3, <2>1, <2>2, <2>3 DEF Moved, Halfway
    <2> QED
      BY <1>5, <2>1, <2>2, <2>4, QuietMove
  <1>7. CASE Reply(i) /\ call[i].hpc = "ok"
    <2>1. call[i].pc = "posted" /\ Running(i) /\ Halfway(i)
      BY <1>7, WhileRunning DEF Reply
    <2>2. Moved(i, "saving", "ok") /\ UNCHANGED <<cp, dp, starting, late>>
      BY <1>7, StepMoves DEF Reply
    <2>3. Halfway(i)'
      BY <1>7, <2>1, <2>2 DEF Moved, Halfway
    <2> QED
      BY <1>5, <2>1, <2>2, <2>3, QuietMove
  <1>8. CASE SaveAfterReply(i)
    <2>1. /\ call[i].pc = "saving" /\ call[i].hpc = "ok"
          /\ Running(i) /\ Halfway(i)
      BY <1>8, WhileRunning DEF SaveAfterReply, QuietInv, Alone
    <2>2. Moved(i, "done", "ok") /\ UNCHANGED <<dp, starting, late>>
      BY <1>8, <2>1, StepMoves DEF SaveAfterReply
    <2>3. Save(p, t, call[i].copy.addr)
      BY <1>1, <1>3, <1>8 DEF SaveAfterReply
    <2>4. cp'[p].state = t /\ cp'[q] = cp[q]
      BY <1>1, <2>3, SaveRows
    <2>5. cp[q].state = t /\ dp[p] = t /\ dp[q] = t
      BY <1>1, <1>3, <2>1 DEF Halfway
    <2>6. \A r \in Party : cp'[r].state = t /\ dp'[r] = t
      BY <1>1, <2>2, <2>4, <2>5
    <2>7. RowsIn(t)' /\ t \in State
      BY <1>2, <1>3, <2>1, <2>6 DEF RowsIn
    <2> QED
      BY <1>5, <2>1, <2>2, <2>7, QuietMove
  <1>9. CASE Receive(i)
    <2>1. /\ call[i].pc = "posted" /\ call[i].hpc = "sent"
          /\ Running(i) /\ Halfway(i)
      BY <1>9, WhileRunning DEF Receive
    <2>2. UNCHANGED <<cp, dp, starting, late>>
      BY <1>9 DEF Receive
    <2>3. cp[q].state = s
      BY <1>1, <1>4, <2>1 DEF Halfway
    <2>4. call[i].kind # "request" =>
            /\ s \in State /\ Allowed(p, s, t)
            /\ call[i].kind = "start" => call[i].addr
      BY <1>1, <1>3, <1>4, <2>1 DEF Halfway
    <2>5. cp[q] = Absent => s \notin State
      BY <2>3, NoRow DEF State
    <2>6. Moved(i, "posted", "commanding")
      BY <1>1, <1>3, <1>9, <2>1, <2>3, <2>4, <2>5, ReceiveFacts
    <2>7. Halfway(i)'
      BY <2>1, <2>2, <2>6 DEF Moved, Halfway
    <2> QED
      BY <1>5, <2>1, <2>2, <2>6, <2>7, QuietMove
  <1>10. CASE CommandRemote(i)
    <2>1. /\ call[i].pc = "posted" /\ call[i].hpc = "commanding"
          /\ Running(i) /\ Halfway(i)
      BY <1>10, WhileRunning DEF CommandRemote, Handling
    <2>2. Moved(i, "posted", "handling") /\ UNCHANGED <<cp, starting, late>>
      BY <1>10, <2>1, StepMoves DEF CommandRemote
    <2>3. dp'[q] = t /\ dp'[p] = dp[p]
      BY <1>1, <1>3, <1>10, StoreRows DEF CommandRemote
    <2>4. Halfway(i)'
      BY <1>1, <1>3, <2>1, <2>2, <2>3 DEF Moved, Halfway
    <2> QED
      BY <1>5, <2>1, <2>2, <2>4, QuietMove
  <1>11. CASE SaveHandled(i)
    <2>1. /\ call[i].pc = "posted" /\ call[i].hpc = "handling"
          /\ Running(i) /\ Halfway(i)
      BY <1>11, WhileRunning DEF SaveHandled, Handling
    <2>2. Moved(i, "posted", "ok") /\ UNCHANGED <<dp, late>>
      BY <1>11, <2>1, StepMoves DEF SaveHandled
    <2>3. ~starting'
      BY <1>5, <1>11 DEF SaveHandled, OneByOne
    <2>4. Save(q, t, call[i].addr \/ call[i].hcopy.addr)
      BY <1>1, <1>3, <1>11 DEF SaveHandled
    <2>5. cp'[q].state = t /\ cp'[p] = cp[p]
      BY <1>1, <2>4, SaveRows
    <2>6. Halfway(i)'
      BY <1>1, <1>3, <2>1, <2>2, <2>5 DEF Moved, Halfway
    <2> QED
      BY <1>5, <2>1, <2>2, <2>3, <2>6, QuietMove
  <1> QED
    BY <1>6, <1>7, <1>8, <1>9, <1>10, <1>11
\* A call that begins when no other is under way, with no row moved yet, keeps
\* QuietInv.
LEMMA QuietBegin ==
  ASSUME TypeInv, QuietInv, NEW i \in UserCall, NEW p, NEW k, Began(i, p, k),
         call[i].pc = "idle", \A j \in Call : ~Running(j),
         UNCHANGED <<starting, late>>, Requested', Halfway(i)'
  PROVE  QuietInv'
  <1>1. i \in Call /\ i \notin AutoCall /\ AutoCall \subseteq Call
    BY CallAssumption DEF Call
  <1>2. \A j \in Call : j # i => call'[j] = call[j] /\ ~Running(j)'
    BY DEF Began, Running
  <1>3. /\ call'[i].pc \in {"commanding", "refusing"} /\ call'[i].hpc = "none"
        /\ Running(i)'
    BY DEF Began, Running
  <1>4. Alone'
    <2>1. \A j \in AutoCall : call'[j].pc = "idle"
      BY <1>1, <1>2 DEF QuietInv, Alone
    <2>2. \A j \in Call :
            /\ (call[j].hpc = "sent" \/ Handling(j) => call[j].pc = "posted")'
            /\ (call[j].pc \in {"refusing", "commanding"} =>
                  call[j].hpc = "none")'
            /\ (call[j].pc = "posted" => call[j].hpc # "none")'
            /\ (call[j].pc = "saving" => call[j].hpc = "ok")'
      BY <1>2, <1>3 DEF QuietInv, Alone, Handling
    <2> QED
      BY <1>2, <2>1, <2>2 DEF QuietInv, Alone
  <1> QED
    BY <1>1, <1>2, <1>3, <1>4 DEF QuietInv

\* Every step keeps QuietInv.
LEMMA QuietNext ==
  ASSUME OneByOne, TypeInv, QuietInv, [Next]_vars
  PROVE  QuietInv'
  <1>1. ASSUME NEW i \in UserCall, RequestTransfer(i) PROVE QuietInv'
    <2>1. /\ i \in Call /\ call[i].pc = "idle" /\ ~Requested
          /\ UNCHANGED <<cp, dp, starting, late>>
      BY <1>1 DEF RequestTransfer, Fresh, Call, Requested
    <2>2. RowsIn("NONE") /\ \A j \in Call : ~Running(j)
      BY <2>1 DEF QuietInv, Running
    <2>3. /\ Began(i, "consumer", "request") /\ call'[i].pc = "commanding"
          /\ call'[i].copy = Absent
      BY <1>1, <2>1, RequestFacts
    <2>4. Halfway(i)'
      BY <2>1, <2>2, <2>3 DEF Began, Halfway, RowsIn, Absent
    <2>5. Requested'
      BY <2>1, <2>3 DEF Began, Requested
    <2> QED
      BY <2>1, <2>2, <2>3, <2>4, <2>5, QuietBegin
  <1>2. ASSUME NEW i \in UserCall, NEW p \in Party, NEW k \in ClientKind,
               ClientCall(i, p, k)
        PROVE  QuietInv'
    <2>1. PICK given \in BOOLEAN :
            Begin(i, p, k, given) /\ (k = "start" => given)
      BY <1>2, EnvironmentAssumption DEF ClientCall, OneByOne
    <2>2. /\ i \in Call /\ call[i].pc = "idle" /\ cp[p] # Absent
          /\ \A j \in UserCall : ~Running(j)
          /\ UNCHANGED <<cp, dp, starting, late>>
      BY <1>2, <2>1
         DEF ClientCall, ClientFree, OneByOne, Fresh, Call, Begin
    <2>3. \A j \in Call : ~Running(j)
      BY <2>2 DEF Call, QuietInv, Alone, Running
    <2>4. Requested /\ \E s \in State : RowsIn(s)
      <3>1. cp[p].state # "NONE"
        BY <2>2, NoRow
      <3> QED
        BY <2>2, <2>3, <3>1 DEF QuietInv, RowsIn, NoTransfer
    <2>5. PICK s \in State : RowsIn(s)
      BY <2>4
    <2>6. /\ Began(i, p, k) /\ call'[i].copy = cp[p]
          /\ call'[i].pc = "commanding" => Allowed(p, cp[p].state, Target(k))
          /\ k = "start" => call'[i].addr
      BY <2>1, <2>2, BeginFacts
    <2>7. k # "request" /\ cp[p].state = s
      BY <2>5 DEF ClientKind, RowsIn
    <2>8. Halfway(i)'
      BY <2>2, <2>5, <2>6, <2>7 DEF Began, Halfway, RowsIn
    <2>9. Requested'
      BY <2>2, <2>4, <2>6 DEF Requested, Began, TypeInv, Loaded
    <2> QED
      BY <2>2, <2>3, <2>6, <2>8, <2>9, QuietBegin
  <1>3. ASSUME NEW i \in AutoCall, AutomaticStart(i) PROVE QuietInv'
    BY <1>3 DEF AutomaticStart, QuietInv, Alone
  <1>4. ASSUME NEW i \in Call, Progress(i) \/ Fail(i) PROVE QuietInv'
    <2>1. CASE Cut(i)
      BY <2>1, <1>4, QuietCut
    <2>2. CASE ~Cut(i)
      <3>1. \/ Command(i)
            \/ Reply(i) /\ call[i].hpc = "ok"
            \/ SaveAfterReply(i) \/ Receive(i) \/ CommandRemote(i)
            \/ SaveHandled(i)
        BY <1>4, <2>2, ProgressCases
      <3> QED
        BY <1>4, <3>1, QuietGoesOn
    <2> QED
      BY <2>1, <2>2
  <1>5. ASSUME NEW p \in Party, NEW s \in State, LateCommand(p, s)
        PROVE  QuietInv'
    BY <1>5 DEF LateCommand, QuietInv, Alone
  <1>6. ASSUME NEW p \in Party, Restart(p) PROVE QuietInv'
    BY <1>6 DEF Restart, OneByOne
  <1>7. CASE UNCHANGED vars
    BY <1>7 DEF vars, QuietInv, Alone, Running, Handling, Halfway, RowsIn,
                NoTransfer, Requested
  <1> QED
    BY <1>1, <1>2, <1>3, <1>4, <1>5, <1>6, <1>7 DEF Next

\* Before the request no row is in any state.
LEMMA QuietInit == Init => QuietInv
  <1> SUFFICES ASSUME Init PROVE QuietInv
    OBVIOUS
  <1>1. \A i \in Call : call[i] = Idle
    BY DEF Init
  <1>2. Idle.pc = "idle" /\ Idle.hpc = "none"
    BY DEF Idle
  <1>3. \A i \in Call : call[i].pc = "idle" /\ ~Running(i) /\ ~Handling(i)
    BY <1>1, <1>2 DEF Running, Handling
  <1>4. Alone
    BY <1>1, <1>2, <1>3 DEF Init, Alone, Call
  <1>5. RowsIn("NONE") /\ NoTransfer
    BY DEF Init, RowsIn, NoTransfer, Absent
  <1> QED
    BY <1>3, <1>4, <1>5 DEF QuietInv

\* As long as clients call one after the other, name an address in every start,
\* and nothing fails or starts by itself, the four rows agree whenever nothing
\* is under way, also after calls that were refused and a request that was
\* denied.
THEOREM RowsAgreeWhenQuiet ==
  ASSUME OneByOne
  PROVE  Spec => []QuietAgreement
  <1>1. TypeInv /\ QuietInv /\ [Next]_vars => QuietInv'
    BY QuietNext
  <1>2. TypeInv /\ QuietInv => QuietAgreement
    BY DEF QuietInv, QuietAgreement, Quiescent, RowsIn, NoTransfer
  <1> QED
    BY <1>1, <1>2, QuietInit, TypeInvariant, PTL DEF Spec
=============================================================================
