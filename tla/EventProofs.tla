---------------------------- MODULE EventProofs ----------------------------
(***************************************************************************)
(* Proofs about AlgorithmEvents: for any events, uploads, numbers of       *)
(* chunks and faults.                                                      *)
(***************************************************************************)
EXTENDS EventInduction, TLAPS

----------------------------------------------------------------------------
(* Types.                                                                   *)

LEMMA Constants ==
  /\ Chunks \in Nat /\ Chunks > 1 /\ 1 \in Part /\ Part \subseteq Nat
  /\ \A u \in Upload : Of[u] \in Event /\ u # None
  BY EventAssumption DEF Part

LEMMA Messages ==
  /\ \A e \in Event : Msg("create", e, 0) \in Message
  /\ \A u \in Upload : Msg("data", u, 0) \in Message
  /\ \A u \in Upload, n \in Part : Msg("chunk", u, n) \in Message
  BY DEF Msg, Message

LEMMA MessageParts ==
  ASSUME NEW m \in Message
  PROVE  /\ m.do \in {"create", "data", "chunk"}
         /\ m.do = "create" => m.id \in Event /\ m.part = 0
         /\ m.do = "data" => m.id \in Upload /\ m.part = 0
         /\ m.do = "chunk" => m.id \in Upload /\ m.part \in Part
         /\ m = Msg(m.do, m.id, m.part)
  BY DEF Message, Msg

LEMMA Handlers ==
  /\ \A m \in Message : /\ Handling(m) \in Handler
                        /\ Handling(m).msg = m /\ Handling(m).pc = "forward"
  /\ \A w \in Handler : w.msg \in Message /\ w.pc \in {"forward", "save"}
  /\ \A w \in Handler : /\ [w EXCEPT !.pc = "save"] \in Handler
                        /\ [w EXCEPT !.pc = "save"].msg = w.msg
                        /\ [w EXCEPT !.pc = "save"].pc = "save"
  /\ \A w \in Handler : /\ [w EXCEPT !.answer = FALSE] \in Handler
                        /\ [w EXCEPT !.answer = FALSE].msg = w.msg
                        /\ [w EXCEPT !.answer = FALSE].pc = w.pc
  BY DEF Handling, Handler

\* A message that arrives was the first on the wire.
LEMMA Arrival ==
  ASSUME TypeOK, NEW do, Arrives(do)
  PROVE  /\ Head(wire) \in Message /\ Head(wire).do = do
         /\ wire' \in Seq(Message)
         /\ Head(wire) = wire[1] /\ Len(wire) \in Nat /\ Len(wire) > 0
         /\ Len(wire') = Len(wire) - 1
         /\ \A k \in 1..Len(wire') : wire'[k] = wire[k + 1]
  BY DEF TypeOK, Arrives

LEMMA PushArrival ==
  ASSUME TypeOK, NEW do, Pushed(do)
  PROVE  /\ Head(push) \in Message /\ Head(push).do = do
         /\ push' \in Seq(Message)
  BY DEF TypeOK, Pushed

LEMMA PushType ==
  ASSUME TypeOK, NEW m \in Message, Push(m)
  PROVE  push' \in Seq(Message)
  BY DEF TypeOK, Push

LEMMA Appended ==
  ASSUME wire \in Seq(Message), NEW m \in Message
  PROVE  Append(wire, m) \in Seq(Message)
  OBVIOUS

\* A database that gets an event.
LEMMA RowGets ==
  ASSUME row \in [Database -> SUBSET Event], NEW p \in Database, NEW e \in Event,
         row' = [row EXCEPT ![p] = @ \cup {e}]
  PROVE  /\ row' \in [Database -> SUBSET Event]
         /\ row'[p] = row[p] \cup {e}
         /\ \A q \in Database : q # p => row'[q] = row[q]
  OBVIOUS

OddKinds == {"fault", "overlap", "tie", "dropped", "unlinked"}
OddTypeOK == odd \subseteq OddKinds /\ trouble \in Nat

LEMMA OddTypes ==
  ASSUME OddTypeOK, NEW S \in SUBSET OddKinds,
         \/ Trouble(S)
         \/ Odd(S)
         \/ UNCHANGED history
  PROVE  OddTypeOK' /\ odd \subseteq odd'
  <1>1. Trouble(S) => OddTypeOK' /\ odd \subseteq odd'
    BY DEF OddTypeOK, Trouble
  <1>2. CASE Odd(S)
    <2>1. CASE S = {}
      BY <1>2, <2>1 DEF OddTypeOK, Odd, history
    <2>2. CASE S # {}
      BY <1>1, <1>2, <2>2 DEF Odd
    <2> QED
      BY <2>1, <2>2
  <1>3. CASE UNCHANGED history
    BY <1>3 DEF OddTypeOK, history
  <1> QED
    BY <1>1, <1>2, <1>3

LEMMA FaultTypes ==
  ASSUME OddTypeOK, Fault
  PROVE  OddTypeOK' /\ odd \subseteq odd'
  BY OddTypes DEF Fault, OddKinds

LEMMA UploadMoves ==
  ASSUME upload \in [Upload -> UploadCall], NEW u \in Upload,
         NEW pc \in {"none", "waiting", "sent", "asked", "done", "failed"},
         upload' = [upload EXCEPT ![u].pc = pc]
  PROVE  /\ upload' \in [Upload -> UploadCall]
         /\ \A v \in Upload : v # u => upload'[v] = upload[v]
         /\ upload'[u].next = upload[u].next /\ upload'[u].pc = pc
  BY DEF UploadCall

LEMMA UploadGoes ==
  ASSUME upload \in [Upload -> UploadCall], NEW u \in Upload, NEW n \in Part,
         upload' = [upload EXCEPT ![u].next = n]
  PROVE  /\ upload' \in [Upload -> UploadCall]
         /\ \A v \in Upload : v # u => upload'[v] = upload[v]
         /\ upload'[u].next = n /\ upload'[u].pc = upload[u].pc
  BY DEF UploadCall

LEMMA ClientTypes ==
  ASSUME TypeOK,
         \/ \E e \in Event : \/ CreateEvent(e) \/ EmitCreate(e)
                             \/ CreateAcked(e) \/ CreateFails(e)
         \/ \E u \in Upload : \/ BeginUpload(u) \/ EmitData(u)
                              \/ ChunkAcked(u) \/ UploadFails(u)
  PROVE  TypeOK'
  <1> USE Constants, Messages
      DEF TypeOK, OddTypeOK, OddKinds, job, bridge, receiver,
    history
  <1>1. ASSUME NEW e \in Event, CreateEvent(e) PROVE TypeOK'
    BY <1>1 DEF CreateEvent, OddTypeOK
  <1>2. ASSUME NEW e \in Event, EmitCreate(e) PROVE TypeOK'
    BY <1>2 DEF EmitCreate, OddTypeOK
  <1>3. ASSUME NEW e \in Event, CreateAcked(e) PROVE TypeOK'
    BY <1>3 DEF CreateAcked, OddTypeOK
  <1>4. ASSUME NEW e \in Event, CreateFails(e) PROVE TypeOK'
    BY <1>4, FaultTypes DEF CreateFails
  <1>5. ASSUME NEW u \in Upload, BeginUpload(u) PROVE TypeOK'
    BY <1>5, UploadMoves DEF BeginUpload, OddTypeOK
  <1>6. ASSUME NEW u \in Upload, UploadFails(u) PROVE TypeOK'
    BY <1>6, UploadMoves, FaultTypes DEF UploadFails
  <1>7. ASSUME NEW u \in Upload, EmitData(u) PROVE TypeOK'
    <2>1. upload' \in [Upload -> UploadCall]
      BY <1>7, UploadMoves DEF EmitData
    <2>2. wire' \in Seq(Message)
      <3>1. \/ wire' = Append(wire, Msg("chunk", u, 1))
            \/ wire' = Append(wire, Msg("data", u, 0))
        BY <1>7 DEF EmitData
      <3>2. Msg("chunk", u, 1) \in Message /\ Msg("data", u, 0) \in Message
        OBVIOUS
      <3> QED
        BY <3>1, <3>2, Appended
    <2> QED
      BY <1>7, <2>1, <2>2 DEF EmitData, OddTypeOK
  <1>8. ASSUME NEW u \in Upload, ChunkAcked(u) PROVE TypeOK'
    <2>1. /\ upload[u].next \in Part
          /\ upload[u].next # Chunks => upload[u].next + 1 \in Part
      BY DEF UploadCall, Part
    <2>2. upload' \in [Upload -> UploadCall]
      BY <1>8, <2>1, UploadMoves, UploadGoes DEF ChunkAcked
    <2>3. wire' \in Seq(Message)
      <3>1. \/ wire' = wire
            \/ /\ upload[u].next # Chunks
               /\ wire' = Append(wire, Msg("chunk", u, upload[u].next + 1))
        BY <1>8 DEF ChunkAcked
      <3>2. upload[u].next # Chunks =>
              Msg("chunk", u, upload[u].next + 1) \in Message
        BY <2>1
      <3> QED
        BY <3>1, <3>2, Appended
    <2> QED
      BY <1>8, <2>2, <2>3 DEF ChunkAcked, OddTypeOK
  <1> QED
    BY <1>1, <1>2, <1>3, <1>4, <1>5, <1>6, <1>7, <1>8

LEMMA ServerTypes ==
  ASSUME TypeOK,
         \/ HandleCreate \/ HandleData \/ HandleChunk
         \/ \E w \in work : \/ ForwardCreate(w) \/ NoTransfer(w) \/ SaveCreate(w)
                            \/ ForwardData(w) \/ SaveData(w)
         \/ \E u \in Upload : Cleanup(u)
  PROVE  TypeOK'
  <1> USE DEF job, bridge, receiver, history
  <1>1. CASE HandleCreate
    <2>1. Handling(Head(wire)) \in Handler /\ wire' \in Seq(Message)
      BY <1>1, Arrival, Handlers DEF HandleCreate
    <2> QED
      BY <1>1, <2>1 DEF HandleCreate, TypeOK
  <1>2. CASE HandleData
    <2>1. Handling(Head(wire)) \in Handler /\ wire' \in Seq(Message)
      BY <1>2, Arrival, Handlers DEF HandleData
    <2> QED
      BY <1>2, <2>1 DEF HandleData, Begin, TypeOK
  <1>3. CASE HandleChunk
    <2>1. /\ Handling(Head(wire)) \in Handler /\ wire' \in Seq(Message)
          /\ Head(wire) \in Message
          /\ Head(wire).id \in Upload /\ Head(wire).part \in Part
      BY <1>3, Arrival, Handlers, MessageParts DEF HandleChunk
    <2>2. work' \subseteq Handler /\ acks' \subseteq Message
      BY <1>3, <2>1 DEF HandleChunk, Begin, TypeOK
    <2>3. buffer' \in [Upload -> SUBSET Part]
      <3> DEFINE u == Head(wire).id
                 parts == buffer[u] \cup {Head(wire).part}
      <3>1. /\ u \in Upload /\ parts \in SUBSET Part
            /\ buffer \in [Upload -> SUBSET Part]
        BY <2>1 DEF TypeOK
      <3>2. \E S \in {{}, parts} : buffer' = [buffer EXCEPT ![u] = S]
        BY <1>3 DEF HandleChunk
      <3> QED
        BY <3>1, <3>2
    <2> QED
      BY <1>3, <2>1, <2>2, <2>3 DEF HandleChunk, TypeOK
  <1>4. ASSUME NEW w \in work, ForwardCreate(w) PROVE TypeOK'
    <2>1. /\ w \in Handler /\ w.msg.id \in Event
          /\ [w EXCEPT !.pc = "save"] \in Handler
          /\ Msg("create", w.msg.id, 0) \in Message
      BY <1>4, Handlers, MessageParts, Messages DEF ForwardCreate, At, TypeOK
    <2>2. push' \in Seq(Message)
      BY <1>4, <2>1, PushType DEF ForwardCreate, TypeOK
    <2>3. row' \in [Database -> SUBSET Event] /\ work' \subseteq Handler
      <3>1. work' \subseteq Handler
        BY <1>4, <2>1 DEF ForwardCreate, Goes, TypeOK
      <3>2. \/ row' = [row EXCEPT !["peer"] = @ \cup {w.msg.id}]
            \/ UNCHANGED row
        BY <1>4 DEF ForwardCreate
      <3>3. row' \in [Database -> SUBSET Event]
        BY <2>1, <3>2, RowGets DEF TypeOK, Database
      <3> QED
        BY <3>1, <3>3
    <2>4. OddTypeOK'
      BY <1>4, FaultTypes DEF ForwardCreate, TypeOK, OddTypeOK, OddKinds
    <2> QED
      BY <1>4, <2>2, <2>3, <2>4 DEF ForwardCreate, TypeOK, OddTypeOK, OddKinds
  <1>5. ASSUME NEW w \in work, NoTransfer(w) PROVE TypeOK'
    BY <1>5 DEF NoTransfer, Done, Fault, Trouble, TypeOK
  <1>6. ASSUME NEW w \in work, SaveCreate(w) PROVE TypeOK'
    <2>1. w.msg \in Message /\ w.msg.id \in Event
      BY <1>6, Handlers, MessageParts DEF SaveCreate, At, TypeOK
    <2> QED
      BY <1>6, <2>1 DEF SaveCreate, Done, Answer, TypeOK, Database
  <1>7. ASSUME NEW w \in work, ForwardData(w) PROVE TypeOK'
    <2>1. /\ w.msg.id \in Upload /\ Of[w.msg.id] \in Event
          /\ [w EXCEPT !.pc = "save"] \in Handler
          /\ Msg("data", w.msg.id, 0) \in Message
      BY <1>7, Handlers, MessageParts, Messages, Constants
      DEF ForwardData, At, TypeOK
    <2>2. push' \in Seq(Message)
      BY <1>7, <2>1, PushType DEF ForwardData, TypeOK
    <2>3. work' \subseteq Handler
      BY <1>7, <2>1 DEF ForwardData, Goes, Done, TypeOK
    <2>4. /\ data' \in [Database -> [Event -> Upload \cup {None}]]
          /\ buffer' \in [Upload -> SUBSET Part]
      <3>1. CASE /\ data' = [data EXCEPT !["peer"][Of[w.msg.id]] = w.msg.id]
                 /\ \/ UNCHANGED buffer
                    \/ buffer' = [buffer EXCEPT ![w.msg.id] = {}]
        BY <2>1, <3>1 DEF TypeOK, Database
      <3>2. CASE /\ \/ UNCHANGED buffer
                    \/ buffer' = [buffer EXCEPT ![w.msg.id] = {}]
                 /\ UNCHANGED data
        BY <2>1, <3>2 DEF TypeOK
      <3> QED
        BY <1>7, <3>1, <3>2 DEF ForwardData, Emptied
    <2>5. OddTypeOK'
      BY <1>7, FaultTypes, OddTypes DEF ForwardData, TypeOK, OddTypeOK, OddKinds
    <2> QED
      BY <1>7, <2>2, <2>3, <2>4, <2>5
      DEF ForwardData, TypeOK, OddTypeOK, OddKinds
  <1>8. ASSUME NEW w \in work, SaveData(w) PROVE TypeOK'
    <2>1. /\ w.msg \in Message /\ w.msg.id \in Upload
          /\ Of[w.msg.id] \in Event
      BY <1>8, Handlers, MessageParts, Constants DEF SaveData, At, TypeOK
    <2>2. data' \in [Database -> [Event -> Upload \cup {None}]]
      BY <1>8, <2>1 DEF SaveData, TypeOK, Database
    <2> QED
      BY <1>8, <2>1, <2>2 DEF SaveData, Done, Emptied, Answer, TypeOK
  <1>9. ASSUME NEW u \in Upload, Cleanup(u) PROVE TypeOK'
    BY <1>9 DEF Cleanup, Emptied, Trouble, TypeOK
  <1> QED
    BY <1>1, <1>2, <1>3, <1>4, <1>5, <1>6, <1>7, <1>8, <1>9

LEMMA LinkTypes ==
  ASSUME TypeOK,
         (\E s \in Side : Disconnect(s) \/ Connect(s)) \/ Restart
  PROVE  TypeOK'
  <1> USE DEF job, bridge, receiver, history
  <1>1. ASSUME NEW s \in Side, Disconnect(s) PROVE TypeOK'
    <2>1. work' \subseteq Handler
      BY <1>1, Handlers DEF Disconnect, TypeOK
    <2>2. /\ wire' \in Seq(Message) /\ push' \in Seq(Message)
          /\ acks' \subseteq Message /\ link' \in [Side -> BOOLEAN]
      <3>1. CASE wire' = <<>> /\ acks' = {} /\ UNCHANGED push
        BY <1>1, <3>1 DEF Disconnect, Closes, TypeOK
      <3>2. CASE push' = <<>> /\ UNCHANGED <<wire, acks>>
        BY <1>1, <3>2 DEF Disconnect, Closes, TypeOK
      <3> QED
        BY <1>1, <3>1, <3>2 DEF Disconnect, Closes
    <2> QED
      BY <1>1, <2>1, <2>2 DEF Disconnect, Fault, Trouble, TypeOK
  <1>2. ASSUME NEW s \in Side, Connect(s) PROVE TypeOK'
    BY <1>2 DEF Connect, TypeOK
  <1>3. CASE Restart
    <2>1. /\ wire' \in Seq(Message) /\ push' \in Seq(Message)
          /\ acks' \subseteq Message /\ link' \in [Side -> BOOLEAN]
      BY <1>3 DEF Restart, Closes, TypeOK, Side
    <2> QED
      BY <1>3, <2>1 DEF Restart, Trouble, TypeOK
  <1> QED
    BY <1>1, <1>2, <1>3

LEMMA ReceiverTypes ==
  ASSUME TypeOK,
         UpsertEvent \/ ApplyData \/ (\E s \in saving : SaveEvent(s)) \/ Poll
  PROVE  TypeOK'
  <1> USE DEF job, bridge, receiver, history
  <1>1. CASE UpsertEvent
    <2>1. push' \in Seq(Message) /\ Head(push).id \in Event
      BY <1>1, PushArrival, MessageParts DEF UpsertEvent
    <2>2. clock' \in Nat
      BY <1>1 DEF UpsertEvent, TypeOK
    <2>3. OddTypeOK'
      <3>1. \E S \in SUBSET OddKinds : Trouble(S) \/ Odd(S)
        BY <1>1 DEF UpsertEvent, OddKinds
      <3>2. OddTypeOK
        BY DEF TypeOK, OddTypeOK, OddKinds
      <3> QED
        BY <3>1, <3>2, OddTypes
    <2>4. saving' \subseteq [event : Event, time : Nat]
      BY <1>1, <2>1, <2>2 DEF UpsertEvent, TypeOK
    <2> QED
      BY <1>1, <2>1, <2>2, <2>3, <2>4
      DEF UpsertEvent, TypeOK, OddTypeOK, OddKinds
  <1>2. CASE ApplyData
    <2>1. /\ push' \in Seq(Message) /\ Head(push).id \in Upload
          /\ Of[Head(push).id] \in Event
      BY <1>2, PushArrival, MessageParts, Constants DEF ApplyData
    <2>2. data' \in [Database -> [Event -> Upload \cup {None}]]
      <3>1. CASE data' = [data EXCEPT !["reader"][Of[Head(push).id]]
                                        = Head(push).id]
        BY <2>1, <3>1 DEF TypeOK, Database
      <3>2. CASE UNCHANGED data
        BY <3>2 DEF TypeOK
      <3> QED
        BY <1>2, <3>1, <3>2 DEF ApplyData
    <2>3. OddTypeOK'
      BY <1>2, OddTypes DEF ApplyData, TypeOK, OddTypeOK, OddKinds
    <2> QED
      BY <1>2, <2>1, <2>2, <2>3 DEF ApplyData, TypeOK, OddTypeOK, OddKinds
  <1>3. ASSUME NEW s \in saving, SaveEvent(s) PROVE TypeOK'
    <2>1. s.event \in Event /\ s.time \in Nat
      BY DEF TypeOK
    <2> QED
      BY <1>3, <2>1 DEF SaveEvent, TypeOK, Database
  <1>4. CASE Poll
    <2>1. ASSUME NEW otherwise \in {"idle", "read"}, Look(otherwise)
          PROVE  TypeOK'
      BY <2>1 DEF Look, Returned, NextEvents, Following, TypeOK, Database
    <2> QED
      BY <1>4, <2>1 DEF Poll, PollBegins, PollWoken, PollWaits, PollEnds, TypeOK
  <1> QED
    BY <1>1, <1>2, <1>3, <1>4

LEMMA TypeStep == TypeOK /\ [Next]_vars => TypeOK'
  <1> SUFFICES ASSUME TypeOK, [Next]_vars PROVE TypeOK'
    OBVIOUS
  <1>1. CASE UNCHANGED vars
    BY <1>1 DEF vars, job, bridge, receiver, history, TypeOK
  <1> QED
    BY <1>1, ClientTypes, ServerTypes, LinkTypes, ReceiverTypes
    DEF Next, Progress

LEMMA TypeInit == Init => TypeOK
  <1> SUFFICES ASSUME Init PROVE TypeOK
    OBVIOUS
  <1>1. /\ upload \in [Upload -> UploadCall]
        /\ create \in [Event -> {"none", "waiting", "asked", "done", "failed"}]
    BY Constants DEF Init, UploadCall
  <1>2. /\ wire \in Seq(Message) /\ push \in Seq(Message)
        /\ link \in [Side -> BOOLEAN]
        /\ row \in [Database -> SUBSET Event]
        /\ data \in [Database -> [Event -> Upload \cup {None}]]
    BY DEF Init
  <1> QED
    BY <1>1, <1>2 DEF Init, TypeOK

\* The variables keep their types, whatever is sent, lost or late.
THEOREM EventTypes == Spec => []TypeOK
  BY TypeInit, TypeStep, PTL DEF Spec

----------------------------------------------------------------------------
(* The times of the events the job polls.                                   *)

LEMMA OddGrows == TypeOK /\ [Next]_vars => odd \subseteq odd'
  <1> SUFFICES ASSUME TypeOK, [Next]_vars PROVE odd \subseteq odd'
    OBVIOUS
  <1> USE DEF history, receiver
  <1>1. ASSUME NEW S, Trouble(S) \/ Odd(S) PROVE odd \subseteq odd'
    BY <1>1 DEF Trouble, Odd
  <1>2. CASE Poll
    BY <1>2 DEF Poll, PollBegins, PollWoken, PollWaits, PollEnds, Look
  <1>3. CASE Progress
    <2>1. CASE UpsertEvent
      BY <1>1, <2>1 DEF UpsertEvent
    <2>2. CASE ApplyData
      BY <1>1, <2>2 DEF ApplyData
    <2>3. CASE HandleCreate \/ HandleData \/ HandleChunk
      BY <2>3 DEF HandleCreate, HandleData, HandleChunk
    <2>4. ASSUME NEW w \in work, ForwardCreate(w) \/ SaveCreate(w)
                                 \/ ForwardData(w) \/ SaveData(w)
          PROVE  odd \subseteq odd'
      BY <1>1, <2>4 DEF ForwardCreate, SaveCreate, ForwardData, SaveData, Fault
    <2>5. ASSUME NEW s \in saving, SaveEvent(s) PROVE odd \subseteq odd'
      BY <2>5 DEF SaveEvent
    <2>6. ASSUME NEW e \in Event, EmitCreate(e) \/ CreateAcked(e)
          PROVE  odd \subseteq odd'
      BY <2>6 DEF EmitCreate, CreateAcked
    <2>7. ASSUME NEW u \in Upload, EmitData(u) \/ ChunkAcked(u)
          PROVE  odd \subseteq odd'
      BY <2>7 DEF EmitData, ChunkAcked
    <2> QED
      BY <1>3, <2>1, <2>2, <2>3, <2>4, <2>5, <2>6, <2>7 DEF Progress
  <1>4. ASSUME NEW e \in Event, CreateEvent(e) \/ CreateFails(e)
        PROVE  odd \subseteq odd'
    BY <1>1, <1>4 DEF CreateEvent, CreateFails, Fault
  <1>5. ASSUME NEW u \in Upload, BeginUpload(u) \/ UploadFails(u) \/ Cleanup(u)
        PROVE  odd \subseteq odd'
    BY <1>1, <1>5 DEF BeginUpload, UploadFails, Cleanup, Fault
  <1>6. ASSUME NEW w \in work, NoTransfer(w) PROVE odd \subseteq odd'
    BY <1>1, <1>6 DEF NoTransfer, Fault
  <1>7. ASSUME NEW s \in Side, Disconnect(s) \/ Connect(s)
        PROVE  odd \subseteq odd'
    BY <1>1, <1>7 DEF Disconnect, Connect, Fault
  <1>8. CASE Restart
    BY <1>1, <1>8 DEF Restart
  <1>9. CASE UNCHANGED vars
    BY <1>9 DEF vars
  <1> QED
    BY <1>2, <1>3, <1>4, <1>5, <1>6, <1>7, <1>8, <1>9 DEF Next

LEMMA TimeQuiet ==
  ASSUME TypeOK, TimeInv, odd \subseteq odd',
         UNCHANGED <<time, since, got, clock, saving>>,
         row'["reader"] = row["reader"]
  PROVE  TimeInv'
  BY DEF TimeInv, InTime

LEMMA TimeUpsert ==
  ASSUME TypeOK, TimeInv, odd \subseteq odd', UpsertEvent
  PROVE  TimeInv'
  <1> SUFFICES ASSUME odd' \cap {"overlap", "tie"} = {} PROVE InTime'
    BY DEF TimeInv
  <1>1. InTime
    BY DEF TimeInv
  <1>2. saving = {} /\ clock' = clock + 1
    <2>1. ~Trouble(IF saving = {} THEN {"tie"} ELSE {"tie", "overlap"})
      BY DEF Trouble
    <2>2. saving # {} => ~Odd(IF saving = {} THEN {} ELSE {"overlap"})
      BY DEF Odd, Trouble
    <2> QED
      BY <2>1, <2>2 DEF UpsertEvent
  <1>3. saving' = {[event |-> Head(push).id, time |-> clock']}
    BY <1>2 DEF UpsertEvent
  <1>4. UNCHANGED <<time, since, got, row>>
    BY DEF UpsertEvent
  <1>5. /\ since \in Nat /\ clock \in Nat
        /\ \A e \in row["reader"] : time[e] \in Nat
    BY DEF TypeOK, Database
  <1> QED
    BY <1>1, <1>2, <1>3, <1>4, <1>5 DEF InTime

LEMMA TimeSave ==
  ASSUME TypeOK, TimeInv, odd \subseteq odd', NEW s \in saving, SaveEvent(s)
  PROVE  TimeInv'
  <1> SUFFICES ASSUME odd' \cap {"overlap", "tie"} = {} PROVE InTime'
    BY DEF TimeInv
  <1>1. InTime
    BY DEF TimeInv
  <1>2. /\ saving' = {} /\ UNCHANGED <<since, got, clock>>
        /\ s.time = clock /\ since < clock
    BY <1>1 DEF SaveEvent, InTime
  <1>3. /\ s.event \in Event /\ row["reader"] \subseteq Event
        /\ time \in [Event -> Nat] /\ since \in Nat /\ clock \in Nat
    BY DEF TypeOK, Database
  <1>4. row'["reader"] = row["reader"] \cup {s.event}
    BY <1>3, RowGets DEF SaveEvent, TypeOK, Database
  <1>5. /\ time'[s.event] = clock
        /\ \A e \in row["reader"] : e # s.event => time'[e] = time[e]
    BY <1>2, <1>3 DEF SaveEvent
  <1>6. \A e \in row["reader"] : time[e] \in Nat /\ time[e] < clock
    BY <1>1, <1>2, <1>3 DEF InTime
  <1> QED
    BY <1>1, <1>2, <1>3, <1>4, <1>5, <1>6 DEF InTime

LEMMA TimeLook ==
  ASSUME TypeOK, TimeInv, odd \subseteq odd', NEW otherwise, Look(otherwise)
  PROVE  TimeInv'
  <1>1. ASSUME NEW e \in NextEvents, Returned(e) PROVE TimeInv'
    <2> SUFFICES ASSUME odd' \cap {"overlap", "tie"} = {} PROVE InTime'
      BY DEF TimeInv
    <2>1. InTime
      BY DEF TimeInv
    <2>2. /\ got' = got \cup {e} /\ since' = time[e]
          /\ UNCHANGED <<time, clock, saving, row>>
      BY <1>1 DEF Returned, Look
    <2>3. /\ e \in row["reader"] /\ time[e] > since
          /\ \A f \in row["reader"] : time[f] > since => time[e] <= time[f]
      BY DEF NextEvents, Following
    <2>4. /\ since \in Nat /\ clock \in Nat
          /\ \A f \in row["reader"] : time[f] \in Nat
      BY DEF TypeOK, Database
    <2>5. \A f \in row["reader"] : time[f] <= time[e] => f \in got'
      BY <2>1, <2>2, <2>3, <2>4 DEF InTime
    <2> QED
      BY <2>1, <2>2, <2>3, <2>4, <2>5 DEF InTime
  <1>2. CASE UNCHANGED <<got, since>>
    BY <1>2, TimeQuiet DEF Look
  <1> QED
    BY <1>1, <1>2 DEF Look

LEMMA TimeStep == TypeOK /\ TimeInv /\ [Next]_vars => TimeInv'
  <1> SUFFICES ASSUME TypeOK, TimeInv, [Next]_vars PROVE TimeInv'
    OBVIOUS
  <1>0. odd \subseteq odd'
    BY OddGrows
  <1> USE DEF receiver
  <1>1. CASE Poll
    <2>1. CASE PollWaits \/ PollEnds
      BY <1>0, <2>1, TimeQuiet DEF PollWaits, PollEnds
    <2> QED
      BY <1>0, <1>1, <2>1, TimeLook DEF Poll, PollBegins, PollWoken
  <1>2. CASE Progress
    <2>1. CASE ApplyData \/ HandleCreate \/ HandleData \/ HandleChunk
      BY <1>0, <2>1, TimeQuiet DEF ApplyData, HandleCreate, HandleData,
        HandleChunk
    <2>2. ASSUME NEW w \in work, ForwardCreate(w) PROVE TimeInv'
      <3>1. row'["reader"] = row["reader"]
        BY <2>2 DEF ForwardCreate, TypeOK, Database
      <3> QED
        BY <1>0, <2>2, <3>1, TimeQuiet DEF ForwardCreate
    <2>3. ASSUME NEW w \in work, SaveCreate(w) PROVE TimeInv'
      <3>1. row'["reader"] = row["reader"]
        BY <2>3 DEF SaveCreate, TypeOK, Database
      <3> QED
        BY <1>0, <2>3, <3>1, TimeQuiet DEF SaveCreate
    <2>4. ASSUME NEW w \in work, ForwardData(w) \/ SaveData(w) PROVE TimeInv'
      BY <1>0, <2>4, TimeQuiet DEF ForwardData, SaveData
    <2>5. ASSUME NEW e \in Event, EmitCreate(e) \/ CreateAcked(e) PROVE TimeInv'
      BY <1>0, <2>5, TimeQuiet DEF EmitCreate, CreateAcked
    <2>6. ASSUME NEW u \in Upload, EmitData(u) \/ ChunkAcked(u) PROVE TimeInv'
      BY <1>0, <2>6, TimeQuiet DEF EmitData, ChunkAcked
    <2> QED
      BY <1>0, <1>2, <2>1, <2>2, <2>3, <2>4, <2>5, <2>6, TimeUpsert, TimeSave
      DEF Progress
  <1>3. ASSUME NEW e \in Event, CreateEvent(e) \/ CreateFails(e) PROVE TimeInv'
    BY <1>0, <1>3, TimeQuiet DEF CreateEvent, CreateFails
  <1>4. ASSUME NEW u \in Upload, BeginUpload(u) \/ UploadFails(u) \/ Cleanup(u)
        PROVE  TimeInv'
    BY <1>0, <1>4, TimeQuiet DEF BeginUpload, UploadFails, Cleanup
  <1>5. ASSUME NEW w \in work, NoTransfer(w) PROVE TimeInv'
    BY <1>0, <1>5, TimeQuiet DEF NoTransfer
  <1>6. ASSUME NEW s \in Side, Disconnect(s) \/ Connect(s) PROVE TimeInv'
    BY <1>0, <1>6, TimeQuiet DEF Disconnect, Connect
  <1>7. CASE Restart
    BY <1>0, <1>7, TimeQuiet DEF Restart
  <1>8. CASE UNCHANGED vars
    BY <1>0, <1>8, TimeQuiet DEF vars
  <1> QED
    BY <1>1, <1>2, <1>3, <1>4, <1>5, <1>6, <1>7, <1>8 DEF Next

\* Events are polled by time, and none is passed over, also if connections fail,
\* as long as no two are saved at once or in the same millisecond
\* (findNextAlgorithmEvent, upsertRemoteAlgorithmEventFromBridge).
THEOREM PolledInOrder == Spec => []NothingSkipped
  <1>1. Init => TimeInv
    BY DEF Init, TimeInv, InTime, Database
  <1>2. TimeInv => NothingSkipped
    BY DEF TimeInv, InTime, NothingSkipped
  <1> QED
    BY <1>1, <1>2, EventTypes, TimeStep, PTL DEF Spec

----------------------------------------------------------------------------
(* Where the chunks are.                                                    *)

\* The chunks and the small data on the wire are those of before, which have
\* moved up by d places.
MovedUp(u, d) ==
  \A do \in {"chunk", "data"} :
    \A k \in On(u, do)' : k + d \in On(u, do) /\ wire'[k] = wire[k + d]

LEMMA WireTail ==
  ASSUME TypeOK, NEW do, Arrives(do), NEW u
  PROVE  /\ MovedUp(u, 1)
         /\ Head(wire).do = do /\ Head(wire).id = u => 1 \in On(u, do)
         /\ Head(wire) = wire[1]
  <1>1. /\ Head(wire).do = do /\ Head(wire) = wire[1]
        /\ Len(wire) \in Nat /\ Len(wire) > 0
        /\ Len(wire') = Len(wire) - 1
        /\ \A k \in 1..Len(wire') : wire'[k] = wire[k + 1]
    BY Arrival
  <1> QED
    BY <1>1 DEF MovedUp, On

LEMMA WireAppend ==
  ASSUME TypeOK, NEW m, m \in Message, wire' = Append(wire, m), NEW u
  PROVE  /\ \A do \in {"chunk", "data"} : \A k \in On(u, do)' :
              \/ k \in On(u, do) /\ wire'[k] = wire[k]
              \/ k = Len(wire) + 1 /\ wire'[k] = m /\ m.do = do /\ m.id = u
         /\ Len(wire) \in Nat
  <1>1. /\ Len(wire') = Len(wire) + 1 /\ Len(wire) \in Nat
        /\ \A k \in 1..Len(wire) : wire'[k] = wire[k]
        /\ wire'[Len(wire) + 1] = m
    BY DEF TypeOK
  <1> QED
    BY <1>1 DEF On

LEMMA WireSame == ASSUME TypeOK, UNCHANGED wire, NEW u PROVE MovedUp(u, 0)
  BY DEF MovedUp, On, TypeOK

LEMMA WireEmpty == ASSUME wire' = <<>>, NEW u PROVE MovedUp(u, 0)
  BY DEF MovedUp, On

\* How the call of an upload goes on without sending anything.
SamePc(u) ==
  \/ upload'[u].pc = upload[u].pc
  \/ upload[u].pc = "none" /\ upload'[u].pc = "waiting"
  \/ upload[u].pc \in {"waiting", "asked"} /\ upload'[u].pc = "failed"

SameHandled(u) ==
  \A do \in {"chunk", "data"} : \A w \in Handled(u, do)' :
    \E v \in Handled(u, do) : v.msg = w.msg /\ v.pc = w.pc

StoredStays(u) ==
  \A p \in {"server", "peer"} : StoredAt(p, u) => StoredAt(p, u)'

\* A step in which nothing of an upload is sent, kept, answered or passed on.
LEMMA ChunkQuiet ==
  ASSUME TypeOK, NEW u \in Upload, ChunkInv(u), NEW d \in Nat, MovedUp(u, d),
         upload'[u].next = upload[u].next, SamePc(u),
         buffer'[u] = buffer[u], AckOf(u)' \subseteq AckOf(u),
         SameHandled(u), StoredStays(u)
  PROVE  ChunkInv(u)'
  <1> USE DEF ChunkInv
  <1>1. \A do \in {"chunk", "data"} :
          /\ Handled(u, do) = {} => Handled(u, do)' = {}
          /\ On(u, do) = {} => On(u, do)' = {}
    BY DEF SameHandled, MovedUp
  <1>2. OnTheWire(u)'
    <2> SUFFICES ASSUME NEW k \in On(u, "chunk")'
                 PROVE  /\ \A j \in On(u, "chunk")' : j = k
                        /\ wire'[k].part = upload'[u].next
                        /\ buffer'[u] = 1..(upload'[u].next - 1)
                        /\ AckOf(u)' = {} /\ Handled(u, "chunk")' = {}
      BY DEF OnTheWire
    <2>1. /\ k + d \in On(u, "chunk") /\ wire'[k] = wire[k + d]
          /\ \A j \in On(u, "chunk")' : j + d \in On(u, "chunk")
      BY DEF MovedUp
    <2>2. \A j \in On(u, "chunk")' : j = k
      <3>1. \A j \in On(u, "chunk")' : j \in Nat
        BY DEF On
      <3> QED
        BY <2>1, <3>1 DEF OnTheWire
    <2> QED
      BY <1>1, <2>1, <2>2 DEF OnTheWire
  <1>3. Answered(u)'
    BY <1>1 DEF Answered, StoredStays
  <1>4. InHand(u)'
    BY DEF InHand, SameHandled, StoredStays
  <1>5. OneWay(u)'
    BY <1>1 DEF OneWay, SamePc, StoredStays
  <1> QED
    BY <1>2, <1>3, <1>4, <1>5

LEMMA ChunkEmit ==
  ASSUME TypeOK, TypeOK', NEW u \in Upload, NEW v \in Upload, EmitData(u),
         ChunkInv(v)
  PROVE  ChunkInv(v)'
  <1> USE Constants, Messages DEF bridge
  <1>0. \E m \in {Msg("chunk", u, 1), Msg("data", u, 0)} :
          /\ wire' = Append(wire, m)
          /\ upload' = [upload EXCEPT ![u].pc =
                          IF m.do = "chunk" THEN "asked" ELSE "sent"]
    BY DEF EmitData, Msg
  <1>1. PICK m \in {Msg("chunk", u, 1), Msg("data", u, 0)} :
          /\ wire' = Append(wire, m)
          /\ upload' = [upload EXCEPT ![u].pc =
                          IF m.do = "chunk" THEN "asked" ELSE "sent"]
    BY <1>0
  <1>2. /\ m \in Message /\ m.id = u
        /\ (m.do = "chunk" /\ m.part = 1) \/ m.do = "data"
    BY DEF Msg
  <1>3. /\ UNCHANGED <<acks, buffer, work, data>>
        /\ upload[u].pc = "waiting"
    BY DEF EmitData
  <1>4. /\ \A w \in Upload : w # u => upload'[w] = upload[w]
        /\ upload'[u].next = upload[u].next
        /\ upload'[u].pc = IF m.do = "chunk" THEN "asked" ELSE "sent"
    BY <1>1, <1>2, UploadMoves DEF TypeOK
  <1>5. /\ AckOf(v)' = AckOf(v) /\ SameHandled(v) /\ StoredStays(v)
        /\ \A do : Handled(v, do)' = Handled(v, do)
    BY <1>3 DEF AckOf, SameHandled, Handled, StoredStays, StoredAt
  <1>6. \A do \in {"chunk", "data"} : \A k \in On(v, do)' :
          \/ k \in On(v, do) /\ wire'[k] = wire[k]
          \/ k = Len(wire) + 1 /\ wire'[k] = m /\ m.do = do /\ m.id = v
    BY <1>1, <1>2, WireAppend
  <1>7. CASE v # u
    <2>1. MovedUp(v, 0)
      <3>1. \A do \in {"chunk", "data"} : \A k \in On(v, do) : k + 0 = k
        BY DEF On
      <3> QED
        BY <1>2, <1>6, <1>7, <3>1 DEF MovedUp
    <2> QED
      BY <1>3, <1>4, <1>5, <1>7, <2>1, ChunkQuiet DEF SamePc
  <1>8. CASE v = u
    <2>1. /\ upload[v].next = 1 /\ buffer[v] = {}
          /\ On(v, "chunk") = {} /\ On(v, "data") = {}
          /\ AckOf(v) = {} /\ Handled(v, "chunk") = {}
          /\ Handled(v, "data") = {}
      BY <1>3, <1>8 DEF ChunkInv, OneWay
    <2>2. \A k \in On(v, "chunk")' :
            k = Len(wire) + 1 /\ wire'[k].part = 1 /\ m.do = "chunk"
      BY <1>2, <1>6, <2>1
    <2>3. \A k \in On(v, "data")' : m.do = "data"
      BY <1>6, <2>1
    <2>4. OnTheWire(v)'
      <3>1. 1..(upload'[v].next - 1) = {}
        BY <1>4, <1>8, <2>1
      <3> QED
        BY <1>3, <1>4, <1>5, <1>8, <2>1, <2>2, <3>1 DEF OnTheWire
    <2>5. Answered(v)' /\ InHand(v)'
      BY <1>5, <2>1 DEF Answered, InHand
    <2>6. OneWay(v)'
      BY <1>2, <1>4, <1>5, <1>8, <2>1, <2>2, <2>3 DEF OneWay
    <2> QED
      BY <2>4, <2>5, <2>6 DEF ChunkInv
  <1> QED
    BY <1>7, <1>8

LEMMA ChunkNext ==
  ASSUME TypeOK, TypeOK', NEW u \in Upload, NEW v \in Upload, ChunkAcked(u),
         ChunkInv(v)
  PROVE  ChunkInv(v)'
  <1> USE Constants, Messages
  <1> DEFINE n == upload[u].next
             m == Msg("chunk", u, n)
  <1>1. /\ UNCHANGED <<buffer, work, data>> /\ acks' = acks \ {m} /\ m \in acks
        /\ n \in Part /\ upload \in [Upload -> UploadCall]
    BY DEF ChunkAcked, TypeOK, UploadCall
  <1>2. /\ SameHandled(v) /\ StoredStays(v) /\ AckOf(v)' \subseteq AckOf(v)
        /\ \A do : Handled(v, do)' = Handled(v, do)
    BY <1>1 DEF AckOf, SameHandled, Handled, StoredStays, StoredAt
  <1>3. CASE UNCHANGED <<upload, wire>>
    BY <1>1, <1>2, <1>3, WireSame, ChunkQuiet DEF SamePc
  <1>4. m \in AckOf(u) /\ m.part = n
    BY <1>1 DEF AckOf, Msg
  <1>5. CASE /\ upload[u].pc = "asked" /\ n = Chunks /\ UNCHANGED wire
             /\ upload' = [upload EXCEPT ![u].pc = "done"]
    <2>1. /\ \A w \in Upload : w # u => upload'[w] = upload[w]
          /\ upload'[u].next = upload[u].next /\ upload'[u].pc = "done"
      BY <1>1, <1>5, UploadMoves
    <2>2. MovedUp(v, 0)
      BY <1>5, WireSame
    <2>3. CASE v # u
      BY <1>1, <1>2, <2>1, <2>2, <2>3, ChunkQuiet DEF SamePc
    <2>4. CASE v = u
      <3>1. \A p \in {"server", "peer"} : StoredAt(p, v)
        BY <1>4, <1>5, <2>4 DEF ChunkInv, Answered
      <3>2. On(v, "chunk") = {} /\ On(v, "data") = {} /\ Handled(v, "data") = {}
        BY <1>4, <1>5, <2>4 DEF ChunkInv, OnTheWire, OneWay
      <3>3. On(v, "chunk")' = {} /\ On(v, "data")' = {}
        BY <2>2, <3>2 DEF MovedUp
      <3>4. OnTheWire(v)'
        BY <3>3 DEF OnTheWire
      <3>5. Answered(v)' /\ InHand(v)'
        BY <1>1, <1>2, <2>1, <2>4 DEF ChunkInv, Answered, InHand, StoredStays
      <3>6. OneWay(v)'
        BY <1>2, <2>1, <2>4, <3>1, <3>2, <3>3 DEF OneWay, StoredStays
      <3> QED
        BY <3>4, <3>5, <3>6 DEF ChunkInv
    <2> QED
      BY <2>3, <2>4
  <1>6. CASE /\ upload[u].pc = "asked" /\ n # Chunks
             /\ upload' = [upload EXCEPT ![u].next = n + 1]
             /\ wire' = Append(wire, Msg("chunk", u, n + 1))
    <2> DEFINE o == Msg("chunk", u, n + 1)
    <2>1. n + 1 \in Part /\ n \in Nat
      BY <1>1, <1>6 DEF Part
    <2>2. /\ o \in Message /\ o.do = "chunk" /\ o.id = u /\ o.part = n + 1
      BY <2>1 DEF Msg
    <2>3. /\ \A w \in Upload : w # u => upload'[w] = upload[w]
          /\ upload'[u].next = n + 1 /\ upload'[u].pc = "asked"
      BY <1>1, <1>6, <2>1, UploadGoes
    <2>4. wire' = Append(wire, o)
      BY <1>6
    <2> HIDE DEF o
    <2>5. \A do \in {"chunk", "data"} : \A k \in On(v, do)' :
            \/ k \in On(v, do) /\ wire'[k] = wire[k]
            \/ k = Len(wire) + 1 /\ wire'[k] = o /\ o.do = do /\ o.id = v
      BY <2>2, <2>4, WireAppend
    <2>6. CASE v # u
      <3>1. MovedUp(v, 0)
        <4>1. \A do \in {"chunk", "data"} : \A k \in On(v, do) : k + 0 = k
          BY DEF On
        <4> QED
          BY <2>2, <2>5, <2>6, <4>1 DEF MovedUp
      <3> QED
        BY <1>1, <1>2, <2>3, <2>6, <3>1, ChunkQuiet DEF SamePc
    <2>7. CASE v = u
      <3>1. /\ On(v, "chunk") = {} /\ On(v, "data") = {}
            /\ buffer[v] = 1..n /\ Handled(v, "chunk") = {}
            /\ Handled(v, "data") = {}
        BY <1>4, <1>6, <2>7 DEF ChunkInv, OnTheWire, Answered, OneWay
      <3>2. AckOf(v)' = {}
        <4>1. ASSUME NEW a \in AckOf(v) PROVE a = m
          <5>1. /\ a \in Message /\ a.do = "chunk" /\ a.id = u /\ a.part = n
            BY <2>7 DEF ChunkInv, Answered, AckOf, TypeOK
          <5> QED
            BY <5>1, MessageParts
        <4> QED
          BY <1>1, <1>2, <4>1 DEF AckOf
      <3>3. /\ \A k \in On(v, "chunk")' :
                 k = Len(wire) + 1 /\ wire'[k].part = n + 1
            /\ On(v, "data")' = {}
        BY <2>2, <2>5, <3>1
      <3>4. OnTheWire(v)'
        <4>1. buffer'[v] = 1..((n + 1) - 1)
          BY <1>1, <2>1, <3>1
        <4> QED
          BY <1>2, <2>3, <2>7, <3>1, <3>2, <3>3, <4>1 DEF OnTheWire
      <3>5. Answered(v)' /\ InHand(v)'
        BY <1>2, <3>1, <3>2 DEF Answered, InHand
      <3>6. OneWay(v)'
        BY <1>2, <2>3, <2>7, <3>1, <3>3 DEF OneWay
      <3> QED
        BY <3>4, <3>5, <3>6 DEF ChunkInv
    <2> QED
      BY <2>6, <2>7
  <1> QED
    BY <1>3, <1>5, <1>6 DEF ChunkAcked

----------------------------------------------------------------------------
(* What the sender's server does with the chunks.                           *)

LEMMA ChunkArrives ==
  ASSUME TypeOK, NEW v \in Upload, HandleChunk, ChunkInv(v)
  PROVE  ChunkInv(v)'
  <1> USE Constants
  <1> DEFINE h == Head(wire)
             u == h.id
             n == h.part
             parts == buffer[u] \cup {n}
  <1>1. /\ Arrives("chunk") /\ h \in Message /\ h.do = "chunk" /\ h = wire[1]
        /\ u \in Upload /\ n \in Part
        /\ Handling(h) \in Handler /\ Handling(h).msg = h
        /\ Handling(h).pc = "forward"
    BY Arrival, MessageParts, Handlers DEF HandleChunk
  <1>2. /\ MovedUp(v, 1) /\ (u = v => 1 \in On(v, "chunk"))
    BY <1>1, WireTail
  <1>3. /\ UNCHANGED <<upload, data>>
        /\ \E S \in {{}, parts} : buffer' = [buffer EXCEPT ![u] = S]
        /\ work' \subseteq work \cup {Handling(h)}
        /\ acks' \subseteq acks \cup {h}
        /\ IF parts = Part THEN acks' = acks
           ELSE work' = work /\ buffer' = [buffer EXCEPT ![u] = parts]
    BY DEF HandleChunk, Begin, job
  <1>4. buffer \in [Upload -> SUBSET Part]
    BY DEF TypeOK
  <1> HIDE DEF h, u, n, parts
  <1>5. StoredStays(v)
    BY <1>3 DEF StoredStays, StoredAt
  <1>6. CASE v # u
    <2>1. buffer'[v] = buffer[v]
      BY <1>1, <1>3, <1>4, <1>6
    <2>2. AckOf(v)' \subseteq AckOf(v)
      BY <1>3, <1>6 DEF AckOf, u
    <2>3. SameHandled(v)
      <3>1. Handling(h).msg.id # v
        BY <1>1, <1>6 DEF u
      <3> QED
        BY <1>3, <3>1 DEF SameHandled, Handled
    <2> QED
      BY <1>2, <1>3, <1>5, <2>1, <2>2, <2>3, ChunkQuiet DEF SamePc
  <1>7. CASE v = u
    <2>1. /\ n = upload[v].next /\ buffer[v] = 1..(n - 1)
          /\ AckOf(v) = {} /\ Handled(v, "chunk") = {}
          /\ \A j \in On(v, "chunk") : j = 1
          /\ upload[v].pc \notin {"none", "waiting", "sent"}
          /\ On(v, "data") = {} /\ Handled(v, "data") = {}
          /\ upload[v].pc = "done" =>
               \A p \in {"server", "peer"} : StoredAt(p, v)
      BY <1>1, <1>2, <1>7 DEF ChunkInv, OnTheWire, OneWay, n
    <2>2. On(v, "chunk")' = {} /\ On(v, "data")' = {}
      <3>1. \A k \in On(v, "chunk")' : k + 1 = 1 /\ k \in 1..Len(wire')
        BY <1>2, <2>1 DEF MovedUp, On
      <3>2. Len(wire') \in Nat
        BY <1>1, Arrival
      <3>3. \A k \in 1..Len(wire') : k + 1 # 1
        BY <3>2
      <3> QED
        BY <1>2, <2>1, <3>1, <3>3 DEF MovedUp
    <2>3. /\ \A a \in AckOf(v)' : a = h /\ parts # Part
          /\ \A w \in Handled(v, "chunk")' : w = Handling(h) /\ parts = Part
      BY <1>3, <2>1 DEF AckOf, Handled
    <2>4. Handled(v, "data")' = {}
      BY <1>1, <1>3, <2>1 DEF Handled
    <2>5. parts = 1..n
      BY <1>1, <1>7, <2>1 DEF parts, Part
    <2>6. parts = Part <=> n = Chunks
      BY <1>1, <2>5 DEF Part
    <2>7. OnTheWire(v)'
      BY <2>2 DEF OnTheWire
    <2>8. Answered(v)'
      <3>1. ASSUME NEW a \in AckOf(v)'
            PROVE  /\ a.part = upload'[v].next /\ a.part # Chunks
                   /\ buffer'[v] = 1..a.part /\ Handled(v, "chunk")' = {}
        <4>1. a = h /\ parts # Part
          BY <2>3
        <4>2. buffer'[v] = parts
          BY <1>3, <1>4, <1>7, <4>1
        <4> QED
          BY <1>3, <2>1, <2>3, <2>5, <2>6, <4>1, <4>2 DEF n
      <3> QED
        BY <3>1 DEF Answered
    <2>9. InHand(v)'
      BY <1>1, <1>3, <2>1, <2>3, <2>6 DEF InHand, n
    <2>10. OneWay(v)'
      BY <1>3, <1>5, <2>1, <2>2, <2>4 DEF OneWay, StoredStays
    <2> QED
      BY <2>7, <2>8, <2>9, <2>10 DEF ChunkInv
  <1> QED
    BY <1>6, <1>7

LEMMA DataArrives ==
  ASSUME TypeOK, NEW v \in Upload, HandleData, ChunkInv(v)
  PROVE  ChunkInv(v)'
  <1> DEFINE h == Head(wire)
  <1>1. /\ Arrives("data") /\ h \in Message /\ h.do = "data"
        /\ Handling(h) \in Handler /\ Handling(h).msg = h
    BY Arrival, Handlers DEF HandleData
  <1>2. /\ MovedUp(v, 1) /\ (h.id = v => 1 \in On(v, "data"))
    BY <1>1, WireTail
  <1>3. /\ UNCHANGED <<upload, data, buffer, acks>>
        /\ work' \subseteq work \cup {Handling(h)}
    BY DEF HandleData, Begin, job
  <1> HIDE DEF h
  <1>4. StoredStays(v) /\ AckOf(v)' = AckOf(v)
    BY <1>3 DEF StoredStays, StoredAt, AckOf
  <1>5. Handled(v, "chunk")' \subseteq Handled(v, "chunk")
    BY <1>1, <1>3 DEF Handled
  <1>6. CASE h.id # v
    <2>1. SameHandled(v)
      BY <1>1, <1>3, <1>6 DEF SameHandled, Handled
    <2> QED
      BY <1>2, <1>3, <1>4, <2>1, ChunkQuiet DEF SamePc
  <1>7. CASE h.id = v
    <2>1. /\ upload[v].pc = "sent"
          /\ On(v, "chunk") = {} /\ AckOf(v) = {} /\ Handled(v, "chunk") = {}
      BY <1>2, <1>7 DEF ChunkInv, OneWay
    <2>2. On(v, "chunk")' = {} /\ Handled(v, "chunk")' = {} /\ AckOf(v)' = {}
      BY <1>2, <1>4, <1>5, <2>1 DEF MovedUp
    <2> QED
      BY <1>3, <2>1, <2>2 DEF ChunkInv, OnTheWire, Answered, InHand, OneWay
  <1> QED
    BY <1>6, <1>7

\* The data of an event that has some is replaced and never removed.
LEMMA DataGets ==
  ASSUME TypeOK, NEW p \in Database, NEW u \in Upload, NEW v \in Upload,
         data' = [data EXCEPT ![p][Of[u]] = u]
  PROVE  /\ StoredStays(v)
         /\ p \in {"server", "peer"} => StoredAt(p, u)'
  <1>1. /\ Of[u] \in Event /\ Of[v] \in Event /\ u # None
        /\ data \in [Database -> [Event -> Upload \cup {None}]]
    BY Constants DEF TypeOK
  <1>2. \A q \in Database : \A e \in Event :
          data'[q][e] = IF q = p /\ e = Of[u] THEN u ELSE data[q][e]
    BY <1>1
  <1> QED
    BY <1>1, <1>2 DEF StoredStays, StoredAt, Database

\* A handler that is done or goes on, of another upload or of this one.
LEMMA ChunkForward ==
  ASSUME TypeOK, NEW v \in Upload, NEW w \in work, ForwardData(w), ChunkInv(v),
         "unlinked" \notin odd'
  PROVE  ChunkInv(v)'
  <1> DEFINE x == [w EXCEPT !.pc = "save"]
             u == w.msg.id
  <1>1. /\ w.msg \in Message /\ w.msg.do \in {"data", "chunk"}
        /\ u \in Upload /\ w.pc = "forward"
        /\ x.msg = w.msg /\ x.pc = "save" /\ w \in Handled(u, w.msg.do)
    BY Handlers, MessageParts DEF ForwardData, At, TypeOK, Handled
  <1>2. /\ UNCHANGED <<upload, wire, acks>>
        /\ \/ /\ work' = (work \ {w}) \cup {x} /\ UNCHANGED buffer
              /\ data' = [data EXCEPT !["peer"][Of[u]] = u]
           \/ /\ work' = work \ {w}
              /\ \/ UNCHANGED data
                 \/ data' = [data EXCEPT !["peer"][Of[u]] = u]
              /\ buffer' = [buffer EXCEPT ![u] = {}]
    <2>1. ~Trouble({"unlinked"})
      BY DEF Trouble
    <2> QED
      BY <2>1 DEF ForwardData, Goes, Done, Emptied, job, bridge
  <1>3. buffer \in [Upload -> SUBSET Part]
    BY DEF TypeOK
  <1> HIDE DEF x, u
  <1>4. /\ StoredStays(v)
        /\ x \in work' => StoredAt("peer", u)' \/ x \in work
    <2>1. CASE data' = [data EXCEPT !["peer"][Of[u]] = u]
      BY <1>1, <2>1, DataGets DEF Database
    <2>2. CASE UNCHANGED data /\ work' = work \ {w}
      BY <2>2 DEF StoredStays, StoredAt
    <2> QED
      BY <1>2, <2>1, <2>2
  <1>5. MovedUp(v, 0) /\ AckOf(v)' = AckOf(v)
    BY <1>2, WireSame DEF AckOf
  <1>6. CASE v # u
    <2>1. SameHandled(v)
      BY <1>1, <1>2, <1>6 DEF SameHandled, Handled, u
    <2>2. buffer'[v] = buffer[v]
      BY <1>1, <1>2, <1>3, <1>6
    <2> QED
      BY <1>2, <1>4, <1>5, <2>1, <2>2, ChunkQuiet DEF SamePc
  <1>7. CASE v = u /\ w.msg.do = "data"
    <2>1. /\ upload[v].pc = "sent"
          /\ On(v, "chunk") = {} /\ AckOf(v) = {} /\ Handled(v, "chunk") = {}
      BY <1>1, <1>7 DEF ChunkInv, OneWay
    <2>2. On(v, "chunk")' = {} /\ Handled(v, "chunk")' = {} /\ AckOf(v)' = {}
      BY <1>1, <1>2, <1>5, <1>7, <2>1 DEF MovedUp, Handled
    <2> QED
      BY <1>2, <2>1, <2>2 DEF ChunkInv, OnTheWire, Answered, InHand, OneWay
  <1>8. CASE v = u /\ w.msg.do = "chunk"
    <2>1. /\ On(v, "chunk") = {}
          /\ \A a \in AckOf(v) : a.part = Chunks /\ a.part = upload[v].next
          /\ \A a \in AckOf(v), p \in {"server", "peer"} : StoredAt(p, v)
          /\ upload[v].pc \notin {"none", "waiting", "sent"}
          /\ On(v, "data") = {} /\ Handled(v, "data") = {}
          /\ w.msg.part = Chunks /\ upload[v].next = Chunks
      BY <1>1, <1>8 DEF ChunkInv, OnTheWire, Answered, OneWay, InHand
    <2>2. /\ On(v, "chunk")' = {} /\ On(v, "data")' = {}
          /\ Handled(v, "data")' = {}
      BY <1>1, <1>2, <1>5, <1>8, <2>1 DEF MovedUp, Handled
    <2>3. OnTheWire(v)'
      BY <2>2 DEF OnTheWire
    <2>4. Answered(v)'
      BY <1>2, <1>4, <1>5, <2>1 DEF Answered, StoredStays
    <2>5. InHand(v)'
      <3>1. ASSUME NEW y \in Handled(v, "chunk")'
            PROVE  /\ y.msg.part = Chunks
                   /\ y.pc = "save" => StoredAt("peer", v)'
        <4>1. CASE y \in Handled(v, "chunk")
          BY <1>4, <4>1 DEF ChunkInv, InHand, StoredStays
        <4>2. CASE y \notin Handled(v, "chunk")
          <5>1. y = x /\ x \notin work
            BY <1>2, <3>1, <4>2 DEF Handled
          <5>2. x \in work'
            BY <3>1, <5>1 DEF Handled
          <5> QED
            BY <1>1, <1>4, <1>8, <2>1, <5>1, <5>2
        <4> QED
          BY <4>1, <4>2
      <3> QED
        BY <1>2, <2>1, <3>1 DEF InHand
    <2>6. OneWay(v)'
      BY <1>2, <1>4, <2>1, <2>2 DEF ChunkInv, OneWay, StoredStays
    <2> QED
      BY <2>3, <2>4, <2>5, <2>6 DEF ChunkInv
  <1> QED
    BY <1>1, <1>6, <1>7, <1>8

LEMMA ChunkSave ==
  ASSUME TypeOK, NEW v \in Upload, NEW w \in work, SaveData(w), ChunkInv(v)
  PROVE  ChunkInv(v)'
  <1> DEFINE u == w.msg.id
  <1>1. /\ w.msg \in Message /\ w.msg.do \in {"data", "chunk"}
        /\ u \in Upload /\ w.pc = "save"
        /\ w \in Handled(u, w.msg.do)
    BY Handlers, MessageParts DEF SaveData, At, TypeOK, Handled
  <1>2. /\ UNCHANGED <<upload, wire>> /\ work' = work \ {w}
        /\ data' = [data EXCEPT !["server"][Of[u]] = u]
        /\ buffer' = [buffer EXCEPT ![u] = {}]
    BY DEF SaveData, Done, Emptied, job
  <1>a. \/ acks' = acks
        \/ w.msg.do = "chunk" /\ acks' = acks \cup {w.msg}
    <2>1. \/ acks' = acks \cup {}
          \/ w.msg.do # "data" /\ acks' = acks \cup {w.msg}
      BY DEF SaveData, Answer
    <2> QED
      BY <1>1, <2>1
  <1>3. buffer \in [Upload -> SUBSET Part]
    BY DEF TypeOK
  <1> HIDE DEF u
  <1>4. StoredStays(v) /\ StoredAt("server", u)'
    BY <1>1, <1>2, DataGets DEF Database
  <1>5. MovedUp(v, 0)
    BY <1>2, WireSame
  <1>6. CASE v # u
    <2>1. SameHandled(v)
      BY <1>2 DEF SameHandled, Handled
    <2>2. buffer'[v] = buffer[v] /\ AckOf(v)' \subseteq AckOf(v)
      BY <1>1, <1>2, <1>3, <1>6, <1>a DEF AckOf, u
    <2> QED
      BY <1>2, <1>4, <1>5, <2>1, <2>2, ChunkQuiet DEF SamePc
  <1>7. CASE v = u /\ w.msg.do = "data"
    <2>1. /\ upload[v].pc = "sent"
          /\ On(v, "chunk") = {} /\ AckOf(v) = {} /\ Handled(v, "chunk") = {}
      BY <1>1, <1>7 DEF ChunkInv, OneWay
    <2>2. On(v, "chunk")' = {} /\ Handled(v, "chunk")' = {} /\ AckOf(v)' = {}
      BY <1>2, <1>5, <1>7, <1>a, <2>1 DEF MovedUp, Handled, AckOf
    <2> QED
      BY <1>2, <2>1, <2>2 DEF ChunkInv, OnTheWire, Answered, InHand, OneWay
  <1>8. CASE v = u /\ w.msg.do = "chunk"
    <2>1. /\ On(v, "chunk") = {}
          /\ \A a \in AckOf(v) : a.part = Chunks
          /\ upload[v].pc \notin {"none", "waiting", "sent"}
          /\ On(v, "data") = {} /\ Handled(v, "data") = {}
          /\ w.msg.part = Chunks /\ upload[v].next = Chunks
          /\ StoredAt("peer", v)
      BY <1>1, <1>8 DEF ChunkInv, OnTheWire, Answered, OneWay, InHand
    <2>2. /\ On(v, "chunk")' = {} /\ On(v, "data")' = {}
          /\ Handled(v, "data")' = {}
          /\ Handled(v, "chunk")' \subseteq Handled(v, "chunk")
      BY <1>2, <1>5, <2>1 DEF MovedUp, Handled
    <2>3. \A p \in {"server", "peer"} : StoredAt(p, v)'
      BY <1>4, <1>8, <2>1 DEF StoredStays
    <2>4. OnTheWire(v)'
      BY <2>2 DEF OnTheWire
    <2>5. Answered(v)'
      <3>1. \A a \in AckOf(v)' : a.part = Chunks
        BY <1>a, <2>1 DEF AckOf
      <3> QED
        BY <1>2, <2>1, <2>3, <3>1 DEF Answered
    <2>6. InHand(v)'
      BY <1>2, <2>2, <2>3 DEF ChunkInv, InHand
    <2>7. OneWay(v)'
      BY <1>2, <2>1, <2>2, <2>3 DEF OneWay
    <2> QED
      BY <2>4, <2>5, <2>6, <2>7 DEF ChunkInv
  <1> QED
    BY <1>1, <1>6, <1>7, <1>8

----------------------------------------------------------------------------
(* What is answered is stored.                                              *)

\* The steps of a job's calls that send no data.
LEMMA ChunkClient ==
  ASSUME TypeOK, NEW v \in Upload, ChunkInv(v),
         \/ \E e \in Event : \/ CreateEvent(e) \/ EmitCreate(e)
                             \/ CreateAcked(e) \/ CreateFails(e)
         \/ \E u \in Upload : BeginUpload(u) \/ UploadFails(u)
  PROVE  ChunkInv(v)'
  <1> USE DEF bridge, job
  <1>1. UNCHANGED <<buffer, work, data>>
    BY DEF CreateEvent, EmitCreate, CreateAcked, CreateFails, BeginUpload,
      UploadFails
  <1>2. SameHandled(v) /\ StoredStays(v)
    BY <1>1 DEF SameHandled, Handled, StoredStays, StoredAt
  <1>3. acks' \subseteq acks
    BY DEF CreateEvent, EmitCreate, CreateAcked, CreateFails, BeginUpload,
      UploadFails
  <1>4. AckOf(v)' \subseteq AckOf(v)
    BY <1>3 DEF AckOf
  <1>5. MovedUp(v, 0)
    <2>1. ASSUME NEW e \in Event, EmitCreate(e) PROVE MovedUp(v, 0)
      <3> DEFINE m == Msg("create", e, 0)
      <3>1. m \in Message /\ m.do = "create" /\ wire' = Append(wire, m)
        BY <2>1, Messages DEF EmitCreate, Msg
      <3> HIDE DEF m
      <3>2. \A do \in {"chunk", "data"} : \A k \in On(v, do)' :
              k \in On(v, do) /\ wire'[k] = wire[k]
        BY <3>1, WireAppend
      <3>3. \A do \in {"chunk", "data"} : \A k \in On(v, do) : k + 0 = k
        BY DEF On
      <3> QED
        BY <3>2, <3>3 DEF MovedUp
    <2>2. CASE UNCHANGED wire
      BY <2>2, WireSame
    <2> QED
      BY <2>1, <2>2 DEF CreateEvent, CreateAcked, CreateFails, BeginUpload,
        UploadFails
  <1>6. upload'[v].next = upload[v].next /\ SamePc(v)
    <2>1. ASSUME NEW u \in Upload, BeginUpload(u)
          PROVE  upload'[v].next = upload[v].next /\ SamePc(v)
      BY <2>1, UploadMoves DEF BeginUpload, TypeOK, SamePc
    <2>2. ASSUME NEW u \in Upload, UploadFails(u)
          PROVE  upload'[v].next = upload[v].next /\ SamePc(v)
      BY <2>2, UploadMoves DEF UploadFails, TypeOK, SamePc
    <2>3. CASE UNCHANGED upload
      BY <2>3 DEF SamePc
    <2> QED
      BY <2>1, <2>2, <2>3 DEF CreateEvent, EmitCreate, CreateAcked, CreateFails
  <1> QED
    BY <1>1, <1>2, <1>4, <1>5, <1>6, ChunkQuiet

\* The handlers of an event.
LEMMA ChunkCreates ==
  ASSUME TypeOK, NEW v \in Upload, ChunkInv(v),
         \/ HandleCreate
         \/ \E w \in work : ForwardCreate(w) \/ NoTransfer(w) \/ SaveCreate(w)
  PROVE  ChunkInv(v)'
  <1> USE DEF bridge, job
  <1>1. /\ UNCHANGED <<upload, buffer, data>>
        /\ upload'[v].next = upload[v].next /\ SamePc(v) /\ StoredStays(v)
    BY DEF HandleCreate, ForwardCreate, NoTransfer, SaveCreate, SamePc,
      StoredStays, StoredAt
  <1>2. CASE HandleCreate
    <2> DEFINE h == Head(wire)
    <2>1. Arrives("create") /\ h \in Message /\ h.do = "create"
          /\ Handling(h).msg = h
      BY <1>2, Arrival, Handlers DEF HandleCreate
    <2>2. MovedUp(v, 1)
      BY <2>1, WireTail
    <2>3. work' = work \cup {Handling(h)} /\ UNCHANGED acks
      BY <1>2 DEF HandleCreate
    <2> HIDE DEF h
    <2>4. SameHandled(v) /\ AckOf(v)' = AckOf(v)
      BY <2>1, <2>3 DEF SameHandled, Handled, AckOf
    <2> QED
      BY <1>1, <2>2, <2>4, ChunkQuiet
  <1>3. ASSUME NEW w \in work, ForwardCreate(w) \/ NoTransfer(w) \/ SaveCreate(w)
        PROVE  ChunkInv(v)'
    <2> DEFINE x == [w EXCEPT !.pc = "save"]
    <2>1. w.msg.do = "create" /\ x.msg = w.msg
      BY <1>3, Handlers DEF ForwardCreate, NoTransfer, SaveCreate, At, TypeOK
    <2>2. /\ work' \subseteq work \cup {x} /\ UNCHANGED wire
          /\ acks' \subseteq acks \cup {w.msg}
      BY <1>3 DEF ForwardCreate, NoTransfer, SaveCreate, Goes, Done, Answer
    <2> HIDE DEF x
    <2>3. SameHandled(v) /\ AckOf(v)' \subseteq AckOf(v)
      BY <2>1, <2>2 DEF SameHandled, Handled, AckOf
    <2> QED
      BY <1>1, <2>2, <2>3, WireSame, ChunkQuiet
  <1> QED
    BY <1>2, <1>3

\* The receiver and the connections.
LEMMA ChunkElsewhere ==
  ASSUME TypeOK, NEW v \in Upload, ChunkInv(v),
         \/ \E s \in Side : Disconnect(s) \/ Connect(s)
         \/ UpsertEvent \/ ApplyData \/ (\E s \in saving : SaveEvent(s))
         \/ Poll
         \/ UNCHANGED vars
  PROVE  ChunkInv(v)'
  <1> USE DEF bridge, job
  <1>1. UNCHANGED <<upload, buffer>>
    BY DEF Disconnect, Connect, UpsertEvent, ApplyData, SaveEvent, Poll,
      PollBegins, PollWoken, PollWaits, PollEnds, Look, vars
  <1>2. /\ acks' = acks \/ acks' = {}
        /\ wire' = wire \/ wire' = <<>>
    BY DEF Disconnect, Closes, Connect, UpsertEvent, ApplyData, SaveEvent, Poll,
      PollBegins, PollWoken, PollWaits, PollEnds, Look, vars
  <1>3. MovedUp(v, 0) /\ AckOf(v)' \subseteq AckOf(v)
    BY <1>2, WireSame, WireEmpty DEF AckOf
  <1>4. StoredStays(v)
    <2>1. CASE UNCHANGED data
      BY <2>1 DEF StoredStays, StoredAt
    <2>2. CASE ApplyData
      <3>1. data'["server"] = data["server"] /\ data'["peer"] = data["peer"]
        <4>1. \/ UNCHANGED data
              \/ data' = [data EXCEPT !["reader"][Of[Head(push).id]]
                                        = Head(push).id]
          BY <2>2 DEF ApplyData
        <4> QED
          BY <4>1 DEF TypeOK, Database
      <3> QED
        BY <3>1 DEF StoredStays, StoredAt
    <2> QED
      BY <2>1, <2>2 DEF Disconnect, Connect, UpsertEvent, SaveEvent, Poll,
        PollBegins, PollWoken, PollWaits, PollEnds, Look, vars
  <1>5. SameHandled(v)
    <2>1. CASE UNCHANGED work
      BY <2>1 DEF SameHandled, Handled
    <2>2. CASE work' = {[w EXCEPT !.answer = FALSE] : w \in work}
      <3>1. ASSUME NEW do, NEW x \in Handled(v, do)'
            PROVE  \E y \in Handled(v, do) : y.msg = x.msg /\ y.pc = x.pc
        <4>1. x \in work' /\ x.msg.do = do /\ x.msg.id = v
          BY DEF Handled
        <4>2. PICK w \in work : x = [w EXCEPT !.answer = FALSE]
          BY <2>2, <4>1
        <4>3. x.msg = w.msg /\ x.pc = w.pc
          BY <4>2, Handlers DEF TypeOK
        <4> QED
          BY <4>1, <4>3 DEF Handled
      <3> QED
        BY <3>1 DEF SameHandled
    <2> QED
      BY <2>1, <2>2 DEF Disconnect, Connect, UpsertEvent, ApplyData, SaveEvent,
        Poll, PollBegins, PollWoken, PollWaits, PollEnds, Look, vars
  <1> QED
    BY <1>1, <1>3, <1>4, <1>5, ChunkQuiet DEF SamePc

LEMMA ChunkStep ==
  ASSUME TypeOK, TypeOK', [Next]_vars, NEW v \in Upload, ChunkInv(v),
         odd' \cap {"dropped", "unlinked"} = {}
  PROVE  ChunkInv(v)'
  <1>1. ~Restart /\ \A u \in Upload : ~Cleanup(u)
    BY DEF Restart, Cleanup, Trouble
  <1> QED
    BY <1>1, ChunkEmit, ChunkNext, ChunkArrives, DataArrives, ChunkForward,
       ChunkSave, ChunkClient, ChunkCreates, ChunkElsewhere DEF Next, Progress

LEMMA CreatesStep == TypeOK /\ CreatesStored /\ [Next]_vars => CreatesStored'
  <1> SUFFICES ASSUME TypeOK, CreatesStored, [Next]_vars, NEW e \in Event,
                      Msg("create", e, 0) \in acks' \/ create'[e] = "done"
               PROVE  e \in row'["server"]
    BY DEF CreatesStored
  <1> USE DEF bridge, job
  <1>1. CASE Msg("create", e, 0) \in acks \/ create[e] = "done"
    <2>1. e \in row["server"]
      BY <1>1 DEF CreatesStored
    <2>2. CASE UNCHANGED row
      BY <2>1, <2>2
    <2>3. ASSUME NEW p \in Database, NEW x,
                 row' = [row EXCEPT ![p] = @ \cup {x}]
          PROVE  e \in row'["server"]
      BY <2>1, <2>3 DEF TypeOK, Database
    <2>4. ASSUME NEW w \in work, ForwardCreate(w) PROVE e \in row'["server"]
      BY <2>2, <2>3, <2>4 DEF ForwardCreate, Database
    <2>5. ASSUME NEW w \in work, SaveCreate(w) PROVE e \in row'["server"]
      BY <2>3, <2>5 DEF SaveCreate, Database
    <2>6. ASSUME NEW s \in saving, SaveEvent(s) PROVE e \in row'["server"]
      BY <2>3, <2>6 DEF SaveEvent, Database
    <2>7. ASSUME NEW f \in Event, EmitCreate(f) \/ CreateAcked(f)
                                  \/ CreateEvent(f) \/ CreateFails(f)
          PROVE  UNCHANGED row
      BY <2>7 DEF EmitCreate, CreateAcked, CreateEvent, CreateFails
    <2>8. ASSUME NEW u \in Upload, EmitData(u) \/ ChunkAcked(u)
                   \/ BeginUpload(u) \/ UploadFails(u) \/ Cleanup(u)
          PROVE  UNCHANGED row
      BY <2>8 DEF EmitData, ChunkAcked, BeginUpload, UploadFails, Cleanup
    <2>9. ASSUME NEW w \in work, ForwardData(w) \/ SaveData(w) \/ NoTransfer(w)
          PROVE  UNCHANGED row
      BY <2>9 DEF ForwardData, SaveData, NoTransfer
    <2>10. CASE \/ HandleCreate \/ HandleData \/ HandleChunk \/ UpsertEvent
                \/ ApplyData \/ Poll \/ Restart \/ UNCHANGED vars
                \/ \E s \in Side : Disconnect(s) \/ Connect(s)
      BY <2>2, <2>10 DEF HandleCreate, HandleData, HandleChunk, UpsertEvent,
        ApplyData, Poll, PollBegins, PollWoken, PollWaits, PollEnds, Look,
        Restart, Disconnect, Connect, vars
    <2> QED
      BY <2>2, <2>4, <2>5, <2>6, <2>7, <2>8, <2>9, <2>10 DEF Next, Progress
  <1>2. CASE Msg("create", e, 0) \notin acks /\ create[e] # "done"
    <2>1. ASSUME NEW w \in work, SaveCreate(w) PROVE e \in row'["server"]
      <3>1. w.msg \in Message /\ w.msg.do = "create" /\ w.msg.id \in Event
        BY <2>1, Handlers, MessageParts DEF SaveCreate, At, TypeOK
      <3>2. row'["server"] = row["server"] \cup {w.msg.id}
        BY <2>1, <3>1, RowGets DEF SaveCreate, TypeOK, Database
      <3>3. Msg("create", e, 0) = w.msg
        BY <1>2, <2>1 DEF SaveCreate, Answer
      <3> QED
        BY <3>2, <3>3 DEF Msg
    <2>2. ASSUME NEW w \in work, SaveData(w)
          PROVE  ~(Msg("create", e, 0) \in acks' \/ create'[e] = "done")
      BY <1>2, <2>2 DEF SaveData, Answer, At, Msg
    <2>3. ASSUME HandleChunk
          PROVE  ~(Msg("create", e, 0) \in acks' \/ create'[e] = "done")
      <3>1. Head(wire).do = "chunk"
        BY <2>3 DEF HandleChunk, Arrives
      <3>2. acks' \subseteq acks \cup {Head(wire)} /\ UNCHANGED create
        BY <2>3 DEF HandleChunk
      <3> QED
        BY <1>2, <3>1, <3>2 DEF Msg
    <2>4. ASSUME NEW f \in Event, EmitCreate(f) \/ CreateAcked(f)
                                  \/ CreateEvent(f) \/ CreateFails(f)
          PROVE  ~(Msg("create", e, 0) \in acks' \/ create'[e] = "done")
      <3>1. CASE CreateAcked(f)
        BY <1>2, <3>1 DEF CreateAcked, TypeOK
      <3>2. CASE EmitCreate(f)
        BY <1>2, <3>2 DEF EmitCreate, TypeOK
      <3>3. CASE CreateEvent(f) \/ CreateFails(f)
        BY <1>2, <3>3 DEF CreateEvent, CreateFails, TypeOK
      <3> QED
        BY <2>4, <3>1, <3>2, <3>3
    <2>5. ASSUME acks' \subseteq acks, UNCHANGED create
          PROVE  ~(Msg("create", e, 0) \in acks' \/ create'[e] = "done")
      BY <1>2, <2>5
    <2>6. ASSUME NEW u \in Upload, EmitData(u) \/ ChunkAcked(u)
                   \/ BeginUpload(u) \/ UploadFails(u) \/ Cleanup(u)
          PROVE  acks' \subseteq acks /\ UNCHANGED create
      BY <2>6 DEF EmitData, ChunkAcked, BeginUpload, UploadFails, Cleanup
    <2>7. ASSUME NEW w \in work,
                 ForwardCreate(w) \/ ForwardData(w) \/ NoTransfer(w)
          PROVE  acks' \subseteq acks /\ UNCHANGED create
      BY <2>7 DEF ForwardCreate, ForwardData, NoTransfer
    <2>8. ASSUME \/ HandleCreate \/ HandleData \/ UpsertEvent
                 \/ ApplyData \/ Poll \/ Restart \/ UNCHANGED vars
                 \/ \E s \in Side : Disconnect(s) \/ Connect(s)
                 \/ \E s \in saving : SaveEvent(s)
          PROVE  acks' \subseteq acks /\ UNCHANGED create
      BY <2>8 DEF HandleCreate, HandleData, UpsertEvent,
        ApplyData, Poll, PollBegins, PollWoken, PollWaits, PollEnds, Look,
        Restart, Disconnect, Connect, Closes, SaveEvent, vars
    <2> QED
      BY <2>1, <2>2, <2>3, <2>4, <2>5, <2>6, <2>7, <2>8 DEF Next, Progress
  <1> QED
    BY <1>1, <1>2

LEMMA StoredInit == Init => StoredInv
  <1> SUFFICES ASSUME Init PROVE StoredInv
    OBVIOUS
  <1>1. CreatesStored
    BY DEF Init, CreatesStored
  <1>2. ASSUME NEW u \in Upload PROVE ChunkInv(u)
    <2>1. /\ \A do : On(u, do) = {} /\ Handled(u, do) = {}
          /\ AckOf(u) = {} /\ buffer[u] = {}
          /\ upload[u].pc = "none" /\ upload[u].next = 1
      BY DEF Init, On, Handled, AckOf
    <2> QED
      BY <2>1 DEF ChunkInv, OnTheWire, Answered, InHand, OneWay
  <1> QED
    BY <1>1, <1>2 DEF StoredInv

LEMMA StoredStep ==
  TypeOK /\ TypeOK' /\ StoredInv /\ [Next]_vars => StoredInv'
  BY ChunkStep, CreatesStep, OddGrows DEF StoredInv

\* Where every chunk of an upload is, or was lost (EventInduction.StoredInv).
THEOREM ChunksInOrder == Spec => []StoredInv
  BY StoredInit, StoredStep, EventTypes, PTL DEF Spec

\* A job that has been answered may rely on it: an event that was created is at
\* the server, always, and an upload in chunks at the server and at the peer,
\* unless the server has dropped chunks or its instance has lost the transfer
\* (createAlgorithmEventFromBridge, uploadAlgorithmEventDataFromBridge).
THEOREM AnswersHold == Spec => []AnsweredIsStored
  <1>1. StoredInv => AnsweredIsStored
    BY DEF StoredInv, CreatesStored, ChunkInv, OneWay, StoredAt,
      AnsweredIsStored
  <1> QED
    BY <1>1, ChunksInOrder, PTL
=============================================================================
