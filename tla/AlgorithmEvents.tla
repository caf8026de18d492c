--------------------------- MODULE AlgorithmEvents ---------------------------
(***************************************************************************)
(* Events between the jobs of an algorithm (analytics-data-plane-api,      *)
(* EventsService and the bridge), both participants split into a client,   *)
(* where the job runs, and a server:                                       *)
(*                                                                         *)
(*   job - client == wire ==> server - HTTP -> server == push ==> client - *)
(*   job that polls                                                        *)
(*                                                                         *)
(* A job creates an event, which the client passes on and awaits the       *)
(* answer to, and then uploads its data, in one message or in chunks of    *)
(* which each is awaited.  The web sockets may close at any time; what is  *)
(* on its way is then lost.                                                *)
(***************************************************************************)
EXTENDS Naturals, Sequences

CONSTANTS
  Event,       \* the events the sender's job may create
  Upload,      \* the uploads it may make (the transferId of the chunks)
  Of,          \* Of[u]: the event u is for
  Chunks,      \* into how many parts large data is cut
  None,        \* no upload
  MaxTrouble   \* bound: faults, overlapping handlers and equal times

ASSUME EventAssumption ==
  /\ Event \cap Upload = {} /\ None \notin Upload
  /\ Of \in [Upload -> Event]
  /\ Chunks \in Nat \ {0, 1} /\ MaxTrouble \in Nat

Part == 1..Chunks
Side == {"sender", "receiver"}

VARIABLES
  link,     \* link[s]: the socket between client and server of the side is open
  create,   \* create[e]: the job's call to create e
  upload,   \* upload[u]: its call to upload
  wire,     \* the messages from the sender's client to its server
  acks,     \* the answers on their way back
  buffer,   \* chunkBuffers: the chunks the sender's server has of an upload
  work,     \* the handlers of the sender's server
  row,      \* row[p]: the events in the database of p
  data,     \* data[p][e]: their data
  push,     \* the messages from the receiver's server to its client
  saving,   \* what the receiver's client is saving
  time,     \* time[e]: the timestamp of its row
  poll,     \* the poll of the receiver's job
  since,    \* the timestamp it has come to
  got,      \* the events it has been given
  clock,    \* the time at the receiver's client
  odd,      \* history: what has gone wrong or happened at an ill time
  trouble   \* how often

job == <<create, upload>>
bridge == <<link, wire, acks>>
receiver == <<time, poll, since, got, clock, saving>>
history == <<odd, trouble>>
vars == <<job, bridge, buffer, work, row, data, push, receiver, history>>

Database == {"server", "peer", "reader"}
Message == [do : {"create"}, id : Event, part : {0}]
           \cup [do : {"data"}, id : Upload, part : {0}]
           \cup [do : {"chunk"}, id : Upload, part : Part]
UploadCall == [next : Part, pc : {"none", "waiting", "sent", "asked", "done",
                                  "failed"}]
Handler == [msg : Message, pc : {"forward", "save"}, answer : BOOLEAN]

TypeOK ==
  /\ link \in [Side -> BOOLEAN]
  /\ create \in [Event -> {"none", "waiting", "asked", "done", "failed"}]
  /\ upload \in [Upload -> UploadCall]
  /\ wire \in Seq(Message) /\ acks \subseteq Message
  /\ buffer \in [Upload -> SUBSET Part]
  /\ work \subseteq Handler
  /\ row \in [Database -> SUBSET Event]
  /\ data \in [Database -> [Event -> Upload \cup {None}]]
  /\ push \in Seq(Message)
  /\ saving \subseteq [event : Event, time : Nat]
  /\ time \in [Event -> Nat] /\ since \in Nat /\ clock \in Nat
  /\ poll \in {"idle", "read", "waiting", "woken"}
  /\ got \subseteq Event
  /\ odd \subseteq {"fault", "overlap", "tie", "dropped", "unlinked"}
  /\ trouble \in Nat

Init ==
  /\ link = [s \in Side |-> TRUE]
  /\ create = [e \in Event |-> "none"]
  /\ upload = [u \in Upload |-> [next |-> 1, pc |-> "none"]]
  /\ wire = <<>> /\ acks = {} /\ push = <<>>
  /\ buffer = [u \in Upload |-> {}] /\ work = {}
  /\ row = [p \in Database |-> {}]
  /\ data = [p \in Database |-> [e \in Event |-> None]]
  /\ saving = {} /\ time = [e \in Event |-> 0]
  /\ poll = "idle" /\ since = 0 /\ got = {} /\ clock = 0
  /\ odd = {} /\ trouble = 0

Msg(do, id, part) == [do |-> do, id |-> id, part |-> part]
Handling(m) == [msg |-> m, pc |-> "forward", answer |-> TRUE]

\* Something out of the ordinary happens, or nothing does.
Trouble(what) == /\ trouble < MaxTrouble /\ trouble' = trouble + 1
                 /\ odd' = odd \cup what
Odd(what) == IF what = {} THEN UNCHANGED history ELSE Trouble(what)
Fault == Trouble({"fault"})

----------------------------------------------------------------------------
(* The sender's client: createAlgorithmEvent, uploadAlgorithmEventData and  *)
(* what BridgeWsClientService does for them.                                *)

\* The event is saved; then the client waits for its connection.
CreateEvent(e) ==
  /\ create[e] = "none"
  /\ create' = [create EXCEPT ![e] = "waiting"]
  /\ UNCHANGED <<upload, bridge, buffer, work, row, data, push, receiver,
                 history>>

\* emitAlgorithmEventCreate.
EmitCreate(e) ==
  /\ create[e] = "waiting" /\ link["sender"]
  /\ create' = [create EXCEPT ![e] = "asked"]
  /\ wire' = Append(wire, Msg("create", e, 0))
  /\ UNCHANGED <<upload, link, acks, buffer, work, row, data, push, receiver,
                 history>>

CreateAcked(e) ==
  /\ Msg("create", e, 0) \in acks
  /\ acks' = acks \ {Msg("create", e, 0)}
  /\ create' = [create EXCEPT ![e] = IF @ = "asked" THEN "done" ELSE @]
  /\ UNCHANGED <<upload, link, wire, buffer, work, row, data, push, receiver,
                 history>>

\* No connection in five minutes, or no answer in thirty seconds.
CreateFails(e) ==
  /\ Fault
  /\ create[e] \in {"waiting", "asked"}
  /\ create' = [create EXCEPT ![e] = "failed"]
  /\ UNCHANGED <<upload, bridge, buffer, work, row, data, push, receiver>>

\* The job has been answered; the event is in the client's database also if the
\* call failed.
BeginUpload(u) ==
  /\ upload[u].pc = "none" /\ create[Of[u]] \in {"done", "failed"}
  /\ upload' = [upload EXCEPT ![u].pc = "waiting"]
  /\ UNCHANGED <<create, bridge, buffer, work, row, data, push, receiver,
                 history>>

\* emitAlgorithmEventData: the answer to small data is not awaited.
EmitData(u) ==
  /\ upload[u].pc = "waiting" /\ link["sender"]
  /\ \/ /\ upload' = [upload EXCEPT ![u].pc = "asked"]
        /\ wire' = Append(wire, Msg("chunk", u, 1))
     \/ /\ upload' = [upload EXCEPT ![u].pc = "sent"]
        /\ wire' = Append(wire, Msg("data", u, 0))
  /\ UNCHANGED <<create, link, acks, buffer, work, row, data, push, receiver,
                 history>>

\* Mutant: one chunk too many is sent.
ChunkAckedPastLast(u) ==
  LET n == upload[u].next IN
  /\ Msg("chunk", u, n) \in acks
  /\ acks' = acks \ {Msg("chunk", u, n)}
  /\ upload[u].pc = "asked"
  /\ upload' = [upload EXCEPT ![u].next = n + 1]
  /\ wire' = Append(wire, Msg("chunk", u, n + 1))
  /\ UNCHANGED <<create, link, buffer, work, row, data, push, receiver, history>>

\* A chunk is answered: the next one is sent.
ChunkAcked(u) ==
  LET n == upload[u].next IN
  /\ Msg("chunk", u, n) \in acks
  /\ acks' = acks \ {Msg("chunk", u, n)}
  /\ IF upload[u].pc # "asked" THEN UNCHANGED <<upload, wire>>
     ELSE IF n = Chunks
       THEN upload' = [upload EXCEPT ![u].pc = "done"] /\ UNCHANGED wire
     ELSE /\ upload' = [upload EXCEPT ![u].next = n + 1]
          /\ wire' = Append(wire, Msg("chunk", u, n + 1))
  /\ UNCHANGED <<create, link, buffer, work, row, data, push, receiver, history>>

UploadFails(u) ==
  /\ Fault
  /\ upload[u].pc \in {"waiting", "asked"}
  /\ upload' = [upload EXCEPT ![u].pc = "failed"]
  /\ UNCHANGED <<create, bridge, buffer, work, row, data, push, receiver>>

----------------------------------------------------------------------------
(* The sender's server: BridgeWsGateway, createAlgorithmEventFromBridge and *)
(* uploadAlgorithmEventDataFromBridge.                                      *)

Arrives(do) == wire # <<>> /\ Head(wire).do = do /\ wire' = Tail(wire)

HandleCreate ==
  /\ Arrives("create")
  /\ work' = work \cup {Handling(Head(wire))}
  /\ UNCHANGED <<job, link, acks, buffer, row, data, push, receiver, history>>

\* Data is refused if the event is not there, which ends the handler without an
\* answer.
Begin(m) == work' = work \cup
  (IF Of[m.id] \in row["server"] THEN {Handling(m)} ELSE {})

HandleData ==
  /\ Arrives("data")
  /\ Begin(Head(wire))
  /\ UNCHANGED <<job, link, acks, buffer, row, data, push, receiver, history>>

\* Mutant: the last chunk is answered before its data is passed on.
HandleChunkAnswered ==
  LET u == Head(wire).id
      parts == buffer[u] \cup {Head(wire).part} IN
  /\ Arrives("chunk")
  /\ acks' = acks \cup {Head(wire)}
  /\ buffer' = [buffer EXCEPT ![u] = IF parts = Part THEN {} ELSE parts]
  /\ IF parts = Part THEN Begin(Head(wire)) ELSE UNCHANGED work
  /\ UNCHANGED <<job, link, row, data, push, receiver, history>>

\* A chunk is kept and answered; with the last of them the data is complete.
HandleChunk ==
  LET u == Head(wire).id
      parts == buffer[u] \cup {Head(wire).part} IN
  /\ Arrives("chunk")
  /\ IF parts = Part
       THEN /\ Begin(Head(wire)) /\ UNCHANGED acks
            /\ buffer' = [buffer EXCEPT ![u] =
                 IF Of[u] \in row["server"] THEN parts ELSE {}]
       ELSE /\ buffer' = [buffer EXCEPT ![u] = parts]
            /\ acks' = acks \cup {Head(wire)} /\ UNCHANGED work
  /\ UNCHANGED <<job, link, row, data, push, receiver, history>>

At(w, do, pc) == w \in work /\ w.msg.do \in do /\ w.pc = pc

\* w goes on, or is done.
Goes(w) == work' = (work \ {w}) \cup {[w EXCEPT !.pc = "save"]}
Done(w) == work' = work \ {w}

\* It reaches clients only that are connected.
Push(m) == push' = IF link["receiver"] THEN Append(push, m) ELSE push

\* forwardEventToParticipant: the peer's server saves the event and tells its
\* client.  A failure is only logged.
ForwardCreate(w) ==
  /\ At(w, {"create"}, "forward") /\ Goes(w)
  /\ \/ /\ row' = [row EXCEPT !["peer"] = @ \cup {w.msg.id}]
        /\ Push(Msg("create", w.msg.id, 0)) /\ UNCHANGED history
     \/ Fault /\ UNCHANGED <<row, push>>
  /\ UNCHANGED <<job, bridge, buffer, data, receiver>>

\* No transfer for the recipient: the handler ends.
NoTransfer(w) ==
  /\ Fault
  /\ At(w, {"create"}, "forward") /\ Done(w)
  /\ UNCHANGED <<job, bridge, buffer, row, data, push, receiver>>

\* An answer to small data finds nobody waiting.
Answer(w) == acks' = acks \cup
  (IF w.answer /\ w.msg.do # "data" THEN {w.msg} ELSE {})

SaveCreate(w) ==
  /\ At(w, {"create"}, "save") /\ Done(w)
  /\ row' = [row EXCEPT !["server"] = @ \cup {w.msg.id}]
  /\ Answer(w)
  /\ UNCHANGED <<job, link, wire, buffer, data, push, receiver, history>>

Emptied(u) == buffer' = [buffer EXCEPT ![u] = {}]

\* Mutant: the peer's client is not told.
ForwardDataUntold(w) ==
  LET e == Of[w.msg.id] IN
  /\ At(w, {"data", "chunk"}, "forward")
  /\ Goes(w) /\ data' = [data EXCEPT !["peer"][e] = w.msg.id]
  /\ UNCHANGED <<job, bridge, buffer, row, push, receiver, history>>

\* forwardEventDataToParticipant: if the peer does not have the event, or the
\* request or its response fails, the handler ends.  If the instance has lost the
\* transfer to the recipient, nothing is passed on and the handler goes on.
ForwardData(w) ==
  LET e == Of[w.msg.id] IN
  /\ At(w, {"data", "chunk"}, "forward")
  /\ \/ /\ e \in row["peer"]
        /\ data' = [data EXCEPT !["peer"][e] = w.msg.id]
        /\ Push(Msg("data", w.msg.id, 0))
        /\ \/ Goes(w) /\ UNCHANGED <<buffer, history>>
           \/ Done(w) /\ Emptied(w.msg.id) /\ Fault
     \/ /\ IF e \in row["peer"] THEN Fault ELSE UNCHANGED history
        /\ Done(w) /\ Emptied(w.msg.id)
        /\ UNCHANGED <<data, push>>
     \/ Trouble({"unlinked"}) /\ Goes(w) /\ UNCHANGED <<data, push, buffer>>
  /\ UNCHANGED <<job, bridge, row, receiver>>

SaveData(w) ==
  /\ At(w, {"data", "chunk"}, "save") /\ Done(w)
  /\ data' = [data EXCEPT !["server"][Of[w.msg.id]] = w.msg.id]
  /\ Emptied(w.msg.id)
  /\ Answer(w)
  /\ UNCHANGED <<job, link, wire, row, push, receiver, history>>

\* cleanupStaleBuffers: chunks that are older than five minutes.
Cleanup(u) ==
  /\ Trouble({"dropped"})
  /\ buffer[u] # {} /\ Emptied(u)
  /\ UNCHANGED <<job, bridge, work, row, data, push, receiver>>

----------------------------------------------------------------------------
(* Connections.                                                             *)

\* What is on its way is lost, and the handlers' answers find nobody.
Closes(s) ==
  /\ link' = [link EXCEPT ![s] = FALSE]
  /\ IF s = "sender" THEN wire' = <<>> /\ acks' = {} /\ UNCHANGED push
                     ELSE push' = <<>> /\ UNCHANGED <<wire, acks>>

Disconnect(s) ==
  /\ Fault /\ link[s] /\ Closes(s)
  /\ work' = IF s = "sender" THEN {[w EXCEPT !.answer = FALSE] : w \in work}
                             ELSE work
  /\ UNCHANGED <<job, buffer, row, data, receiver>>

Connect(s) ==
  /\ ~link[s] /\ link' = [link EXCEPT ![s] = TRUE]
  /\ UNCHANGED <<job, wire, acks, buffer, work, row, data, push, receiver,
                 history>>

\* The sender's server stops and starts again.
Restart ==
  /\ Trouble({"fault", "dropped"}) /\ Closes("sender")
  /\ work' = {} /\ buffer' = [u \in Upload |-> {}]
  /\ UNCHANGED <<job, row, data, receiver>>

----------------------------------------------------------------------------
(* The receiver's client: upsertRemoteAlgorithmEventFromBridge,             *)
(* applyRemoteAlgorithmEventDataFromBridge, pollForAlgorithmEvent.          *)

Pushed(do) == push # <<>> /\ Head(push).do = do /\ push' = Tail(push)

\* The handler looks for the event and, if there is none, takes the time and
\* begins to save.  Other handlers may be saving; times are in milliseconds.
UpsertEvent ==
  /\ Pushed("create")
  /\ \/ /\ clock' = clock + 1
        /\ Odd(IF saving = {} THEN {} ELSE {"overlap"})
     \/ /\ clock > 0 /\ UNCHANGED clock
        /\ Trouble(IF saving = {} THEN {"tie"} ELSE {"tie", "overlap"})
  /\ saving' = saving \cup {[event |-> Head(push).id, time |-> clock']}
  /\ UNCHANGED <<job, bridge, buffer, work, row, data, time, poll, since, got>>

\* It is saved, and whoever waits for an event is told.
SaveEvent(s) ==
  /\ s \in saving /\ saving' = saving \ {s}
  /\ row' = [row EXCEPT !["reader"] = @ \cup {s.event}]
  /\ time' = [time EXCEPT ![s.event] = s.time]
  /\ poll' = IF poll = "waiting" THEN "woken" ELSE poll
  /\ UNCHANGED <<job, bridge, buffer, work, data, push, since, got, clock,
                 history>>

\* Data of an event that is not there is dropped; it then was lost or is still
\* being saved.
ApplyData ==
  LET e == Of[Head(push).id] IN
  /\ Pushed("data")
  /\ IF e \in row["reader"]
       THEN /\ data' = [data EXCEPT !["reader"][e] = Head(push).id]
            /\ UNCHANGED history
       ELSE /\ UNCHANGED data
            /\ Odd(IF \E s \in saving : s.event = e THEN {"overlap"} ELSE {})
  /\ UNCHANGED <<job, bridge, buffer, work, row, receiver>>

\* findNextAlgorithmEvent: those that come next.
Following == {e \in row["reader"] : time[e] > since}
NextEvents == {e \in Following : \A f \in Following : time[e] <= time[f]}

\* Mutant: the job goes on from now.
ReturnedNow(e) == got' = got \cup {e} /\ since' = clock /\ poll' = "idle"

Returned(e) == got' = got \cup {e} /\ since' = time[e] /\ poll' = "idle"

\* The next event is returned, or the call goes on.
Look(otherwise) ==
  /\ \/ \E e \in NextEvents : Returned(e)
     \/ NextEvents = {} /\ poll' = otherwise /\ UNCHANGED <<got, since>>
  /\ UNCHANGED <<job, bridge, buffer, work, row, data, push, saving, time,
                 clock, history>>

PollBegins == poll = "idle" /\ Look("read")

\* Between the read and this, nobody is told.
PollWaits ==
  /\ poll = "read" /\ poll' = "waiting"
  /\ UNCHANGED <<job, bridge, buffer, work, row, data, push, saving, time,
                 since, got, clock, history>>

PollWoken == poll = "woken" /\ Look("idle")

\* Mutant: the call waits as long as it takes.
PollWaitsOn == FALSE

\* The call ends without an event after 27.5 seconds.
PollEnds ==
  /\ poll = "waiting" /\ poll' = "idle"
  /\ UNCHANGED <<job, bridge, buffer, work, row, data, push, saving, time,
                 since, got, clock, history>>

----------------------------------------------------------------------------

Poll == PollBegins \/ PollWaits \/ PollWoken \/ PollEnds

\* What the processes do by themselves.
Progress ==
  \/ \E e \in Event : EmitCreate(e) \/ CreateAcked(e)
  \/ \E u \in Upload : EmitData(u) \/ ChunkAcked(u)
  \/ HandleCreate \/ HandleData \/ HandleChunk
  \/ \E w \in work : \/ ForwardCreate(w) \/ SaveCreate(w)
                     \/ ForwardData(w) \/ SaveData(w)
  \/ UpsertEvent \/ ApplyData
  \/ \E s \in saving : SaveEvent(s)

Next ==
  \/ Progress \/ Poll
  \/ \E e \in Event : CreateEvent(e) \/ CreateFails(e)
  \/ \E u \in Upload : BeginUpload(u) \/ UploadFails(u) \/ Cleanup(u)
  \/ \E w \in work : NoTransfer(w)
  \/ \E s \in Side : Disconnect(s) \/ Connect(s)
  \/ Restart

Spec == Init /\ [][Next]_vars

\* The event loops run every continuation, and the receiver's job keeps polling.
FairSpec == /\ Spec
            /\ WF_vars(Progress /\ trouble' = trouble)
            /\ WF_vars(Poll)

----------------------------------------------------------------------------
(* Properties.                                                              *)

\* A job that has been answered may rely on it: an event that was created is at
\* the server ("before any subsequent data upload"), and an upload in chunks at
\* the server and at the peer, whichever messages are lost, unless the server has
\* dropped chunks meanwhile or its instance has lost the recipient's transfer.
AnsweredIsStored ==
  /\ \A e \in Event : create[e] = "done" => e \in row["server"]
  /\ odd \cap {"dropped", "unlinked"} = {} =>
       \A u \in Upload : upload[u].pc = "done" =>
         \A p \in {"server", "peer"} : data[p][Of[u]] # None

\* Events are polled by time: none is passed over, also if connections fail, as
\* long as no two are saved at once or in the same millisecond.
NothingSkipped ==
  odd \cap {"overlap", "tie"} = {} =>
    \A e \in row["reader"] : time[e] <= since => e \in got

\* An event that was created reaches the job that polls, although the wake-up is
\* missed if the event is saved between the poll's read and its wait.
CreatedIsReturned ==
  \A e \in Event : create[e] = "done" ~> e \in got \/ trouble > 0

\* Data that was uploaded reaches the receiver's client, also when it was sent in
\* a message nobody answers.
UploadedArrives ==
  \A u \in Upload : upload[u].pc \in {"sent", "done"}
                    ~> data["reader"][Of[u]] # None \/ trouble > 0
=============================================================================
