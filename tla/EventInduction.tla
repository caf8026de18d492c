--------------------------- MODULE EventInduction ---------------------------
(***************************************************************************)
(* The inductive invariants behind AnsweredIsStored and NothingSkipped of  *)
(* AlgorithmEvents: where the one chunk of an upload that is under way may *)
(* be, and how the times of the receiver's events are ordered.             *)
(***************************************************************************)
EXTENDS AlgorithmEvents

\* The places on the wire where a message of this kind about u is.
On(u, do) == {k \in 1..Len(wire) : wire[k].do = do /\ wire[k].id = u}

\* A handler of the sender's server has data of u.
Handled(u, do) == {w \in work : w.msg.do = do /\ w.msg.id = u}
AckOf(u) == {m \in acks : m.do = "chunk" /\ m.id = u}

\* An answer is given for what is stored.
CreatesStored == \A e \in Event :
  Msg("create", e, 0) \in acks \/ create[e] = "done" => e \in row["server"]

StoredAt(p, u) == data[p][Of[u]] # None

\* A chunk on its way to the server is the next one, the only one, and comes
\* after all those before it.
OnTheWire(u) == \A k \in On(u, "chunk") :
  /\ \A j \in On(u, "chunk") : j = k
  /\ wire[k].part = upload[u].next
  /\ buffer[u] = 1..(upload[u].next - 1)
  /\ AckOf(u) = {} /\ Handled(u, "chunk") = {}

\* An answered chunk is the last that was sent, and has been put to the others;
\* the last of all is stored by both participants.
Answered(u) == \A m \in AckOf(u) :
  /\ m.part = upload[u].next
  /\ m.part = Chunks => \A p \in {"server", "peer"} : StoredAt(p, u)
  /\ m.part # Chunks => /\ buffer[u] = 1..m.part
                        /\ Handled(u, "chunk") = {}

\* Handlers pass on complete data, and save what the peer has stored.
InHand(u) == \A w \in Handled(u, "chunk") :
  /\ w.msg.part = Chunks /\ upload[u].next = Chunks
  /\ w.pc = "save" => StoredAt("peer", u)

\* An upload that is sent in one message has no chunks.
OneWay(u) ==
  /\ upload[u].pc \in {"none", "waiting", "sent"} =>
       /\ On(u, "chunk") = {} /\ AckOf(u) = {} /\ Handled(u, "chunk") = {}
  /\ upload[u].pc \in {"none", "waiting"} =>
       upload[u].next = 1 /\ buffer[u] = {}
  /\ On(u, "data") # {} \/ Handled(u, "data") # {} => upload[u].pc = "sent"
  /\ upload[u].pc = "done" => \A p \in {"server", "peer"} : StoredAt(p, u)

ChunkInv(u) == OnTheWire(u) /\ Answered(u) /\ InHand(u) /\ OneWay(u)

StoredInv ==
  /\ CreatesStored
  /\ odd \cap {"dropped", "unlinked"} = {} => \A u \in Upload : ChunkInv(u)

\* Events are saved one after the other, each later than all that are there and
\* than the last that was returned.
InTime ==
  /\ \A s, t \in saving : s = t
  /\ \A s \in saving :
       /\ s.time = clock /\ since < clock
       /\ \A e \in row["reader"] : time[e] < clock
  /\ since <= clock
  /\ \A e \in row["reader"] : time[e] <= clock
  /\ \A e, f \in row["reader"] : time[e] = time[f] => e = f
  /\ \A e \in row["reader"] : time[e] <= since => e \in got

TimeInv == odd \cap {"overlap", "tie"} = {} => InTime
=============================================================================
