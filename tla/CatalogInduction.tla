-------------------------- MODULE CatalogInduction --------------------------
(***************************************************************************)
(* The inductive invariants behind the properties of DatasetCatalog: what  *)
(* the one call that is under way, if no two overlap, and its handler have *)
(* done so far.                                                            *)
(***************************************************************************)
EXTENDS DatasetCatalog

\* What calls and handlers have filled in.
CallShape(c) ==
  /\ call[c].kind \in Single => call[c].on \in Dataset
  /\ call[c].pc # "idle" => call[c].kind # "none"
  /\ call[c].todo \subseteq Sent(c)
  /\ call[c].pc \in {"idle", "saving"} => handler[c].pc = "none"
  /\ handler[c].pc = "write" => handler[c].cur \in Upcoming(c)
  /\ handler[c].pc \in {"next", "write"} => handler[c].todo \subseteq Sent(c)
  /\ handler[c].pc # "none" => call[c].todo = {}
  /\ call[c].pc = "done" => handler[c].pc = "ok"

TypeInv == TypeOK /\ \A c \in Call : CallShape(c)

Active(c) == Running(c) \/ Handling(c)

\* Calls begin in order, each when those before it are over.
Alone ==
  /\ \A b, c \in Call : Active(b) /\ Active(c) => b = c
  /\ \A b, c \in Call : b < c /\ call[b].pc = "idle" => call[c].pc = "idle"
  /\ \A b, c \in Call : b > c /\ Active(c) => call[b].pc = "idle"

\* Every row is of a dataset that is stored, and is shown.
Shown == \A d \in Dataset :
  row[d] # Absent => item[d] # None /\ row[d].listed

\* What the call sends is there, and is what it has stored so far.
Sending(c) ==
  /\ \A d \in Sent(c) : item[d] # None
  /\ \A d \in Sent(c) \ call[c].todo : item[d] = call[c].copy[d]
  /\ call[c].kind \in Sync => \A d \in Dataset \ Sent(c) : item[d] = None
  /\ call[c].kind \in {"add", "update"} => Sent(c) = {call[c].on}
  /\ call[c].kind = "remove" => Sent(c) = {}

\* The datasets a handler of the whole catalogue is done with are as they were
\* sent; it knows the other rows of its data plane.
Syncing(c) ==
  /\ \A d \in Sent(c) \ handler[c].todo :
       row[d] # Absent /\ row[d].is = call[c].copy[d]
  /\ \A d \in handler[c].old : row[d].linked /\ d \in handler[c].todo
  /\ \A d \in handler[c].todo : row[d].linked => d \in handler[c].old

Changing(c) ==
  /\ handler[c].todo = Sent(c)
  /\ handler[c].old = IF call[c].kind = "add" THEN {} ELSE {call[c].on}

\* A handler that is done has made the databases agree, but for the item that is
\* removed with its answer.
Handled(c) ==
  /\ Midway(c) => IF call[c].kind \in Sync THEN Syncing(c) ELSE Changing(c)
  /\ handler[c].pc = "write" => ~Refused(c, handler[c].cur)
  /\ handler[c].pc = "ok" =>
       IF call[c].kind = "remove" THEN row[call[c].on] = Absent
       ELSE \A d \in About(c) : Agree(d)

Latest(c) == \A b \in Call : b > c => call[b].pc = "idle"

Succeeded == Quiet => \A c \in Call :
  call[c].pc = "done" /\ Latest(c) => \A d \in About(c) : Agree(d)

AgreeInv == "overlap" \notin odd =>
  /\ Alone /\ Shown /\ Succeeded
  /\ \A c \in Call : Active(c) => Sending(c) /\ Handled(c)

----------------------------------------------------------------------------
(* Behind OfferedIsLinked, where handlers may overlap but do not cross.     *)

\* No two handlers are at work on one dataset.
Apart == \A b, c \in Call :
  b # c /\ Midway(b) /\ Midway(c) => About(b) \cap About(c) = {}

\* A handler of the whole catalogue knows every row: it was its data plane's when
\* the handler loaded it, or the handler has made it or changed it since.
Knows(c) ==
  /\ \A d \in handler[c].old :
       row[d].linked /\ (d \in Sent(c) => d \in handler[c].todo)
  /\ \A d \in Sent(c) \ handler[c].todo : row[d] # Absent
  /\ \A d \in Dataset : row[d] # Absent =>
       d \in handler[c].old \cup (Sent(c) \ handler[c].todo)

\* A call about a single dataset has a copy of that one, or removes it.
Copied(c) ==
  /\ call[c].kind \in {"add", "update"} => Sent(c) = {call[c].on}
  /\ call[c].kind = "remove" => Sent(c) = {}

\* One of a single dataset has found it as it must be.
Found(c) ==
  /\ Changing(c)
  /\ handler[c].pc = "write" => ~Refused(c, handler[c].cur)

\* A row that is not its data plane's yet was made by an update of the whole
\* catalogue that goes on.
Belongs == \A d \in Dataset : row[d] # Absent =>
  \/ row[d].linked
  \/ \E c \in Call : /\ call[c].kind \in Sync /\ Midway(c)
                     /\ d \in Sent(c) \ handler[c].todo

Works(c) ==
  Midway(c) => IF call[c].kind \in Sync THEN Knows(c) ELSE Found(c)

AllListed == \A d \in Dataset : row[d] # Absent => row[d].listed

LinkedInv == odd \cap {"restart", "crossed"} = {} =>
  /\ Apart /\ Belongs /\ AllListed
  /\ \A c \in Call : Copied(c) /\ Works(c)
=============================================================================
