--------------------------- MODULE DatasetCatalog ---------------------------
(***************************************************************************)
(* The datasets of an HTTP data plane and the catalogue its control plane  *)
(* offers (http-data-plane-api, DataPlaneService; control-plane-api,       *)
(* DataPlaneService and CatalogService).                                   *)
(*                                                                         *)
(* The data plane keeps an item for each dataset and pushes every change,  *)
(* one dataset or the whole catalogue at a time, to the control plane,     *)
(* which keeps a row for each dataset.  There is no transaction over the   *)
(* two databases, nor over the steps of one update of the catalogue.       *)
(***************************************************************************)
EXTENDS Naturals, FiniteSets

CONSTANTS
  Dataset,     \* the datasets
  Call,        \* the calls clients make to the data plane's management API
  None,        \* no dataset
  MaxTrouble   \* bound: faults and overlapping calls

ASSUME CatalogAssumption ==
  /\ Call \subseteq Nat \ {0} /\ None \notin Call \cup {0}
  /\ MaxTrouble \in Nat

VARIABLES
  active,   \* the data plane has registered itself and stored its configuration
  item,     \* item[d]: the dataset stored in the data plane
  row,      \* row[d]: the dataset's row in the control plane
  call,     \* call[c]: a call at the data plane
  handler,  \* handler[c]: its request at the control plane
  odd,      \* history: what has gone wrong, or overlapped
  trouble   \* how often

store == <<active, item>>
history == <<odd, trouble>>
vars == <<store, row, call, handler, history>>

\* What a dataset is like is named by the call that made it so; 0 is the
\* configuration's.
Content == Call \cup {0}
Stored == Content \cup {None}
Catalog == [Dataset -> Stored]
Empty == [d \in Dataset |-> None]

\* A row belongs to the data plane (linked) and is shown in the catalogue
\* (listed).
Row == [is : Content, linked : BOOLEAN, listed : BOOLEAN]
Absent == [is |-> None, linked |-> FALSE, listed |-> FALSE]

Single == {"add", "update", "remove"}
Sync == {"register", "config"}

\* copy is what the call has loaded or made.
CallType == [kind : Single \cup Sync \cup {"none"}, on : Dataset \cup {None},
             pc : {"idle", "saving", "posted", "done", "failed"},
             copy : Catalog, todo : SUBSET Dataset]
\* old and todo are the datasets left to do, cur the one being done, made those
\* that were added.
HandlerType == [pc : {"none", "sent", "next", "write", "ok", "failed"},
                cur : Dataset \cup {None}, todo : SUBSET Dataset,
                old : SUBSET Dataset, made : SUBSET Dataset]

NoCall == [kind |-> "none", on |-> None, pc |-> "idle", copy |-> Empty,
           todo |-> {}]
NoHandler == [pc |-> "none", cur |-> None, todo |-> {}, old |-> {},
              made |-> {}]

TypeOK ==
  /\ active \in BOOLEAN
  /\ item \in Catalog
  /\ row \in [Dataset -> Row \cup {Absent}]
  /\ call \in [Call -> CallType]
  /\ handler \in [Call -> HandlerType]
  /\ odd \subseteq {"lost", "restart", "overlap", "crossed"}
  /\ trouble \in Nat

\* The data plane's first datasets come from its configuration.
Init ==
  /\ active = FALSE
  /\ item \in [Dataset -> {None, 0}]
  /\ row = [d \in Dataset |-> Absent]
  /\ call = [c \in Call |-> NoCall]
  /\ handler = [c \in Call |-> NoHandler]
  /\ odd = {} /\ trouble = 0

Trouble(what) == /\ trouble < MaxTrouble /\ trouble' = trouble + 1
                 /\ odd' = odd \cup {what}

Running(c) == call[c].pc \in {"saving", "posted"}
Handling(c) == handler[c].pc \in {"sent", "next", "write"}
Quiet == \A c \in Call : ~Running(c) /\ ~Handling(c)

----------------------------------------------------------------------------
(* The data plane.                                                          *)

\* The next call, which may come while others are under way.
Begins(c) ==
  /\ call[c].pc = "idle" /\ \A b \in Call : b < c => call[b].pc # "idle"
  /\ IF Quiet THEN UNCHANGED history ELSE Trouble("overlap")

Enter(c, kind, on, pc, copy, todo) ==
  call' = [call EXCEPT ![c] = [kind |-> kind, on |-> on, pc |-> pc,
                               copy |-> copy, todo |-> todo]]
Send(c) == handler' = [handler EXCEPT ![c].pc = "sent"]

\* addDatasetItem: the dataset is stored, then sent.
AddItem(c, d) ==
  /\ Begins(c) /\ active
  /\ item' = [item EXCEPT ![d] = c]
  /\ Enter(c, "add", d, "posted", [Empty EXCEPT ![d] = c], {}) /\ Send(c)
  /\ UNCHANGED <<active, row>>

\* updateDatasetItem: it must be there; it is stored and sent.
UpdateItem(c, d) ==
  /\ Begins(c) /\ active /\ item[d] # None
  /\ Enter(c, "update", d, "saving", [Empty EXCEPT ![d] = c], {d})
  /\ UNCHANGED <<store, row, handler>>

\* removeDatasetItem: the control plane removes it first.
RemoveItem(c, d) ==
  /\ Begins(c) /\ active /\ item[d] # None
  /\ Enter(c, "remove", d, "posted", Empty, {}) /\ Send(c)
  /\ UNCHANGED <<store, row>>

\* updateDatasetConfig makes every dataset anew, registerDataplane makes it as it
\* was; both load the items, store them and send the whole catalogue.
SendCatalog(c, kind) ==
  LET all == {d \in Dataset : item[d] # None}
      copy == IF kind = "register" THEN item
              ELSE [d \in Dataset |-> IF d \in all THEN c ELSE None] IN
  /\ Begins(c) /\ (kind = "config" => active)
  /\ Enter(c, kind, None, "saving", copy, all)
  /\ UNCHANGED <<store, row, handler>>

\* createCollectionDataset stores an item the call has loaded, whatever has
\* become of it.
SaveItem(c, d) ==
  /\ call[c].pc = "saving" /\ d \in call[c].todo
  /\ item' = [item EXCEPT ![d] = call[c].copy[d]]
  /\ call' = [call EXCEPT ![c].todo = @ \ {d}]
  /\ UNCHANGED <<active, row, handler, history>>

Post(c) ==
  /\ call[c].pc = "saving" /\ call[c].todo = {}
  /\ call' = [call EXCEPT ![c].pc = "posted"] /\ Send(c)
  /\ UNCHANGED <<store, row, history>>

\* Mutant: the item is removed although the control plane has refused.
ReplyUnchecked(c) ==
  /\ call[c].pc = "posted" /\ handler[c].pc \in {"ok", "failed"}
  /\ call' = [call EXCEPT ![c].pc = "done"]
  /\ item' = IF call[c].kind = "remove"
             THEN [item EXCEPT ![call[c].on] = None] ELSE item
  /\ active' = (active \/ call[c].kind \in Sync)
  /\ UNCHANGED <<row, handler, history>>

\* The answer: a dataset that has been removed there is removed here, and after a
\* whole catalogue the configuration is stored.  After an error nothing is done.
Reply(c) ==
  /\ call[c].pc = "posted" /\ handler[c].pc \in {"ok", "failed"}
  /\ IF handler[c].pc = "failed"
       THEN /\ call' = [call EXCEPT ![c].pc = "failed"] /\ UNCHANGED store
       ELSE /\ call' = [call EXCEPT ![c].pc = "done"]
            /\ item' = IF call[c].kind = "remove"
                       THEN [item EXCEPT ![call[c].on] = None] ELSE item
            /\ active' = (active \/ call[c].kind \in Sync)
  /\ UNCHANGED <<row, handler, history>>

----------------------------------------------------------------------------
(* The control plane.                                                       *)

Linked == {d \in Dataset : row[d].linked}
Sent(c) == {d \in Dataset : call[c].copy[d] # None}

\* The datasets a call is about.
About(c) == IF call[c].kind \in Sync THEN Dataset ELSE {call[c].on}

\* The handler has loaded datasets and goes on.
Midway(c) == handler[c].pc \in {"next", "write"}

\* The handler of c is about datasets that another one is still at work on.
Crosses(c) == \E b \in Call \ {c} : Midway(b) /\ About(b) \cap About(c) # {}

\* The request arrives; updateCatalog loads the datasets of the data plane.
Arrive(c) ==
  LET sync == call[c].kind \in Sync IN
  /\ handler[c].pc = "sent"
  /\ handler' = [handler EXCEPT ![c] =
       [pc |-> "next", cur |-> None, made |-> {},
        todo |-> IF call[c].kind = "remove" THEN {} ELSE Sent(c),
        old |-> CASE sync -> Linked
                  [] call[c].kind = "add" -> {}
                  [] OTHER -> {call[c].on}]]
  /\ odd' = IF Crosses(c) THEN odd \cup {"crossed"} ELSE odd
  /\ UNCHANGED <<store, row, call, trouble>>

\* Mutant: those left over are taken for datasets to update.
OperationNoRemoval(c, d) ==
  IF d \in handler[c].old THEN "update" ELSE "add"

\* Datasets of the request are updated if the data plane has them and added if
\* not; those left over are removed.
Operation(c, d) ==
  LET h == handler[c] IN
  CASE d \in h.todo \cap h.old -> "update"
    [] d \in h.todo \ h.old    -> "add"
    [] OTHER                   -> "remove"

Upcoming(c) == IF handler[c].todo # {} THEN handler[c].todo ELSE handler[c].old

\* addDataset refuses a dataset there is, updateDataset and removeDataset one
\* there is not; a single update also one of another data plane.
Refused(c, d) ==
  CASE Operation(c, d) = "add"    -> row[d] # Absent
    [] Operation(c, d) = "update" -> \/ row[d] = Absent
                                     \/ call[c].kind = "update" /\ ~row[d].linked
    [] Operation(c, d) = "remove" -> row[d] = Absent

Find(c, d) ==
  /\ handler[c].pc = "next" /\ d \in Upcoming(c)
  /\ handler' = [handler EXCEPT
       ![c].pc = IF Refused(c, d) THEN "failed" ELSE "write", ![c].cur = d]
  /\ UNCHANGED <<store, row, call, history>>

\* Mutant: a single dataset is added without its data plane.
WrittenUnlinked(c, d) ==
  CASE Operation(c, d) = "add" ->
         [is |-> call[c].copy[d], listed |-> TRUE, linked |-> row[d].linked]
    [] Operation(c, d) = "update" -> [row[d] EXCEPT !.is = call[c].copy[d]]
    [] Operation(c, d) = "remove" -> Absent

\* What is written for a dataset that has meanwhile been removed is a new row.
Written(c, d) ==
  CASE Operation(c, d) = "add" ->
         [is |-> call[c].copy[d], listed |-> TRUE,
          linked |-> row[d].linked \/ call[c].kind = "add"]
    [] Operation(c, d) = "update" -> [row[d] EXCEPT !.is = call[c].copy[d]]
    [] Operation(c, d) = "remove" -> Absent

Write(c) ==
  LET d == handler[c].cur IN
  /\ handler[c].pc = "write"
  /\ row' = [row EXCEPT ![d] = Written(c, d)]
  /\ handler' = [handler EXCEPT
       ![c].pc = IF call[c].kind \in Single THEN "ok" ELSE "next",
       ![c].todo = @ \ {d}, ![c].old = @ \ {d}, ![c].cur = None,
       ![c].made = IF Operation(c, d) = "add" THEN @ \cup {d} ELSE @]
  /\ UNCHANGED <<store, call, history>>

\* Mutant: the data plane is saved without its datasets.
LinkNothing(c) ==
  /\ handler[c].pc = "next" /\ Upcoming(c) = {}
  /\ handler' = [handler EXCEPT ![c].pc = "ok"]
  /\ UNCHANGED <<store, row, call, history>>

\* updateCatalog ends by saving the data plane with the datasets of the request,
\* which are saved with it, and no others.
Link(c) ==
  /\ handler[c].pc = "next" /\ Upcoming(c) = {}
  /\ handler' = [handler EXCEPT ![c].pc = "ok"]
  /\ row' = [d \in Dataset |->
       IF d \in Sent(c)
         THEN [is |-> call[c].copy[d], linked |-> TRUE,
               listed |-> row[d].listed \/ d \in handler[c].made]
         ELSE [row[d] EXCEPT !.linked = FALSE]]
  /\ UNCHANGED <<store, call, history>>

----------------------------------------------------------------------------
(* Faults.                                                                  *)

LoseRequest(c) ==
  /\ Trouble("lost") /\ handler[c].pc = "sent"
  /\ handler' = [handler EXCEPT ![c].pc = "failed"]
  /\ UNCHANGED <<store, row, call>>

\* The connection closes: the caller sees an error, the handler goes on.
LoseResponse(c) ==
  /\ Trouble("lost") /\ call[c].pc = "posted"
  /\ call' = [call EXCEPT ![c].pc = "failed"]
  /\ UNCHANGED <<store, row, handler>>

\* The data plane stops and starts again.
RestartData ==
  /\ Trouble("lost")
  /\ call' = [c \in Call |->
       IF Running(c) THEN [call[c] EXCEPT !.pc = "failed"] ELSE call[c]]
  /\ UNCHANGED <<store, row, handler>>

RestartControl ==
  /\ Trouble("restart")
  /\ handler' = [c \in Call |->
       IF Handling(c) THEN [handler[c] EXCEPT !.pc = "failed"] ELSE handler[c]]
  /\ UNCHANGED <<store, row, call>>

----------------------------------------------------------------------------

Next ==
  \/ \E c \in Call, d \in Dataset :
       \/ AddItem(c, d) \/ UpdateItem(c, d) \/ RemoveItem(c, d)
       \/ SaveItem(c, d) \/ Find(c, d)
  \/ \E c \in Call : \/ \E kind \in Sync : SendCatalog(c, kind)
                     \/ Post(c) \/ Reply(c) \/ Arrive(c) \/ Write(c) \/ Link(c)
                     \/ LoseRequest(c) \/ LoseResponse(c)
  \/ RestartData \/ RestartControl

Spec == Init /\ [][Next]_vars

----------------------------------------------------------------------------
(* Properties.                                                              *)

\* A dataset is offered as it is stored.
Agree(d) ==
  row[d] = IF item[d] = None THEN Absent
           ELSE [is |-> item[d], linked |-> TRUE, listed |-> TRUE]

\* A call that succeeded, with none since, has made the databases agree on what
\* it is about, whatever was lost before and whichever process has stopped.
SuccessAgrees ==
  "overlap" \notin odd /\ Quiet =>
    \A c \in Call :
      call[c].pc = "done" /\ (\A b \in Call : b > c => call[b].pc = "idle") =>
        \A d \in About(c) : Agree(d)

\* The catalogue never offers what the data plane cannot serve: a dataset is
\* stored before it is offered and kept until it is not, at every moment.
OfferedIsStored ==
  "overlap" \notin odd =>
    \A d \in Dataset : row[d] # Absent => item[d] # None

\* A dataset in the catalogue belongs to its data plane, or every later update of
\* the whole catalogue would stumble over it.  Neither lost messages nor calls
\* that overlap change that: it takes a control plane that stops half-way, or two
\* handlers at work on one dataset at once.  An update of the whole catalogue is
\* about every dataset, so one that is added meanwhile may lose its link.
OfferedIsLinked ==
  odd \cap {"restart", "crossed"} = {} /\ (\A c \in Call : ~Handling(c)) =>
    \A d \in Dataset : row[d] # Absent => row[d].linked /\ row[d].listed
=============================================================================
