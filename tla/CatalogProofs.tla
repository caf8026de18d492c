--------------------------- MODULE CatalogProofs ---------------------------
(***************************************************************************)
(* Proofs about DatasetCatalog: for any datasets, calls and faults.        *)
(***************************************************************************)
EXTENDS CatalogInduction, TLAPS

----------------------------------------------------------------------------
(* Types.                                                                   *)

CallPc == {"idle", "saving", "posted", "done", "failed"}
HandlerPc == {"none", "sent", "next", "write", "ok", "failed"}

LEMMA Contents ==
  /\ Call \subseteq Nat /\ 0 \notin Call /\ None \notin Content
  /\ Call \subseteq Content /\ 0 \in Content
  /\ \A r \in Row \cup {Absent} :
       /\ r.is \in Stored /\ r.linked \in BOOLEAN /\ r.listed \in BOOLEAN
       /\ r = Absent <=> r.is = None
       /\ r # Absent => r \in Row
  /\ ~Absent.linked /\ ~Absent.listed
  <1>1. /\ Call \subseteq Nat /\ 0 \notin Call /\ None \notin Content
        /\ Call \subseteq Content /\ 0 \in Content
    BY CatalogAssumption DEF Content
  <1>2. Absent.is = None /\ Absent.linked = FALSE /\ Absent.listed = FALSE
    BY DEF Absent
  <1>3. \A r \in Row : r.is \in Content /\ r.linked \in BOOLEAN
                      /\ r.listed \in BOOLEAN
    BY DEF Row
  <1>4. \A r \in Row \cup {Absent} :
          /\ r.is \in Stored /\ r.linked \in BOOLEAN /\ r.listed \in BOOLEAN
          /\ r = Absent <=> r.is = None
          /\ r # Absent => r \in Row
    BY <1>1, <1>2, <1>3 DEF Stored
  <1> QED
    BY <1>1, <1>2, <1>4

LEMMA CallRecords ==
  ASSUME NEW r \in CallType
  PROVE  /\ \A pc \in CallPc :
              /\ [r EXCEPT !.pc = pc] \in CallType
              /\ [r EXCEPT !.pc = pc].pc = pc
              /\ [r EXCEPT !.pc = pc].kind = r.kind
              /\ [r EXCEPT !.pc = pc].on = r.on
              /\ [r EXCEPT !.pc = pc].copy = r.copy
              /\ [r EXCEPT !.pc = pc].todo = r.todo
         /\ \A S \in SUBSET Dataset :
              /\ [r EXCEPT !.todo = S] \in CallType
              /\ [r EXCEPT !.todo = S].pc = r.pc
              /\ [r EXCEPT !.todo = S].kind = r.kind
              /\ [r EXCEPT !.todo = S].on = r.on
              /\ [r EXCEPT !.todo = S].copy = r.copy
              /\ [r EXCEPT !.todo = S].todo = S
  BY DEF CallType, CallPc

LEMMA HandlerRecords ==
  ASSUME NEW h \in HandlerType, NEW pc \in HandlerPc
  PROVE  /\ [h EXCEPT !.pc = pc] \in HandlerType
         /\ [h EXCEPT !.pc = pc].pc = pc
         /\ [h EXCEPT !.pc = pc].cur = h.cur
         /\ [h EXCEPT !.pc = pc].todo = h.todo
         /\ [h EXCEPT !.pc = pc].old = h.old
         /\ [h EXCEPT !.pc = pc].made = h.made
  BY DEF HandlerType, HandlerPc

\* What a step leaves of the calls other than c.
Others(c) == \A b \in Call : b # c => /\ call'[b] = call[b]
                                      /\ handler'[b] = handler[b]
Kept(c) == /\ call'[c].kind = call[c].kind /\ call'[c].on = call[c].on
           /\ call'[c].copy = call[c].copy

CallsOK == call \in [Call -> CallType] /\ handler \in [Call -> HandlerType]
StoresOK == /\ active \in BOOLEAN /\ item \in Catalog
            /\ row \in [Dataset -> Row \cup {Absent}]
HistoryOK == /\ odd \subseteq {"lost", "restart", "overlap", "crossed"}
             /\ trouble \in Nat

LEMMA CallMoves ==
  ASSUME CallsOK, NEW c \in Call, NEW pc \in CallPc,
         call' = [call EXCEPT ![c].pc = pc]
  PROVE  /\ call' \in [Call -> CallType]
         /\ \A b \in Call : b # c => call'[b] = call[b]
         /\ Kept(c) /\ call'[c].todo = call[c].todo /\ call'[c].pc = pc
  <1> DEFINE r == [call[c] EXCEPT !.pc = pc]
  <1>1. call[c] \in CallType
    BY DEF CallsOK
  <1>2. call' = [call EXCEPT ![c] = r]
    OBVIOUS
  <1>3. /\ r \in CallType /\ r.pc = pc /\ r.kind = call[c].kind
        /\ r.on = call[c].on /\ r.copy = call[c].copy
        /\ r.todo = call[c].todo
    BY <1>1, CallRecords
  <1> HIDE DEF r
  <1> QED
    BY <1>2, <1>3 DEF CallsOK, Kept

LEMMA CallSaves ==
  ASSUME CallsOK, NEW c \in Call, NEW d,
         call' = [call EXCEPT ![c].todo = @ \ {d}]
  PROVE  /\ call' \in [Call -> CallType]
         /\ \A b \in Call : b # c => call'[b] = call[b]
         /\ Kept(c) /\ call'[c].todo = call[c].todo \ {d}
         /\ call'[c].pc = call[c].pc
  <1> DEFINE S == call[c].todo \ {d}
             r == [call[c] EXCEPT !.todo = S]
  <1>1. call[c] \in CallType /\ S \in SUBSET Dataset
    BY DEF CallsOK, CallType
  <1>2. call' = [call EXCEPT ![c] = r]
    OBVIOUS
  <1>3. /\ r \in CallType /\ r.pc = call[c].pc /\ r.kind = call[c].kind
        /\ r.on = call[c].on /\ r.copy = call[c].copy /\ r.todo = S
    BY <1>1, CallRecords
  <1> HIDE DEF r
  <1> QED
    BY <1>2, <1>3 DEF CallsOK, Kept

LEMMA CallEnters ==
  ASSUME CallsOK, NEW c \in Call, NEW kind \in Single \cup Sync,
         NEW on \in Dataset \cup {None}, NEW pc \in CallPc, NEW copy \in Catalog,
         NEW todo \in SUBSET Dataset, Enter(c, kind, on, pc, copy, todo)
  PROVE  /\ call' \in [Call -> CallType]
         /\ \A b \in Call : b # c => call'[b] = call[b]
         /\ call'[c].kind = kind /\ call'[c].on = on /\ call'[c].pc = pc
         /\ call'[c].copy = copy /\ call'[c].todo = todo
  <1> DEFINE r == [kind |-> kind, on |-> on, pc |-> pc, copy |-> copy,
                   todo |-> todo]
  <1>1. /\ r \in CallType /\ r.pc = pc /\ r.kind = kind /\ r.on = on
        /\ r.copy = copy /\ r.todo = todo
    BY DEF CallType, CallPc
  <1>2. call' = [call EXCEPT ![c] = r]
    BY DEF Enter
  <1> HIDE DEF r
  <1> QED
    BY <1>1, <1>2 DEF CallsOK

LEMMA HandlerMoves ==
  ASSUME CallsOK, NEW c \in Call, NEW pc \in HandlerPc,
         handler' = [handler EXCEPT ![c].pc = pc]
  PROVE  /\ handler' \in [Call -> HandlerType]
         /\ \A b \in Call : b # c => handler'[b] = handler[b]
         /\ handler'[c].pc = pc /\ handler'[c].cur = handler[c].cur
         /\ handler'[c].todo = handler[c].todo
         /\ handler'[c].old = handler[c].old
  <1> DEFINE h == [handler[c] EXCEPT !.pc = pc]
  <1>1. handler' = [handler EXCEPT ![c] = h]
    OBVIOUS
  <1>2. /\ h \in HandlerType /\ h.pc = pc /\ h.cur = handler[c].cur
        /\ h.todo = handler[c].todo /\ h.old = handler[c].old
    BY HandlerRecords DEF CallsOK
  <1> HIDE DEF h
  <1> QED
    BY <1>1, <1>2 DEF CallsOK

----------------------------------------------------------------------------
(* What a step of one call does.                                            *)

\* A step of call c: nothing happens to the other calls.
Step(c) == CallsOK' /\ Others(c)

\* The call begins, with what it has loaded or made.
Begun(c, kind, on, pc, copy, todo) ==
  /\ Step(c) /\ Begins(c)
  /\ call'[c].kind = kind /\ call'[c].on = on /\ call'[c].pc = pc
  /\ call'[c].copy = copy /\ call'[c].todo = todo
  /\ handler[c].pc = "none"
  /\ handler'[c].pc = IF pc = "posted" THEN "sent" ELSE "none"

LEMMA BeginSteps ==
  ASSUME CallsOK, NEW c \in Call, CallShape(c), Begins(c),
         NEW kind \in Single \cup Sync, NEW on \in Dataset \cup {None},
         NEW pc \in {"saving", "posted"}, NEW copy \in Catalog,
         NEW todo \in SUBSET Dataset, Enter(c, kind, on, pc, copy, todo),
         IF pc = "posted" THEN Send(c) ELSE UNCHANGED handler
  PROVE  Begun(c, kind, on, pc, copy, todo)
  <1>1. /\ call' \in [Call -> CallType]
        /\ \A b \in Call : b # c => call'[b] = call[b]
        /\ call'[c].kind = kind /\ call'[c].on = on /\ call'[c].pc = pc
        /\ call'[c].copy = copy /\ call'[c].todo = todo
    BY CallEnters DEF CallPc
  <1>2. handler[c].pc = "none"
    BY DEF CallShape, Begins
  <1>3. CASE pc = "posted"
    BY <1>1, <1>2, <1>3, HandlerMoves
      DEF Begun, Step, CallsOK, Others, Send, HandlerPc
  <1>4. CASE pc # "posted"
    BY <1>1, <1>2, <1>4 DEF Begun, Step, CallsOK, Others
  <1> QED
    BY <1>3, <1>4

LEMMA AddItemSteps ==
  ASSUME TypeInv, NEW c \in Call, NEW d \in Dataset, AddItem(c, d)
  PROVE  /\ Begun(c, "add", d, "posted", [Empty EXCEPT ![d] = c], {})
         /\ [Empty EXCEPT ![d] = c] \in Catalog
         /\ item' = [item EXCEPT ![d] = c] /\ item' \in Catalog
         /\ UNCHANGED <<active, row>>
  <1>1. [Empty EXCEPT ![d] = c] \in Catalog /\ Empty \in Catalog
    BY Contents DEF Catalog, Stored, Empty
  <1>2. [item EXCEPT ![d] = c] \in Catalog
    BY Contents DEF TypeInv, TypeOK, Catalog, Stored
  <1>3. CallsOK /\ CallShape(c) /\ Begins(c)
    BY DEF TypeInv, TypeOK, CallsOK, AddItem
  <1>4. Enter(c, "add", d, "posted", [Empty EXCEPT ![d] = c], {}) /\ Send(c)
    BY DEF AddItem
  <1>5. Begun(c, "add", d, "posted", [Empty EXCEPT ![d] = c], {})
    BY <1>1, <1>3, <1>4, BeginSteps DEF Single
  <1> QED
    BY <1>1, <1>2, <1>5 DEF AddItem

LEMMA UpdateItemSteps ==
  ASSUME TypeInv, NEW c \in Call, NEW d \in Dataset, UpdateItem(c, d)
  PROVE  /\ Begun(c, "update", d, "saving", [Empty EXCEPT ![d] = c], {d})
         /\ [Empty EXCEPT ![d] = c] \in Catalog
         /\ item[d] # None /\ UNCHANGED <<store, row>>
  <1>1. [Empty EXCEPT ![d] = c] \in Catalog /\ Empty \in Catalog
    BY Contents DEF Catalog, Stored, Empty
  <1>2. CallsOK /\ CallShape(c) /\ Begins(c)
    BY DEF TypeInv, TypeOK, CallsOK, UpdateItem
  <1>3. /\ Enter(c, "update", d, "saving", [Empty EXCEPT ![d] = c], {d})
        /\ UNCHANGED handler
    BY DEF UpdateItem
  <1>4. Begun(c, "update", d, "saving", [Empty EXCEPT ![d] = c], {d})
    BY <1>1, <1>2, <1>3, BeginSteps DEF Single
  <1> QED
    BY <1>1, <1>4 DEF UpdateItem

LEMMA RemoveItemSteps ==
  ASSUME TypeInv, NEW c \in Call, NEW d \in Dataset, RemoveItem(c, d)
  PROVE  /\ Begun(c, "remove", d, "posted", Empty, {})
         /\ Empty \in Catalog /\ UNCHANGED <<store, row>>
  <1>1. Empty \in Catalog
    BY DEF Catalog, Stored, Empty
  <1>2. CallsOK /\ CallShape(c) /\ Begins(c)
    BY DEF TypeInv, TypeOK, CallsOK, RemoveItem
  <1>3. Enter(c, "remove", d, "posted", Empty, {}) /\ Send(c)
    BY DEF RemoveItem
  <1>4. Begun(c, "remove", d, "posted", Empty, {})
    BY <1>1, <1>2, <1>3, BeginSteps DEF Single
  <1> QED
    BY <1>1, <1>4 DEF RemoveItem

LEMMA SendCatalogSteps ==
  ASSUME TypeInv, NEW c \in Call, NEW kind \in Sync, SendCatalog(c, kind)
  PROVE  \E copy \in Catalog :
           /\ Begun(c, kind, None, "saving", copy, {d \in Dataset : item[d] # None})
           /\ \A d \in Dataset : copy[d] # None <=> item[d] # None
           /\ UNCHANGED <<store, row>>
  <1> DEFINE all == {d \in Dataset : item[d] # None}
             made == [d \in Dataset |-> IF d \in all THEN c ELSE None]
             copy == IF kind = "register" THEN item ELSE made
  <1>1. item \in Catalog
    BY DEF TypeInv, TypeOK
  <1>2. made \in Catalog /\ \A d \in Dataset : made[d] # None <=> item[d] # None
    BY Contents DEF Catalog, Stored
  <1>3. copy \in Catalog /\ \A d \in Dataset : copy[d] # None <=> item[d] # None
    BY <1>1, <1>2
  <1>4. CallsOK /\ CallShape(c) /\ Begins(c)
    BY DEF TypeInv, TypeOK, CallsOK, SendCatalog
  <1>5. /\ Enter(c, kind, None, "saving", copy, all) /\ UNCHANGED handler
        /\ UNCHANGED <<store, row>>
    BY DEF SendCatalog
  <1> HIDE DEF copy
  <1>6. Begun(c, kind, None, "saving", copy, all)
    BY <1>3, <1>4, <1>5, BeginSteps
  <1> QED
    BY <1>3, <1>5, <1>6

LEMMA SaveItemSteps ==
  ASSUME TypeInv, NEW c \in Call, NEW d \in Dataset, SaveItem(c, d)
  PROVE  /\ Step(c) /\ Kept(c) /\ call[c].pc = "saving" /\ call'[c].pc = "saving"
         /\ d \in call[c].todo /\ call'[c].todo = call[c].todo \ {d}
         /\ UNCHANGED <<active, row, handler>>
         /\ call[c].copy[d] \in Stored
         /\ item' = [item EXCEPT ![d] = call[c].copy[d]] /\ item' \in Catalog
         /\ UNCHANGED history
  <1>1. CallsOK /\ item \in Catalog /\ call[c] \in CallType
    BY DEF TypeInv, TypeOK, CallsOK
  <1>2. call[c].copy[d] \in Stored
    BY <1>1 DEF CallType, Catalog
  <1>3. [item EXCEPT ![d] = call[c].copy[d]] \in Catalog
    BY <1>1, <1>2 DEF Catalog
  <1>4. /\ call' \in [Call -> CallType]
        /\ \A b \in Call : b # c => call'[b] = call[b]
        /\ Kept(c) /\ call'[c].todo = call[c].todo \ {d}
        /\ call'[c].pc = call[c].pc
    BY <1>1, CallSaves DEF SaveItem
  <1> QED
    BY <1>1, <1>2, <1>3, <1>4 DEF SaveItem, Step, CallsOK, Others

LEMMA PostSteps ==
  ASSUME TypeInv, NEW c \in Call, Post(c)
  PROVE  /\ Step(c) /\ Kept(c) /\ call[c].pc = "saving" /\ call'[c].pc = "posted"
         /\ call[c].todo = {} /\ call'[c].todo = {} /\ handler'[c].pc = "sent"
         /\ UNCHANGED <<store, row, history>>
  <1>1. CallsOK
    BY DEF TypeInv, TypeOK, CallsOK
  <1>2. /\ call' \in [Call -> CallType]
        /\ \A b \in Call : b # c => call'[b] = call[b]
        /\ Kept(c) /\ call'[c].todo = call[c].todo /\ call'[c].pc = "posted"
    BY <1>1, CallMoves DEF Post, CallPc
  <1>3. /\ handler' \in [Call -> HandlerType] /\ handler'[c].pc = "sent"
        /\ \A b \in Call : b # c => handler'[b] = handler[b]
    BY <1>1, HandlerMoves DEF Post, Send, HandlerPc
  <1> QED
    BY <1>2, <1>3 DEF Post, Step, CallsOK, Others

LEMMA ReplySteps ==
  ASSUME TypeInv, NEW c \in Call, Reply(c)
  PROVE  /\ Step(c) /\ Kept(c) /\ call'[c].todo = call[c].todo
         /\ call[c].pc = "posted" /\ UNCHANGED <<row, handler, history>>
         /\ \/ /\ handler[c].pc = "failed" /\ call'[c].pc = "failed"
               /\ UNCHANGED store
            \/ /\ handler[c].pc = "ok" /\ call'[c].pc = "done"
               /\ active' = (active \/ call[c].kind \in Sync)
               /\ item' = IF call[c].kind = "remove"
                          THEN [item EXCEPT ![call[c].on] = None] ELSE item
         /\ item' \in Catalog /\ active' \in BOOLEAN
  <1>1. /\ CallsOK /\ item \in Catalog /\ active \in BOOLEAN
        /\ [item EXCEPT ![call[c].on] = None] \in Catalog
    BY DEF TypeInv, TypeOK, CallsOK, Catalog, Stored
  <1>2. CASE handler[c].pc = "failed"
    BY <1>1, <1>2, CallMoves
      DEF Reply, Step, CallsOK, Others, CallPc, store
  <1>3. CASE handler[c].pc = "ok"
    BY <1>1, <1>3, CallMoves DEF Reply, Step, CallsOK, Others, CallPc
  <1> QED
    BY <1>2, <1>3 DEF Reply

\* What the datasets of a handler's request were found to be.
Loaded(c) == IF call[c].kind \in Sync THEN Linked
             ELSE IF call[c].kind = "add" THEN {} ELSE {call[c].on}

LEMMA SentSet == \A c \in Call : Sent(c) \in SUBSET Dataset
  BY DEF Sent

LEMMA LoadedSet ==
  ASSUME TypeInv, NEW c \in Call, call[c].kind # "none"
  PROVE  Loaded(c) \in SUBSET Dataset
  <1>1. call[c].kind \in Single \cup Sync
    BY DEF TypeInv, TypeOK, CallType
  <1>2. call[c].kind \in Single => call[c].on \in Dataset
    BY DEF TypeInv, CallShape
  <1> QED
    BY <1>1, <1>2 DEF Loaded, Linked

\* A step of c's handler.
Serves(c) == /\ Step(c) /\ UNCHANGED <<store, call>>

LEMMA ArriveSteps ==
  ASSUME TypeInv, NEW c \in Call, Arrive(c)
  PROVE  /\ Serves(c) /\ UNCHANGED <<row, trouble>>
         /\ odd' = IF Crosses(c) THEN odd \cup {"crossed"} ELSE odd
         /\ call[c].kind # "none"
         /\ handler[c].pc = "sent" /\ handler'[c].pc = "next"
         /\ handler'[c].todo = IF call[c].kind = "remove" THEN {} ELSE Sent(c)
         /\ handler'[c].old = Loaded(c)
  <1> DEFINE todo == IF call[c].kind = "remove" THEN {} ELSE Sent(c)
             h == [pc |-> "next", cur |-> None, made |-> {}, todo |-> todo,
                   old |-> Loaded(c)]
  <1>1. handler[c].pc = "sent" /\ CallsOK /\ call[c].pc # "idle"
        /\ call[c].kind # "none"
    BY DEF Arrive, TypeInv, TypeOK, CallShape, CallsOK
  <1>2. (CASE call[c].kind \in Sync -> Linked
           [] call[c].kind = "add" -> {}
           [] OTHER -> {call[c].on}) = Loaded(c)
    BY DEF Loaded, Sync
  <1>3. handler' = [handler EXCEPT ![c] = h]
    BY <1>2 DEF Arrive
  <1>4. Loaded(c) \in SUBSET Dataset /\ todo \in SUBSET Dataset
    BY <1>1, LoadedSet, SentSet
  <1>5. /\ h \in HandlerType /\ h.pc = "next" /\ h.todo = todo
        /\ h.old = Loaded(c)
    BY <1>4 DEF HandlerType
  <1> HIDE DEF h
  <1>6. /\ handler' \in [Call -> HandlerType] /\ handler'[c] = h
        /\ \A b \in Call : b # c => handler'[b] = handler[b]
    BY <1>1, <1>3, <1>5 DEF CallsOK
  <1>7. /\ UNCHANGED <<store, call, row, trouble>>
        /\ odd' = IF Crosses(c) THEN odd \cup {"crossed"} ELSE odd
    BY DEF Arrive
  <1> QED
    BY <1>1, <1>5, <1>6, <1>7 DEF Serves, Step, CallsOK, Others

LEMMA FindSteps ==
  ASSUME TypeInv, NEW c \in Call, NEW d \in Dataset, Find(c, d)
  PROVE  /\ Serves(c) /\ UNCHANGED <<row, history>>
         /\ handler[c].pc = "next" /\ d \in Upcoming(c)
         /\ handler'[c].pc = IF Refused(c, d) THEN "failed" ELSE "write"
         /\ handler'[c].cur = d
         /\ handler'[c].todo = handler[c].todo
         /\ handler'[c].old = handler[c].old
  <1> DEFINE pc == IF Refused(c, d) THEN "failed" ELSE "write"
             h == [handler[c] EXCEPT !.pc = pc, !.cur = d]
  <1>1. CallsOK /\ handler[c] \in HandlerType
    BY DEF TypeInv, TypeOK, CallsOK
  <1>2. handler' = [handler EXCEPT ![c] = h]
    BY DEF Find
  <1>3. pc \in {"failed", "write"}
    OBVIOUS
  <1> HIDE DEF pc
  <1>4. /\ h \in HandlerType /\ h.pc = pc /\ h.cur = d
        /\ h.todo = handler[c].todo /\ h.old = handler[c].old
    BY <1>1, <1>3 DEF HandlerType
  <1> HIDE DEF h
  <1>5. /\ handler' \in [Call -> HandlerType] /\ handler'[c] = h
        /\ \A b \in Call : b # c => handler'[b] = handler[b]
    BY <1>1, <1>2, <1>4 DEF CallsOK
  <1>6. /\ UNCHANGED <<store, call, row, history>>
        /\ handler[c].pc = "next" /\ d \in Upcoming(c)
    BY DEF Find
  <1> QED
    BY <1>1, <1>4, <1>5, <1>6 DEF Serves, Step, CallsOK, Others, pc

LEMMA WriteSteps ==
  ASSUME TypeInv, NEW c \in Call, Write(c)
  PROVE  \E d \in Dataset :
           /\ d = handler[c].cur /\ d \in Upcoming(c)
           /\ Serves(c) /\ UNCHANGED history
           /\ handler[c].pc = "write"
           /\ handler'[c].pc = IF call[c].kind \in Single THEN "ok" ELSE "next"
           /\ handler'[c].todo = handler[c].todo \ {d}
           /\ handler'[c].old = handler[c].old \ {d}
           /\ row' = [row EXCEPT ![d] = Written(c, d)]
  <1> DEFINE w == handler[c]
  <1>1. CallsOK /\ w \in HandlerType /\ w.pc = "write" /\ w.cur \in Upcoming(c)
    BY DEF TypeInv, TypeOK, CallsOK, Write, CallShape
  <1>2. Upcoming(c) \subseteq Dataset
    BY <1>1 DEF Upcoming, HandlerType
  <1>3. PICK d \in Dataset : d = handler[c].cur
    BY <1>1, <1>2
  <1> DEFINE pc == IF call[c].kind \in Single THEN "ok" ELSE "next"
             made == IF Operation(c, d) = "add" THEN w.made \cup {d} ELSE w.made
             h == [w EXCEPT !.pc = pc, !.todo = @ \ {d}, !.old = @ \ {d},
                            !.cur = None, !.made = made]
  <1>4. handler' = [handler EXCEPT ![c] = h]
    BY <1>3 DEF Write
  <1>5. pc \in {"ok", "next"} /\ made \in SUBSET Dataset
    BY <1>1 DEF HandlerType
  <1> HIDE DEF pc, made
  <1>6. /\ h \in HandlerType /\ h.pc = pc
        /\ h.todo = w.todo \ {d} /\ h.old = w.old \ {d}
    BY <1>1, <1>5 DEF HandlerType
  <1> HIDE DEF h
  <1>7. /\ handler' \in [Call -> HandlerType] /\ handler'[c] = h
        /\ \A b \in Call : b # c => handler'[b] = handler[b]
    BY <1>1, <1>4, <1>6 DEF CallsOK
  <1>8. /\ UNCHANGED <<store, call, history>>
        /\ row' = [row EXCEPT ![d] = Written(c, d)]
    BY <1>3 DEF Write
  <1>9. Serves(c)
    BY <1>1, <1>7, <1>8 DEF Serves, Step, CallsOK, Others
  <1> QED
    BY <1>1, <1>3, <1>6, <1>7, <1>8, <1>9 DEF pc

LEMMA LinkSteps ==
  ASSUME TypeInv, NEW c \in Call, Link(c)
  PROVE  /\ Serves(c) /\ UNCHANGED history
         /\ handler[c].pc = "next" /\ Upcoming(c) = {}
         /\ handler'[c].pc = "ok" /\ handler'[c].todo = handler[c].todo
         /\ handler'[c].old = handler[c].old
         /\ row' = [d \in Dataset |->
               IF d \in Sent(c)
                 THEN [is |-> call[c].copy[d], linked |-> TRUE,
                       listed |-> row[d].listed \/ d \in handler[c].made]
                 ELSE [row[d] EXCEPT !.linked = FALSE]]
  <1>1. CallsOK
    BY DEF TypeInv, TypeOK, CallsOK
  <1>2. /\ handler' \in [Call -> HandlerType] /\ handler'[c].pc = "ok"
        /\ handler'[c].todo = handler[c].todo /\ handler'[c].old = handler[c].old
        /\ \A b \in Call : b # c => handler'[b] = handler[b]
    BY <1>1, HandlerMoves DEF Link, HandlerPc
  <1> QED
    BY <1>1, <1>2 DEF Link, Serves, Step, CallsOK, Others

LEMMA LoseRequestSteps ==
  ASSUME TypeInv, NEW c \in Call, LoseRequest(c)
  PROVE  /\ Serves(c) /\ UNCHANGED row /\ Trouble("lost")
         /\ handler[c].pc = "sent" /\ handler'[c].pc = "failed"
  <1>1. CallsOK
    BY DEF TypeInv, TypeOK, CallsOK
  <1>2. /\ handler' \in [Call -> HandlerType] /\ handler'[c].pc = "failed"
        /\ \A b \in Call : b # c => handler'[b] = handler[b]
    BY <1>1, HandlerMoves DEF LoseRequest, HandlerPc
  <1> QED
    BY <1>1, <1>2 DEF LoseRequest, Serves, Step, CallsOK, Others

LEMMA LoseResponseSteps ==
  ASSUME TypeInv, NEW c \in Call, LoseResponse(c)
  PROVE  /\ Step(c) /\ Kept(c) /\ UNCHANGED <<store, row, handler>>
         /\ Trouble("lost") /\ call'[c].todo = call[c].todo
         /\ call[c].pc = "posted" /\ call'[c].pc = "failed"
  <1>1. CallsOK
    BY DEF TypeInv, TypeOK, CallsOK
  <1>2. /\ call' \in [Call -> CallType]
        /\ \A b \in Call : b # c => call'[b] = call[b]
        /\ Kept(c) /\ call'[c].todo = call[c].todo /\ call'[c].pc = "failed"
    BY <1>1, CallMoves DEF LoseResponse, CallPc
  <1> QED
    BY <1>1, <1>2 DEF LoseResponse, Step, CallsOK, Others

LEMMA RestartDataSteps ==
  ASSUME TypeInv, RestartData
  PROVE  /\ CallsOK' /\ UNCHANGED <<store, row, handler>> /\ Trouble("lost")
         /\ \A c \in Call :
              /\ ~Running(c) => call'[c] = call[c]
              /\ Kept(c) /\ call'[c].todo = call[c].todo
              /\ call'[c].pc = IF Running(c) THEN "failed" ELSE call[c].pc
  <1>1. CallsOK
    BY DEF TypeInv, TypeOK, CallsOK
  <1>2. ASSUME NEW c \in Call
        PROVE  /\ call'[c] \in CallType
               /\ ~Running(c) => call'[c] = call[c]
               /\ Kept(c) /\ call'[c].todo = call[c].todo
               /\ call'[c].pc = IF Running(c) THEN "failed" ELSE call[c].pc
    <2>1. call[c] \in CallType
      BY <1>1 DEF CallsOK
    <2>2. CASE Running(c)
      <3>1. call'[c] = [call[c] EXCEPT !.pc = "failed"]
        BY <2>2 DEF RestartData
      <3>2. /\ call'[c] \in CallType /\ call'[c].pc = "failed"
            /\ call'[c].kind = call[c].kind /\ call'[c].on = call[c].on
            /\ call'[c].copy = call[c].copy /\ call'[c].todo = call[c].todo
        <4> DEFINE r == call[c]
        <4>1. r \in CallType /\ "failed" \in CallPc
          BY <2>1 DEF CallPc
        <4>2. call'[c] = [r EXCEPT !.pc = "failed"]
          BY <3>1
        <4> HIDE DEF r
        <4>3. /\ [r EXCEPT !.pc = "failed"] \in CallType
              /\ [r EXCEPT !.pc = "failed"].pc = "failed"
              /\ [r EXCEPT !.pc = "failed"].kind = r.kind
              /\ [r EXCEPT !.pc = "failed"].on = r.on
              /\ [r EXCEPT !.pc = "failed"].copy = r.copy
              /\ [r EXCEPT !.pc = "failed"].todo = r.todo
          BY <4>1, CallRecords
        <4> QED
          BY <4>2, <4>3 DEF r
      <3> QED
        BY <2>2, <3>2 DEF Kept
    <2>3. CASE ~Running(c)
      <3>1. call'[c] = call[c]
        BY <2>3 DEF RestartData
      <3> QED
        BY <2>1, <2>3, <3>1 DEF Kept
    <2> QED
      BY <2>2, <2>3
  <1>3. call' \in [Call -> CallType]
    <2>1. \A c \in Call : call'[c] \in CallType
      BY <1>2
    <2> QED
      BY <2>1 DEF RestartData
  <1> QED
    BY <1>1, <1>2, <1>3 DEF RestartData, CallsOK

LEMMA RestartControlSteps ==
  ASSUME TypeInv, RestartControl
  PROVE  /\ CallsOK' /\ UNCHANGED <<store, row, call>> /\ Trouble("restart")
         /\ \A c \in Call :
              /\ ~Handling(c) => handler'[c] = handler[c]
              /\ Handling(c) => handler'[c].pc = "failed"
  <1>1. CallsOK
    BY DEF TypeInv, TypeOK, CallsOK
  <1>2. ASSUME NEW c \in Call
        PROVE  /\ handler'[c] \in HandlerType
               /\ ~Handling(c) => handler'[c] = handler[c]
               /\ Handling(c) => handler'[c].pc = "failed"
    <2>1. handler[c] \in HandlerType
      BY <1>1 DEF CallsOK
    <2>2. CASE Handling(c)
      <3>1. handler'[c] = [handler[c] EXCEPT !.pc = "failed"]
        BY <2>2 DEF RestartControl
      <3>2. handler'[c] \in HandlerType /\ handler'[c].pc = "failed"
        <4> DEFINE r == handler[c]
        <4>1. r \in HandlerType /\ "failed" \in HandlerPc
          BY <2>1 DEF HandlerPc
        <4>2. handler'[c] = [r EXCEPT !.pc = "failed"]
          BY <3>1
        <4> HIDE DEF r
        <4>3. /\ [r EXCEPT !.pc = "failed"] \in HandlerType
              /\ [r EXCEPT !.pc = "failed"].pc = "failed"
          BY <4>1, HandlerRecords
        <4> QED
          BY <4>2, <4>3 DEF r
      <3> QED
        BY <2>2, <3>2
    <2>3. CASE ~Handling(c)
      BY <2>1, <2>3 DEF RestartControl
    <2> QED
      BY <2>2, <2>3
  <1>3. handler' \in [Call -> HandlerType]
    <2>1. \A c \in Call : handler'[c] \in HandlerType
      BY <1>2
    <2> QED
      BY <2>1 DEF RestartControl
  <1> QED
    BY <1>1, <1>2, <1>3 DEF RestartControl, CallsOK

----------------------------------------------------------------------------
(* What is written.                                                         *)

LEMMA OperationCases ==
  ASSUME NEW c \in Call, NEW d
  PROVE  /\ Operation(c, d) \in {"add", "update", "remove"}
         /\ Operation(c, d) = "add" <=> d \in handler[c].todo \ handler[c].old
         /\ Operation(c, d) = "update" <=> d \in handler[c].todo \cap handler[c].old
  <1>1. CASE d \in handler[c].todo \cap handler[c].old
    BY <1>1 DEF Operation
  <1>2. CASE d \in handler[c].todo \ handler[c].old
    BY <1>2 DEF Operation
  <1>3. CASE d \notin handler[c].todo
    BY <1>3 DEF Operation
  <1> QED
    BY <1>1, <1>2, <1>3

LEMMA Copies ==
  ASSUME TypeInv, NEW c \in Call, NEW d \in Dataset
  PROVE  /\ call[c].copy[d] \in Stored
         /\ d \in Sent(c) <=> call[c].copy[d] # None
         /\ d \in Sent(c) => call[c].copy[d] \in Content
  <1>1. call[c].copy \in Catalog
    BY DEF TypeInv, TypeOK, CallType
  <1> QED
    BY <1>1 DEF Catalog, Stored, Sent

AnyRow == [is : Stored, linked : BOOLEAN, listed : BOOLEAN]

LEMMA AnyRows ==
  /\ \A r \in Row \cup {Absent} : r \in AnyRow
  /\ \A r, s \in AnyRow :
       r.is = s.is /\ r.linked = s.linked /\ r.listed = s.listed => r = s
  /\ \A r \in AnyRow : r.is \in Content => r \in Row
  <1>1. Absent \in AnyRow
    BY DEF AnyRow, Absent, Stored
  <1>2. Row \subseteq AnyRow
    BY DEF Row, AnyRow, Stored
  <1>3. \A r, s \in AnyRow :
          r.is = s.is /\ r.linked = s.linked /\ r.listed = s.listed => r = s
    BY DEF AnyRow
  <1>4. \A r \in AnyRow : r.is \in Content => r \in Row
    BY DEF Row, AnyRow
  <1> QED
    BY <1>1, <1>2, <1>3, <1>4

LEMMA AddedRow ==
  ASSUME TypeInv, NEW c \in Call, NEW d \in Dataset, d \in Sent(c),
         Operation(c, d) = "add"
  PROVE  /\ Written(c, d) \in Row /\ Written(c, d).is = call[c].copy[d]
         /\ Written(c, d).listed
         /\ Written(c, d).linked <=> (row[d].linked \/ call[c].kind = "add")
  <1> DEFINE l == row[d].linked \/ call[c].kind = "add"
             x == call[c].copy[d]
  <1>1. l \in BOOLEAN
    BY Zenon
  <1>2. x \in Content
    BY Copies
  <1>3. Written(c, d) = [is |-> x, listed |-> TRUE, linked |-> l]
    BY DEF Written
  <1> HIDE DEF l, x
  <1>4. /\ Written(c, d) \in Row /\ Written(c, d).is = x
        /\ Written(c, d).listed = TRUE /\ Written(c, d).linked = l
    BY <1>1, <1>2, <1>3 DEF Row
  <1> QED
    BY <1>4 DEF l, x

LEMMA UpdatedRow ==
  ASSUME TypeInv, NEW c \in Call, NEW d \in Dataset, d \in Sent(c),
         Operation(c, d) = "update"
  PROVE  /\ Written(c, d) \in Row /\ Written(c, d).is = call[c].copy[d]
         /\ Written(c, d).listed = row[d].listed
         /\ Written(c, d).linked = row[d].linked
  <1> DEFINE x == call[c].copy[d]
             r == row[d]
  <1>1. x \in Content /\ r \in Row \cup {Absent}
    BY Copies DEF TypeInv, TypeOK
  <1>2. Written(c, d) = [r EXCEPT !.is = x]
    BY DEF Written
  <1> HIDE DEF x, r
  <1>3. /\ [r EXCEPT !.is = x] \in Row /\ [r EXCEPT !.is = x].is = x
        /\ [r EXCEPT !.is = x].listed = r.listed
        /\ [r EXCEPT !.is = x].linked = r.linked
    <2>1. r \in AnyRow /\ x \in Stored
      BY <1>1, AnyRows DEF Stored
    <2>2. /\ [r EXCEPT !.is = x] \in AnyRow /\ [r EXCEPT !.is = x].is = x
          /\ [r EXCEPT !.is = x].listed = r.listed
          /\ [r EXCEPT !.is = x].linked = r.linked
      BY <2>1 DEF AnyRow
    <2> QED
      BY <1>1, <2>2, AnyRows
  <1> QED
    BY <1>2, <1>3 DEF x, r

LEMMA RemovedRow ==
  ASSUME NEW c \in Call, NEW d, Operation(c, d) = "remove"
  PROVE  Written(c, d) = Absent
  BY DEF Written

LEMMA WrittenRow ==
  ASSUME TypeInv, NEW c \in Call, NEW d \in Dataset, handler[c].pc = "write"
  PROVE  Written(c, d) \in Row \cup {Absent}
  <1>1. handler[c].todo \subseteq Sent(c)
    BY DEF TypeInv, CallShape
  <1>2. \/ Operation(c, d) = "remove"
        \/ d \in Sent(c) /\ Operation(c, d) = "add"
        \/ d \in Sent(c) /\ Operation(c, d) = "update"
    BY <1>1, OperationCases
  <1> QED
    BY <1>2, AddedRow, UpdatedRow, RemovedRow

\* The rows after the data plane has been saved.
LEMMA LinkRows ==
  ASSUME TypeInv, NEW c \in Call, Link(c)
  PROVE  /\ row' \in [Dataset -> Row \cup {Absent}]
         /\ \A d \in Sent(c) :
              /\ row'[d] \in Row /\ row'[d].is = call[c].copy[d]
              /\ row'[d].linked
              /\ row[d].listed => row'[d].listed
         /\ \A d \in Dataset \ Sent(c) : row[d] = Absent => row'[d] = Absent
  <1> DEFINE Listed(d) == row[d].listed \/ d \in handler[c].made
             New(d) == [is |-> call[c].copy[d], linked |-> TRUE,
                        listed |-> Listed(d)]
             Old(d) == [row[d] EXCEPT !.linked = FALSE]
  <1>1. row' = [d \in Dataset |-> IF d \in Sent(c) THEN New(d) ELSE Old(d)]
    BY LinkSteps
  <1>2. ASSUME NEW d \in Sent(c)
        PROVE  /\ New(d) \in Row /\ New(d).is = call[c].copy[d]
               /\ New(d).linked
               /\ row[d].listed => New(d).listed
    <2>1. d \in Dataset /\ call[c].copy[d] \in Content
      BY Copies DEF Sent
    <2>2. Listed(d) \in BOOLEAN /\ (row[d].listed => Listed(d) = TRUE)
      BY Zenon
    <2> DEFINE l == Listed(d)
    <2>3. l \in BOOLEAN /\ (row[d].listed => l = TRUE)
      BY <2>2
    <2>4. New(d) = [is |-> call[c].copy[d], linked |-> TRUE, listed |-> l]
      OBVIOUS
    <2> HIDE DEF l, New
    <2> QED
      BY <2>1, <2>3, <2>4 DEF Row
  <1>3. ASSUME NEW d \in Dataset
        PROVE  /\ Old(d) \in Row \cup {Absent}
               /\ row[d] = Absent => Old(d) = Absent
    <2>1. row[d] \in Row \cup {Absent}
      BY DEF TypeInv, TypeOK
    <2>2. CASE row[d] \in Row
      BY <2>2, Contents DEF Row
    <2>3. CASE row[d] = Absent
      <3> DEFINE a == Absent
      <3>1. a \in AnyRow /\ a.linked = FALSE
        BY AnyRows DEF Absent
      <3> HIDE DEF a
      <3>2. [a EXCEPT !.linked = FALSE] \in AnyRow
        BY <3>1 DEF AnyRow
      <3>3. [a EXCEPT !.linked = FALSE] = a
        BY <3>1, <3>2, AnyRows DEF AnyRow
      <3> QED
        BY <2>3, <3>3 DEF a
    <2> QED
      BY <2>1, <2>2, <2>3, Contents
  <1> HIDE DEF New, Old
  <1>4. Sent(c) \subseteq Dataset
    BY DEF Sent
  <1>5. \A d \in Dataset : row'[d] = IF d \in Sent(c) THEN New(d) ELSE Old(d)
    BY <1>1
  <1>6. row' \in [Dataset -> Row \cup {Absent}]
    <2>1. \A d \in Dataset :
           (IF d \in Sent(c) THEN New(d) ELSE Old(d)) \in Row \cup {Absent}
      BY <1>2, <1>3
    <2> QED
      BY <1>1, <2>1
  <1> QED
    BY <1>2, <1>3, <1>4, <1>5, <1>6

----------------------------------------------------------------------------
(* The types are kept.                                                      *)

LEMMA ShapeKept ==
  ASSUME NEW b \in Call, CallShape(b), call'[b] = call[b], handler'[b] = handler[b]
  PROVE  CallShape(b)'
  BY DEF CallShape, Upcoming, Sent

LEMMA TypesKept ==
  ASSUME TypeInv, NEW c \in Call, Step(c), CallShape(c)', StoresOK', HistoryOK'
  PROVE  TypeInv'
  <1>1. \A b \in Call : CallShape(b)'
    BY ShapeKept DEF TypeInv, Step, Others
  <1> QED
    BY <1>1 DEF TypeInv, TypeOK, Step, CallsOK, StoresOK, HistoryOK

LEMMA HistoryKept ==
  ASSUME HistoryOK,
         \/ UNCHANGED history
         \/ \E what \in {"lost", "restart", "overlap"} : Trouble(what)
         \/ odd' \in {odd, odd \cup {"crossed"}} /\ UNCHANGED trouble
  PROVE  HistoryOK' /\ odd \subseteq odd'
  <1>1. CASE UNCHANGED history
    BY <1>1 DEF HistoryOK, history
  <1>2. ASSUME NEW what \in {"lost", "restart", "overlap"}, Trouble(what)
        PROVE  HistoryOK' /\ odd \subseteq odd'
    <2>1. /\ odd' = odd \cup {what} /\ trouble' = trouble + 1
          /\ odd \subseteq {"lost", "restart", "overlap", "crossed"}
          /\ trouble \in Nat
      BY <1>2 DEF HistoryOK, Trouble
    <2> QED
      BY <2>1 DEF HistoryOK
  <1>3. CASE odd' \in {odd, odd \cup {"crossed"}} /\ UNCHANGED trouble
    BY <1>3 DEF HistoryOK
  <1> QED
    BY <1>1, <1>2, <1>3

LEMMA HistoryNext ==
  ASSUME TypeInv, [Next]_vars
  PROVE  HistoryOK' /\ odd \subseteq odd'
  <1>1. HistoryOK
    BY DEF TypeInv, TypeOK, HistoryOK
  <1>2. \A c \in Call : Begins(c) => UNCHANGED history \/ Trouble("overlap")
    BY DEF Begins
  <1>3. CASE UNCHANGED vars
    BY <1>1, <1>3, HistoryKept DEF vars
  <1>4. ASSUME NEW c \in Call, NEW d \in Dataset,
               \/ AddItem(c, d) \/ UpdateItem(c, d) \/ RemoveItem(c, d)
               \/ SaveItem(c, d) \/ Find(c, d)
        PROVE  UNCHANGED history \/ Trouble("overlap")
    BY <1>2, <1>4 DEF AddItem, UpdateItem, RemoveItem, SaveItem, Find
  <1>5. ASSUME NEW c \in Call,
               \/ \E kind \in Sync : SendCatalog(c, kind)
               \/ Post(c) \/ Reply(c) \/ Write(c) \/ Link(c)
               \/ LoseRequest(c) \/ LoseResponse(c)
        PROVE  UNCHANGED history \/ Trouble("overlap") \/ Trouble("lost")
    BY <1>2, <1>5 DEF SendCatalog, Post, Reply, Write, Link, LoseRequest,
                      LoseResponse
  <1>6. RestartData \/ RestartControl => Trouble("lost") \/ Trouble("restart")
    BY DEF RestartData, RestartControl
  <1>7. ASSUME NEW c \in Call, Arrive(c)
        PROVE  odd' \in {odd, odd \cup {"crossed"}} /\ UNCHANGED trouble
    BY <1>7, ArriveSteps
  <1>8. \/ UNCHANGED history
        \/ \E what \in {"lost", "restart", "overlap"} : Trouble(what)
        \/ odd' \in {odd, odd \cup {"crossed"}} /\ UNCHANGED trouble
    BY <1>3, <1>4, <1>5, <1>6, <1>7 DEF Next, vars
  <1> QED
    BY <1>1, <1>8, HistoryKept

LEMMA BegunTypes ==
  ASSUME TypeInv, HistoryOK', StoresOK', NEW c \in Call,
         NEW kind \in Single \cup Sync, NEW on, NEW pc \in {"saving", "posted"},
         NEW copy, NEW todo, Begun(c, kind, on, pc, copy, todo),
         kind \in Single => on \in Dataset,
         \A d \in todo : d \in Dataset /\ copy[d] # None,
         pc = "posted" => todo = {}
  PROVE  TypeInv'
  <1>1. CallShape(c)'
    BY DEF Begun, CallShape, Sent, Upcoming, Single, Sync
  <1> QED
    BY <1>1, TypesKept DEF Begun

LEMMA ItemTypes ==
  ASSUME TypeInv, HistoryOK', NEW c \in Call, NEW d \in Dataset,
         AddItem(c, d) \/ UpdateItem(c, d) \/ RemoveItem(c, d)
  PROVE  TypeInv'
  <1>1. StoresOK
    BY DEF TypeInv, TypeOK, StoresOK
  <1>2. Empty \in Catalog /\ c # None /\ [Empty EXCEPT ![d] = c][d] = c
    BY Contents DEF Catalog, Stored, Empty
  <1>3. CASE AddItem(c, d)
    <2>1. StoresOK' /\ Begun(c, "add", d, "posted", [Empty EXCEPT ![d] = c], {})
      BY <1>1, <1>3, AddItemSteps DEF StoresOK
    <2> QED
      BY <2>1, BegunTypes DEF Single
  <1>4. CASE UpdateItem(c, d)
    <2>1. StoresOK' /\ Begun(c, "update", d, "saving", [Empty EXCEPT ![d] = c], {d})
      BY <1>1, <1>4, UpdateItemSteps DEF StoresOK, store
    <2> DEFINE copy == [Empty EXCEPT ![d] = c]
    <2>2. \A e \in {d} : e \in Dataset /\ copy[e] # None
      BY <1>2
    <2>3. "update" \in Single
      BY DEF Single
    <2> HIDE DEF copy
    <2>4. Begun(c, "update", d, "saving", copy, {d})
      BY <2>1 DEF copy
    <2> QED
      BY <2>1, <2>2, <2>3, <2>4, BegunTypes
  <1>5. CASE RemoveItem(c, d)
    <2>1. StoresOK' /\ Begun(c, "remove", d, "posted", Empty, {})
      BY <1>1, <1>5, RemoveItemSteps DEF StoresOK, store
    <2> QED
      BY <2>1, BegunTypes DEF Single
  <1> QED
    BY <1>3, <1>4, <1>5

LEMMA SendCatalogTypes ==
  ASSUME TypeInv, HistoryOK', NEW c \in Call, NEW kind \in Sync,
         SendCatalog(c, kind)
  PROVE  TypeInv'
  <1> DEFINE all == {d \in Dataset : item[d] # None}
  <1>1. StoresOK'
    BY SendCatalogSteps DEF TypeInv, TypeOK, StoresOK, store
  <1>2. PICK copy \in Catalog :
          /\ Begun(c, kind, None, "saving", copy, all)
          /\ \A d \in Dataset : copy[d] # None <=> item[d] # None
    BY SendCatalogSteps
  <1>3. \A d \in all : d \in Dataset /\ copy[d] # None
    BY <1>2
  <1>4. kind \in Single \cup Sync /\ kind \notin Single
    BY DEF Single, Sync
  <1> HIDE DEF all
  <1> QED
    BY <1>1, <1>2, <1>3, <1>4, BegunTypes

LEMMA SaveItemTypes ==
  ASSUME TypeInv, HistoryOK', NEW c \in Call, NEW d \in Dataset, SaveItem(c, d)
  PROVE  TypeInv'
  <1>1. CallShape(c) /\ StoresOK
    BY DEF TypeInv, TypeOK, StoresOK
  <1>2. StoresOK'
    BY <1>1, SaveItemSteps DEF StoresOK
  <1>3. CallShape(c)'
    BY <1>1, SaveItemSteps DEF CallShape, Sent, Upcoming, Kept
  <1> QED
    BY <1>2, <1>3, SaveItemSteps, TypesKept

LEMMA PostTypes ==
  ASSUME TypeInv, HistoryOK', NEW c \in Call, Post(c)
  PROVE  TypeInv'
  <1>1. CallShape(c) /\ StoresOK
    BY DEF TypeInv, TypeOK, StoresOK
  <1>2. StoresOK'
    BY <1>1, PostSteps DEF StoresOK, store
  <1>3. CallShape(c)'
    BY <1>1, PostSteps DEF CallShape, Sent, Upcoming, Kept
  <1> QED
    BY <1>2, <1>3, PostSteps, TypesKept

LEMMA ReplyTypes ==
  ASSUME TypeInv, HistoryOK', NEW c \in Call, Reply(c)
  PROVE  TypeInv'
  <1>1. CallShape(c) /\ StoresOK
    BY DEF TypeInv, TypeOK, StoresOK
  <1>2. StoresOK'
    BY <1>1, ReplySteps DEF StoresOK
  <1>3. handler'[c] = handler[c] /\ call'[c].pc \in {"done", "failed"}
        /\ (call'[c].pc = "done" => handler[c].pc = "ok")
        /\ call[c].pc = "posted" /\ handler[c].pc \in {"ok", "failed"}
    BY ReplySteps
  <1>4. CallShape(c)'
    BY <1>1, <1>3, ReplySteps DEF CallShape, Sent, Upcoming, Kept
  <1> QED
    BY <1>2, <1>4, ReplySteps, TypesKept

LEMMA ArriveTypes ==
  ASSUME TypeInv, HistoryOK', NEW c \in Call, Arrive(c)
  PROVE  TypeInv'
  <1>1. CallShape(c) /\ StoresOK
    BY DEF TypeInv, TypeOK, StoresOK
  <1>2. StoresOK'
    BY <1>1, ArriveSteps DEF StoresOK, Serves, store
  <1>3. call'[c] = call[c] /\ Sent(c)' = Sent(c)
    BY ArriveSteps DEF Serves, Sent
  <1>4. CallShape(c)'
    BY <1>1, <1>3, ArriveSteps DEF CallShape
  <1> QED
    BY <1>2, <1>4, ArriveSteps, TypesKept DEF Serves

LEMMA FindTypes ==
  ASSUME TypeInv, HistoryOK', NEW c \in Call, NEW d \in Dataset, Find(c, d)
  PROVE  TypeInv'
  <1>1. CallShape(c) /\ StoresOK
    BY DEF TypeInv, TypeOK, StoresOK
  <1>2. StoresOK'
    BY <1>1, FindSteps DEF StoresOK, Serves, store
  <1>3. call'[c] = call[c] /\ Sent(c)' = Sent(c) /\ Upcoming(c)' = Upcoming(c)
    BY FindSteps DEF Serves, Sent, Upcoming
  <1>4. handler'[c].pc \in {"failed", "write"}
    BY FindSteps
  <1>5. CallShape(c)'
    BY <1>1, <1>3, <1>4, FindSteps DEF CallShape
  <1> QED
    BY <1>2, <1>5, FindSteps, TypesKept DEF Serves

LEMMA WriteTypes ==
  ASSUME TypeInv, HistoryOK', NEW c \in Call, Write(c)
  PROVE  TypeInv'
  <1>1. CallShape(c) /\ StoresOK
    BY DEF TypeInv, TypeOK, StoresOK
  <1>2. PICK d \in Dataset :
           /\ Serves(c) /\ handler[c].pc = "write"
           /\ handler'[c].pc = IF call[c].kind \in Single THEN "ok" ELSE "next"
           /\ handler'[c].todo = handler[c].todo \ {d}
           /\ row' = [row EXCEPT ![d] = Written(c, d)]
    BY WriteSteps
  <1>3. StoresOK'
    BY <1>1, <1>2, WrittenRow DEF StoresOK, Serves, store
  <1>4. call'[c] = call[c] /\ Sent(c)' = Sent(c)
    BY <1>2 DEF Serves, Sent
  <1>5. handler'[c].pc \in {"ok", "next"}
    BY <1>2
  <1>6. CallShape(c)'
    BY <1>1, <1>2, <1>4, <1>5 DEF CallShape
  <1> QED
    BY <1>2, <1>3, <1>6, TypesKept DEF Serves

LEMMA LinkTypes ==
  ASSUME TypeInv, HistoryOK', NEW c \in Call, Link(c)
  PROVE  TypeInv'
  <1>1. CallShape(c) /\ StoresOK
    BY DEF TypeInv, TypeOK, StoresOK
  <1>2. StoresOK'
    BY <1>1, LinkSteps, LinkRows DEF StoresOK, Serves, store
  <1>3. call'[c] = call[c] /\ Sent(c)' = Sent(c)
    BY LinkSteps DEF Serves, Sent
  <1>4. CallShape(c)'
    BY <1>1, <1>3, LinkSteps DEF CallShape
  <1> QED
    BY <1>2, <1>4, LinkSteps, TypesKept DEF Serves

LEMMA LoseTypes ==
  ASSUME TypeInv, HistoryOK', NEW c \in Call, LoseRequest(c) \/ LoseResponse(c)
  PROVE  TypeInv'
  <1>1. CallShape(c) /\ StoresOK
    BY DEF TypeInv, TypeOK, StoresOK
  <1>2. CASE LoseRequest(c)
    <2>1. StoresOK'
      BY <1>1, <1>2, LoseRequestSteps DEF StoresOK, Serves, store
    <2>2. call'[c] = call[c] /\ Sent(c)' = Sent(c)
      BY <1>2, LoseRequestSteps DEF Serves, Sent
    <2>3. CallShape(c)'
      BY <1>1, <1>2, <2>2, LoseRequestSteps DEF CallShape
    <2> QED
      BY <1>2, <2>1, <2>3, LoseRequestSteps, TypesKept DEF Serves
  <1>3. CASE LoseResponse(c)
    <2>1. StoresOK'
      BY <1>1, <1>3, LoseResponseSteps DEF StoresOK, store
    <2>2. CallShape(c)'
      BY <1>1, <1>3, LoseResponseSteps DEF CallShape, Sent, Upcoming, Kept
    <2> QED
      BY <1>3, <2>1, <2>2, LoseResponseSteps, TypesKept
  <1> QED
    BY <1>2, <1>3

LEMMA RestartTypes ==
  ASSUME TypeInv, HistoryOK', RestartData \/ RestartControl
  PROVE  TypeInv'
  <1>1. StoresOK /\ \A c \in Call : CallShape(c)
    BY DEF TypeInv, TypeOK, StoresOK
  <1>2. CASE RestartData
    <2>1. StoresOK' /\ CallsOK'
      BY <1>1, <1>2, RestartDataSteps DEF StoresOK, store
    <2>2. ASSUME NEW c \in Call
          PROVE  CallShape(c)'
      BY <1>1, <1>2, RestartDataSteps DEF CallShape, Sent, Upcoming, Kept, Running
    <2> QED
      BY <2>1, <2>2 DEF TypeInv, TypeOK, CallsOK, StoresOK, HistoryOK
  <1>3. CASE RestartControl
    <2>1. StoresOK' /\ CallsOK'
      BY <1>1, <1>3, RestartControlSteps DEF StoresOK, store
    <2>2. ASSUME NEW c \in Call
          PROVE  CallShape(c)'
      <3>1. call'[c] = call[c]
        BY <1>3, RestartControlSteps
      <3>2. CASE Handling(c)
        BY <1>1, <1>3, <3>1, <3>2, RestartControlSteps
          DEF CallShape, Sent, Handling
      <3>3. CASE ~Handling(c)
        BY <1>1, <1>3, <3>1, <3>3, ShapeKept, RestartControlSteps
      <3> QED
        BY <3>2, <3>3
    <2> QED
      BY <2>1, <2>2 DEF TypeInv, TypeOK, CallsOK, StoresOK, HistoryOK
  <1> QED
    BY <1>2, <1>3

LEMMA TypeInit == Init => TypeInv
  <1> SUFFICES ASSUME Init
               PROVE  TypeInv
    OBVIOUS
  <1>1. Empty \in Catalog /\ [Dataset -> {None, 0}] \subseteq Catalog
    BY Contents DEF Catalog, Stored, Empty
  <1>2. NoCall \in CallType /\ NoHandler \in HandlerType
    BY <1>1 DEF NoCall, CallType, NoHandler, HandlerType
  <1>3. TypeOK
    BY <1>1, <1>2 DEF Init, TypeOK
  <1>4. \A c \in Call : call[c] = NoCall /\ handler[c] = NoHandler
    BY DEF Init
  <1>5. \A c \in Call : CallShape(c)
    BY <1>4 DEF CallShape, NoCall, NoHandler, Single, Sent
  <1> QED
    BY <1>3, <1>5 DEF TypeInv

LEMMA TypeNext ==
  ASSUME TypeInv, [Next]_vars
  PROVE  TypeInv'
  <1>1. HistoryOK'
    BY HistoryNext
  <1>2. CASE UNCHANGED vars
    <2>1. UNCHANGED <<active, item, row, call, handler, odd, trouble>>
      BY <1>2 DEF vars, store, history
    <2>2. \A c \in Call : CallShape(c)'
      BY <2>1, ShapeKept DEF TypeInv
    <2> QED
      BY <2>1, <2>2 DEF TypeInv, TypeOK
  <1>3. ASSUME NEW c \in Call, NEW d \in Dataset,
               \/ AddItem(c, d) \/ UpdateItem(c, d) \/ RemoveItem(c, d)
               \/ SaveItem(c, d) \/ Find(c, d)
        PROVE  TypeInv'
    BY <1>1, <1>3, ItemTypes, SaveItemTypes, FindTypes
  <1>4. ASSUME NEW c \in Call, NEW kind \in Sync, SendCatalog(c, kind)
        PROVE  TypeInv'
    BY <1>1, <1>4, SendCatalogTypes
  <1>5. ASSUME NEW c \in Call,
               \/ Post(c) \/ Reply(c) \/ Arrive(c) \/ Write(c) \/ Link(c)
               \/ LoseRequest(c) \/ LoseResponse(c)
        PROVE  TypeInv'
    BY <1>1, <1>5, PostTypes, ReplyTypes, ArriveTypes, WriteTypes, LinkTypes,
       LoseTypes
  <1>6. RestartData \/ RestartControl => TypeInv'
    BY <1>1, RestartTypes
  <1> QED
    BY <1>2, <1>3, <1>4, <1>5, <1>6 DEF Next

\* The variables keep their types: the items and rows are those of some call or
\* of the configuration, whichever calls overlap, are lost or stopped.
THEOREM CatalogTypes == Spec => []TypeOK
  <1>1. Init => TypeInv
    BY TypeInit
  <1>2. TypeInv /\ [Next]_vars => TypeInv'
    BY TypeNext
  <1>3. TypeInv => TypeOK
    BY DEF TypeInv
  <1> QED
    BY <1>1, <1>2, <1>3, PTL DEF Spec

----------------------------------------------------------------------------
(* The databases agree.                                                     *)

LEMMA FullRow ==
  ASSUME NEW r \in Row, r.linked, r.listed
  PROVE  r = [is |-> r.is, linked |-> TRUE, listed |-> TRUE]
  BY DEF Row

Doing == \A c \in Call : Active(c) => Sending(c) /\ Handled(c)

LEMMA AgreeParts ==
  AgreeInv <=> ("overlap" \notin odd => Alone /\ Shown /\ Succeeded /\ Doing)
  BY DEF AgreeInv, Doing

\* A step of the one call that is under way.
LEMMA InnerStep ==
  ASSUME TypeInv, Alone, Shown', NEW c \in Call, Step(c), Active(c),
         call'[c].pc # "idle", (Active(c) => Sending(c) /\ Handled(c))',
         call'[c].pc = "done" => (\A d \in About(c) : Agree(d))'
  PROVE  AgreeInv'
  <1>1. call[c].pc # "idle"
    BY DEF Active, Running, Handling, TypeInv, CallShape
  <1>2. \A b \in Call : b # c => call'[b] = call[b] /\ ~Active(b) /\ ~Active(b)'
    BY DEF Step, Others, Alone, Active, Running, Handling
  <1>3. Alone'
    BY <1>1, <1>2 DEF Alone
  <1>4. Doing'
    BY <1>2 DEF Doing
  <1>5. Succeeded'
    <2> SUFFICES ASSUME NEW b \in Call, call'[b].pc = "done", Latest(b)'
                 PROVE  (\A d \in About(b) : Agree(d))'
      BY DEF Succeeded
    <2>1. CASE b = c
      BY <2>1
    <2>2. CASE b # c
      <3>1. ~(b < c)
        BY DEF Latest
      <3>2. b > c
        BY <2>2, <3>1, Contents
      <3>3. call[b].pc = "idle"
        BY <3>2 DEF Alone
      <3> QED
        BY <1>2, <2>2, <3>3
    <2> QED
      BY <2>1, <2>2
  <1> QED
    BY <1>3, <1>4, <1>5 DEF AgreeInv, Doing

LEMMA QuietBegins ==
  ASSUME NEW c \in Call, Begins(c), "overlap" \notin odd'
  PROVE  Quiet /\ UNCHANGED history
  BY DEF Begins, Trouble

\* A call that begins when no other is under way.
LEMMA BeginStep ==
  ASSUME TypeInv, Alone, Shown', "overlap" \notin odd', NEW c \in Call,
         NEW kind, NEW on, NEW pc \in {"saving", "posted"}, NEW copy, NEW todo,
         Begun(c, kind, on, pc, copy, todo), Sending(c)'
  PROVE  AgreeInv'
  <1>1. Quiet
    BY QuietBegins DEF Begun
  <1>2. \A b \in Call : b # c => call'[b] = call[b] /\ ~Active(b) /\ ~Active(b)'
    BY <1>1 DEF Begun, Step, Others, Quiet, Active, Running, Handling
  <1>3. /\ call[c].pc = "idle" /\ call'[c].pc # "idle" /\ Running(c)'
        /\ \A b \in Call : b < c => call[b].pc # "idle"
    BY DEF Begun, Begins, Running
  <1>4. handler'[c].pc \in {"none", "sent"}
    BY DEF Begun
  <1>5. Alone'
    <2>1. (\A b, e \in Call : Active(b) /\ Active(e) => b = e)'
      BY <1>2
    <2>2. ASSUME NEW b \in Call, NEW e \in Call, b < e, call'[b].pc = "idle"
          PROVE  call'[e].pc = "idle"
      <3>1. b # c /\ call[b].pc = "idle"
        BY <1>2, <1>3, <2>2
      <3>2. ~(b < c)
        BY <1>3, <3>1
      <3>3. e # c
        BY <2>2, <3>1, <3>2, Contents
      <3> QED
        BY <1>2, <2>2, <3>1, <3>3 DEF Alone
    <2>3. ASSUME NEW b \in Call, NEW e \in Call, b > e, Active(e)'
          PROVE  call'[b].pc = "idle"
      <3>1. e = c
        BY <1>2, <2>3
      <3>2. b # c /\ c < b
        BY <2>3, <3>1, Contents
      <3> QED
        BY <1>2, <1>3, <3>2 DEF Alone
    <2> QED
      BY <2>1, <2>2, <2>3 DEF Alone
  <1>6. Handled(c)'
    BY <1>4 DEF Handled, Midway
  <1>7. Doing'
    BY <1>2, <1>6 DEF Doing
  <1>8. Succeeded'
    BY <1>3 DEF Succeeded, Quiet
  <1> QED
    BY <1>5, <1>7, <1>8 DEF AgreeInv, Doing

LEMMA ItemAgrees ==
  ASSUME TypeInv, Alone, Shown, "overlap" \notin odd', NEW c \in Call,
         NEW d \in Dataset, AddItem(c, d) \/ UpdateItem(c, d) \/ RemoveItem(c, d)
  PROVE  AgreeInv'
  <1> DEFINE copy == [Empty EXCEPT ![d] = c]
  <1>1. /\ c # None /\ copy[d] = c /\ item \in Catalog
        /\ \A e \in Dataset : Empty[e] = None /\ (e # d => copy[e] = None)
    BY Contents DEF Empty, TypeInv, TypeOK
  <1> HIDE DEF copy
  <1>2. CASE AddItem(c, d)
    <2>1. /\ Begun(c, "add", d, "posted", copy, {})
          /\ item' = [item EXCEPT ![d] = c] /\ row' = row
      BY <1>2, AddItemSteps DEF copy
    <2>2. /\ item'[d] = c /\ \A e \in Dataset : e # d => item'[e] = item[e]
      BY <1>1, <2>1 DEF Catalog
    <2>3. Shown'
      BY <1>1, <2>1, <2>2 DEF Shown
    <2>4. call'[c].kind = "add" /\ call'[c].on = d /\ call'[c].copy = copy
      BY <2>1 DEF Begun
    <2>5. Sent(c)' = {d}
      BY <1>1, <2>4 DEF Sent
    <2>6. Sending(c)'
      BY <1>1, <2>2, <2>4, <2>5 DEF Sending, Sync
    <2> QED
      BY <2>1, <2>3, <2>6, BeginStep
  <1>3. CASE UpdateItem(c, d)
    <2>1. /\ Begun(c, "update", d, "saving", copy, {d})
          /\ item' = item /\ row' = row /\ item[d] # None
      BY <1>3, UpdateItemSteps DEF copy, store
    <2>2. Shown'
      BY <2>1 DEF Shown
    <2>3. /\ call'[c].kind = "update" /\ call'[c].on = d /\ call'[c].copy = copy
          /\ call'[c].todo = {d}
      BY <2>1 DEF Begun
    <2>4. Sent(c)' = {d}
      BY <1>1, <2>3 DEF Sent
    <2>5. Sending(c)'
      BY <2>1, <2>3, <2>4 DEF Sending, Sync
    <2> QED
      BY <2>1, <2>2, <2>5, BeginStep
  <1>4. CASE RemoveItem(c, d)
    <2>1. Begun(c, "remove", d, "posted", Empty, {}) /\ item' = item /\ row' = row
      BY <1>4, RemoveItemSteps DEF store
    <2>2. Shown'
      BY <2>1 DEF Shown
    <2>3. call'[c].kind = "remove" /\ call'[c].copy = Empty
      BY <2>1 DEF Begun
    <2>4. Sent(c)' = {}
      BY <1>1, <2>3 DEF Sent
    <2>5. Sending(c)'
      BY <2>3, <2>4 DEF Sending, Sync
    <2> QED
      BY <2>1, <2>2, <2>5, BeginStep
  <1> QED
    BY <1>2, <1>3, <1>4

LEMMA SendCatalogAgrees ==
  ASSUME TypeInv, Alone, Shown, "overlap" \notin odd', NEW c \in Call,
         NEW kind \in Sync, SendCatalog(c, kind)
  PROVE  AgreeInv'
  <1> DEFINE all == {d \in Dataset : item[d] # None}
  <1>1. PICK copy \in Catalog :
          /\ Begun(c, kind, None, "saving", copy, all)
          /\ \A d \in Dataset : copy[d] # None <=> item[d] # None
          /\ item' = item /\ row' = row
    BY SendCatalogSteps DEF store
  <1>2. Shown'
    BY <1>1 DEF Shown
  <1>3. /\ call'[c].kind = kind /\ call'[c].copy = copy /\ call'[c].todo = all
    BY <1>1 DEF Begun
  <1>4. Sent(c)' = all
    BY <1>1, <1>3 DEF Sent
  <1>5. kind \notin {"add", "update", "remove"}
    BY DEF Sync
  <1>6. Sending(c)'
    BY <1>1, <1>3, <1>4, <1>5 DEF Sending
  <1> HIDE DEF all
  <1> QED
    BY <1>1, <1>2, <1>6, BeginStep

\* What is known of a call that is under way.
LEMMA UnderWay ==
  ASSUME TypeInv, Doing, NEW c \in Call, Active(c)
  PROVE  /\ Sending(c) /\ Handled(c) /\ call[c].pc \notin {"idle", "done"}
         /\ call[c].kind \in Single \cup Sync
         /\ call[c].kind \in Single => call[c].on \in Dataset
         /\ call[c].todo \subseteq Sent(c)
  <1>1. CallShape(c) /\ call[c] \in CallType
    BY DEF TypeInv, TypeOK
  <1>2. call[c].pc \notin {"idle", "done"}
    BY <1>1 DEF CallShape, Active, Running, Handling
  <1> QED
    BY <1>1, <1>2 DEF CallShape, CallType, Doing

LEMMA SendingKept ==
  ASSUME NEW c \in Call, Sending(c), Kept(c), call'[c].todo = call[c].todo,
         item' = item
  PROVE  Sending(c)'
  BY DEF Sending, Sent, Kept

LEMMA ShownKept ==
  ASSUME Shown, item' = item, row' = row
  PROVE  Shown'
  BY DEF Shown

LEMMA HandledStill ==
  ASSUME NEW c \in Call, handler'[c].pc \in {"none", "sent", "failed"}
  PROVE  Handled(c)'
  BY DEF Handled, Midway

LEMMA SaveItemAgrees ==
  ASSUME TypeInv, Alone, Shown, Doing, NEW c \in Call, NEW d \in Dataset,
         SaveItem(c, d)
  PROVE  AgreeInv'
  <1>1. /\ Step(c) /\ Kept(c) /\ call[c].pc = "saving" /\ call'[c].pc = "saving"
        /\ d \in call[c].todo /\ call'[c].todo = call[c].todo \ {d}
        /\ row' = row /\ handler' = handler
        /\ item' = [item EXCEPT ![d] = call[c].copy[d]]
    BY SaveItemSteps
  <1>2. Active(c) /\ handler[c].pc = "none"
    BY <1>1 DEF Active, Running, TypeInv, CallShape
  <1>3. Sending(c) /\ d \in Sent(c)
    BY <1>1, <1>2, UnderWay
  <1>4. /\ item'[d] = call[c].copy[d] /\ call[c].copy[d] # None
        /\ \A e \in Dataset : e # d => item'[e] = item[e]
    BY <1>1, <1>3, Copies DEF TypeInv, TypeOK, Catalog
  <1>5. Shown'
    BY <1>1, <1>4 DEF Shown
  <1>6. Sent(c)' = Sent(c) /\ Sent(c) \subseteq Dataset
    BY <1>1 DEF Sent, Kept
  <1>7. Sending(c)'
    BY <1>1, <1>3, <1>4, <1>6 DEF Sending, Kept
  <1>8. Handled(c)'
    BY <1>1, <1>2, HandledStill
  <1> QED
    BY <1>1, <1>2, <1>5, <1>7, <1>8, InnerStep

LEMMA PostAgrees ==
  ASSUME TypeInv, Alone, Shown, Doing, NEW c \in Call, Post(c)
  PROVE  AgreeInv'
  <1>1. /\ Step(c) /\ Kept(c) /\ call[c].pc = "saving" /\ call'[c].pc = "posted"
        /\ call'[c].todo = call[c].todo /\ item' = item /\ row' = row
        /\ handler'[c].pc = "sent"
    BY PostSteps DEF store
  <1>2. Active(c)
    BY <1>1 DEF Active, Running
  <1>3. Shown' /\ Sending(c)' /\ Handled(c)'
    BY <1>1, <1>2, UnderWay, SendingKept, ShownKept, HandledStill
  <1> QED
    BY <1>1, <1>2, <1>3, InnerStep

LEMMA ReplyAgrees ==
  ASSUME TypeInv, Alone, Shown, Doing, NEW c \in Call, Reply(c)
  PROVE  AgreeInv'
  <1>1. /\ Step(c) /\ Kept(c) /\ call[c].pc = "posted"
        /\ call'[c].pc \in {"done", "failed"}
        /\ row' = row /\ handler' = handler /\ handler[c].pc \in {"ok", "failed"}
    BY ReplySteps
  <1>2. Active(c) /\ ~Active(c)'
    BY <1>1 DEF Active, Running, Handling
  <1>3. /\ Sending(c) /\ Handled(c) /\ call[c].kind \in Single \cup Sync
        /\ call[c].kind \in Single => call[c].on \in Dataset
    BY <1>2, UnderWay
  <1>4. CASE call'[c].pc = "failed"
    <2>1. item' = item
      BY <1>4, ReplySteps DEF store
    <2> QED
      BY <1>1, <1>2, <1>4, <2>1, InnerStep, ShownKept
  <1>5. CASE call'[c].pc = "done" /\ call[c].kind = "remove"
    <2>0. PICK on \in Dataset : on = call[c].on
      BY <1>3, <1>5 DEF Single
    <2>1. About(c)' = {on}
      BY <1>1, <1>5, <2>0 DEF About, Kept, Sync
    <2>2. handler[c].pc = "ok" /\ item' = [item EXCEPT ![on] = None]
      BY <1>5, <2>0, ReplySteps
    <2>3. row[on] = Absent
      BY <1>3, <1>5, <2>0, <2>2 DEF Handled
    <2>4. item'[on] = None /\ \A e \in Dataset : e # on => item'[e] = item[e]
      BY <2>2 DEF TypeInv, TypeOK, Catalog
    <2>5. Shown'
      BY <1>1, <2>3, <2>4 DEF Shown
    <2>6. Agree(on)'
      BY <1>1, <2>3, <2>4 DEF Agree
    <2>7. (\A d \in About(c) : Agree(d))'
      BY <2>1, <2>6
    <2> QED
      BY <1>1, <1>2, <2>5, <2>7, InnerStep
  <1>6. CASE call'[c].pc = "done" /\ call[c].kind # "remove"
    <2>1. handler[c].pc = "ok" /\ item' = item
      BY <1>6, ReplySteps
    <2>2. \A d \in About(c) : Agree(d)
      BY <1>3, <1>6, <2>1 DEF Handled
    <2>3. About(c)' = About(c)
      BY <1>1 DEF About, Kept
    <2>4. (\A d \in About(c) : Agree(d))'
      BY <1>1, <2>1, <2>2, <2>3 DEF Agree
    <2> QED
      BY <1>1, <1>2, <2>1, <2>4, InnerStep, ShownKept
  <1> QED
    BY <1>1, <1>4, <1>5, <1>6

LEMMA ArriveAgrees ==
  ASSUME TypeInv, Alone, Shown, Doing, NEW c \in Call, Arrive(c)
  PROVE  AgreeInv'
  <1>1. /\ Step(c) /\ call' = call /\ item' = item /\ row' = row
        /\ handler[c].pc = "sent" /\ handler'[c].pc = "next"
        /\ handler'[c].todo = IF call[c].kind = "remove" THEN {} ELSE Sent(c)
        /\ handler'[c].old = Loaded(c)
    BY ArriveSteps DEF Serves, store
  <1>2. Active(c)
    BY <1>1 DEF Active, Handling
  <1>3. /\ Sending(c) /\ call[c].kind \in Single \cup Sync
        /\ call[c].pc \notin {"idle", "done"}
    BY <1>2, UnderWay
  <1>4. Kept(c) /\ Sent(c)' = Sent(c)
    BY <1>1 DEF Kept, Sent
  <1>5. Sending(c)' /\ Shown'
    BY <1>1, <1>3, <1>4, SendingKept, ShownKept
  <1>6. CASE call[c].kind \in Sync
    <2>1. call[c].kind # "remove"
      BY <1>6 DEF Sync
    <2>2. handler'[c].todo = Sent(c) /\ handler'[c].old = Linked
      BY <1>1, <1>6, <2>1 DEF Loaded
    <2>3. \A d \in Dataset : row[d].linked => row[d] # Absent
      BY Contents
    <2>4. \A d \in Linked : row[d].linked /\ d \in Sent(c)
      BY <1>3, <1>6, <2>3 DEF Linked, Shown, Sending
    <2>5. \A d \in Sent(c) : row[d].linked => d \in Linked
      BY DEF Linked, Sent
    <2>6. Syncing(c)'
      BY <1>1, <1>4, <2>2, <2>4, <2>5 DEF Syncing
    <2>7. Handled(c)'
      BY <1>1, <1>6, <2>6 DEF Handled
    <2> QED
      BY <1>1, <1>2, <1>3, <1>5, <2>7, InnerStep
  <1>7. CASE call[c].kind \notin Sync
    <2>1. handler'[c].todo = Sent(c)
      BY <1>1, <1>3 DEF Sending
    <2>2. Changing(c)'
      BY <1>1, <1>4, <1>7, <2>1 DEF Changing, Loaded
    <2>3. Handled(c)'
      BY <1>1, <1>7, <2>2 DEF Handled
    <2> QED
      BY <1>1, <1>2, <1>3, <1>5, <2>3, InnerStep
  <1> QED
    BY <1>6, <1>7

LEMMA FindAgrees ==
  ASSUME TypeInv, Alone, Shown, Doing, NEW c \in Call, NEW d \in Dataset,
         Find(c, d)
  PROVE  AgreeInv'
  <1>1. /\ Step(c) /\ call' = call /\ item' = item /\ row' = row
        /\ handler[c].pc = "next" /\ handler'[c].cur = d
        /\ handler'[c].pc = IF Refused(c, d) THEN "failed" ELSE "write"
        /\ handler'[c].todo = handler[c].todo
        /\ handler'[c].old = handler[c].old
    BY FindSteps DEF Serves, store
  <1>2. Active(c)
    BY <1>1 DEF Active, Handling
  <1>3. /\ Sending(c) /\ Handled(c) /\ call[c].pc \notin {"idle", "done"}
    BY <1>2, UnderWay
  <1>4. Kept(c) /\ Sent(c)' = Sent(c)
    BY <1>1 DEF Kept, Sent
  <1>5. Sending(c)' /\ Shown'
    BY <1>1, <1>3, <1>4, SendingKept, ShownKept
  <1>6. CASE Refused(c, d)
    <2>1. Handled(c)'
      BY <1>1, <1>6, HandledStill
    <2> QED
      BY <1>1, <1>2, <1>3, <1>5, <2>1, InnerStep
  <1>7. CASE ~Refused(c, d)
    <2>1. handler'[c].pc = "write"
      BY <1>1, <1>7
    <2>2. (Refused(c, handler[c].cur))' = Refused(c, d)
      BY <1>1 DEF Refused, Operation
    <2>3. Syncing(c)' = Syncing(c) /\ Changing(c)' = Changing(c)
      BY <1>1, <1>4 DEF Syncing, Changing
    <2>4. IF call[c].kind \in Sync THEN Syncing(c) ELSE Changing(c)
      BY <1>1, <1>3 DEF Handled, Midway
    <2>5. Handled(c)'
      BY <1>1, <1>7, <2>1, <2>2, <2>3, <2>4 DEF Handled
    <2> QED
      BY <1>1, <1>2, <1>3, <1>5, <2>5, InnerStep
  <1> QED
    BY <1>6, <1>7

\* The whole catalogue: one dataset is written, the others stay.
LEMMA SyncWriteAgrees ==
  ASSUME TypeInv, Alone, Shown, Doing, NEW c \in Call, Write(c),
         call[c].kind \in Sync
  PROVE  AgreeInv'
  <1>1. PICK d \in Dataset :
           /\ d = handler[c].cur /\ d \in Upcoming(c) /\ Serves(c)
           /\ handler[c].pc = "write"
           /\ handler'[c].pc = IF call[c].kind \in Single THEN "ok" ELSE "next"
           /\ handler'[c].todo = handler[c].todo \ {d}
           /\ handler'[c].old = handler[c].old \ {d}
           /\ row' = [row EXCEPT ![d] = Written(c, d)]
    BY WriteSteps
  <1>2. Active(c) /\ handler'[c].pc = "next"
    BY <1>1 DEF Active, Handling, Single, Sync
  <1>3. /\ Sending(c) /\ Handled(c) /\ call[c].pc \notin {"idle", "done"}
        /\ handler[c].todo \subseteq Sent(c)
    BY <1>1, <1>2, UnderWay DEF TypeInv, CallShape
  <1>4. Syncing(c) /\ ~Refused(c, d)
    BY <1>1, <1>3 DEF Handled, Midway
  <1>5. d \in handler[c].todo /\ d \in Sent(c)
    BY <1>1, <1>3, <1>4 DEF Upcoming, Syncing
  <1>6. Operation(c, d) \in {"add", "update"}
    BY <1>5, OperationCases
  <1>7. Operation(c, d) = "update" => row[d] # Absent
    BY <1>4 DEF Refused
  <1>8. /\ Written(c, d) \in Row /\ Written(c, d).is = call[c].copy[d]
        /\ Written(c, d).listed /\ Written(c, d) # Absent
    <2>1. Written(c, d) \in Row /\ Written(c, d).is = call[c].copy[d]
      BY <1>5, <1>6, AddedRow, UpdatedRow
    <2>2. Written(c, d).listed
      BY <1>5, <1>6, <1>7, AddedRow, UpdatedRow DEF Shown
    <2>3. Absent \notin Row
      BY Contents DEF Row, Absent
    <2> QED
      BY <2>1, <2>2, <2>3
  <1>9. /\ row'[d] = Written(c, d) /\ item' = item
        /\ \A e \in Dataset : e # d => row'[e] = row[e]
    BY <1>1 DEF Serves, store, TypeInv, TypeOK
  <1>10. Kept(c) /\ Sent(c)' = Sent(c) /\ call' = call /\ Sent(c) \subseteq Dataset
    BY <1>1 DEF Serves, Kept, Sent
  <1>11. Shown'
    BY <1>3, <1>5, <1>8, <1>9 DEF Shown, Sending
  <1>12. Sending(c)'
    BY <1>3, <1>9, <1>10, SendingKept
  <1>13. Syncing(c)'
    <2>1. \A e \in Sent(c) \ handler'[c].todo :
            row'[e] # Absent /\ row'[e].is = call[c].copy[e]
      BY <1>1, <1>4, <1>8, <1>9, <1>10 DEF Syncing
    <2>2. handler[c].todo \subseteq Dataset
      BY <1>3, <1>10
    <2>3. \A e \in handler'[c].old : row'[e].linked /\ e \in handler'[c].todo
      BY <1>1, <1>4, <1>9, <2>2 DEF Syncing
    <2>4. \A e \in handler'[c].todo : row'[e].linked => e \in handler'[c].old
      BY <1>1, <1>4, <1>9, <2>2 DEF Syncing
    <2> QED
      BY <1>10, <2>1, <2>3, <2>4 DEF Syncing
  <1>14. Handled(c)'
    BY <1>2, <1>10, <1>13 DEF Handled
  <1> QED
    BY <1>1, <1>2, <1>3, <1>10, <1>11, <1>12, <1>14, InnerStep DEF Serves

LEMMA SingleWriteAgrees ==
  ASSUME TypeInv, Alone, Shown, Doing, NEW c \in Call, Write(c),
         call[c].kind \in Single
  PROVE  AgreeInv'
  <1>1. PICK d \in Dataset :
           /\ d = handler[c].cur /\ d \in Upcoming(c) /\ Serves(c)
           /\ handler[c].pc = "write"
           /\ handler'[c].pc = IF call[c].kind \in Single THEN "ok" ELSE "next"
           /\ row' = [row EXCEPT ![d] = Written(c, d)]
    BY WriteSteps
  <1>2. Active(c) /\ handler'[c].pc = "ok" /\ call[c].kind \notin Sync
    BY <1>1 DEF Active, Handling, Single, Sync
  <1>3. /\ Sending(c) /\ Handled(c) /\ call[c].pc \notin {"idle", "done"}
        /\ call[c].todo = {}
    BY <1>1, <1>2, UnderWay DEF TypeInv, CallShape
  <1>4. Changing(c) /\ ~Refused(c, d)
    BY <1>1, <1>2, <1>3 DEF Handled, Midway
  <1>5. d = call[c].on
    BY <1>1, <1>3, <1>4 DEF Upcoming, Changing, Sending, Single
  <1>6. /\ row'[d] = Written(c, d) /\ item' = item
        /\ \A e \in Dataset : e # d => row'[e] = row[e]
    BY <1>1 DEF Serves, store, TypeInv, TypeOK
  <1>7. Kept(c) /\ call' = call
    BY <1>1 DEF Serves, Kept
  <1>8. Sending(c)'
    BY <1>3, <1>6, <1>7, SendingKept
  <1>9. About(c)' = {d}
    BY <1>2, <1>5, <1>7 DEF About
  <1>10. CASE call[c].kind = "remove"
    <2>1. Operation(c, d) = "remove"
      BY <1>3, <1>4, <1>10, OperationCases DEF Changing, Sending
    <2>2. row'[d] = Absent
      BY <1>6, <2>1, RemovedRow
    <2>3. Shown'
      BY <1>6, <2>2 DEF Shown
    <2>4. Handled(c)'
      BY <1>2, <1>5, <1>7, <1>10, <2>2 DEF Handled, Midway
    <2> QED
      BY <1>1, <1>2, <1>3, <1>7, <1>8, <2>3, <2>4, InnerStep DEF Serves
  <1>11. CASE call[c].kind \in {"add", "update"}
    <2>1. /\ Sent(c) = {d} /\ item[d] = call[c].copy[d] /\ item[d] # None
          /\ handler[c].todo = {d}
      BY <1>3, <1>4, <1>5, <1>11 DEF Sending, Changing
    <2>2. /\ call[c].kind = "add" => Operation(c, d) = "add"
          /\ call[c].kind = "update" => Operation(c, d) = "update"
      BY <1>4, <1>5, <2>1, OperationCases DEF Changing
    <2>3. call[c].kind = "update" => row[d] # Absent /\ row[d].linked
      BY <1>4, <2>2 DEF Refused
    <2>4. /\ Written(c, d) \in Row /\ Written(c, d).is = call[c].copy[d]
          /\ Written(c, d).linked /\ Written(c, d).listed
      <3>1. CASE call[c].kind = "add"
        BY <2>1, <2>2, <3>1, AddedRow
      <3>2. CASE call[c].kind = "update"
        BY <2>1, <2>2, <2>3, <3>2, UpdatedRow DEF Shown
      <3> QED
        BY <1>11, <3>1, <3>2
    <2>5. Shown'
      BY <1>6, <2>1, <2>4 DEF Shown
    <2>6. row'[d] = [is |-> item'[d], linked |-> TRUE, listed |-> TRUE]
      BY <1>6, <2>1, <2>4, FullRow
    <2>7. Agree(d)'
      BY <1>6, <2>1, <2>6 DEF Agree
    <2>8. (\A e \in About(c) : Agree(e))'
      BY <1>9, <2>7
    <2>9. Handled(c)'
      BY <1>2, <1>7, <1>11, <2>8 DEF Handled, Midway
    <2> QED
      BY <1>1, <1>2, <1>3, <1>7, <1>8, <2>5, <2>9, InnerStep DEF Serves
  <1> QED
    BY <1>10, <1>11 DEF Single

LEMMA LinkAgrees ==
  ASSUME TypeInv, Alone, Shown, Doing, NEW c \in Call, Link(c)
  PROVE  AgreeInv'
  <1>1. /\ Step(c) /\ call' = call /\ item' = item
        /\ handler[c].pc = "next" /\ Upcoming(c) = {} /\ handler'[c].pc = "ok"
    BY LinkSteps DEF Serves, store
  <1>2. Active(c)
    BY <1>1 DEF Active, Handling
  <1>3. /\ Sending(c) /\ Handled(c) /\ call[c].kind \in Single \cup Sync
        /\ call[c].pc \notin {"idle", "done"} /\ call[c].todo = {}
    BY <1>1, <1>2, UnderWay DEF TypeInv, CallShape
  <1>4. handler[c].todo = {} /\ handler[c].old = {}
    BY <1>1 DEF Upcoming
  <1>5. call[c].kind \in Sync
    <2> SUFFICES ASSUME call[c].kind \notin Sync
                 PROVE  FALSE
      OBVIOUS
    <2>1. Changing(c)
      BY <1>1, <1>3 DEF Handled, Midway
    <2> QED
      BY <1>3, <1>4, <2>1 DEF Changing, Sending, Single
  <1>6. Syncing(c)
    BY <1>1, <1>3, <1>5 DEF Handled, Midway
  <1>7. ASSUME NEW d \in Sent(c)
        PROVE  item[d] # None /\ row'[d] = [is |-> item[d], linked |-> TRUE, listed |-> TRUE]
    <2>1. d \in Dataset /\ row[d] # Absent
      BY <1>4, <1>6 DEF Syncing, Sent
    <2>2. item[d] # None /\ item[d] = call[c].copy[d]
      BY <1>3 DEF Sending
    <2>3. row[d].listed
      BY <2>1 DEF Shown
    <2>4. /\ row'[d] \in Row /\ row'[d].is = item[d]
          /\ row'[d].linked /\ row'[d].listed
      BY <2>2, <2>3, LinkRows
    <2> QED
      BY <2>2, <2>4, FullRow
  <1>8. ASSUME NEW d \in Dataset \ Sent(c)
        PROVE  item[d] = None /\ row'[d] = Absent
    <2>1. item[d] = None
      BY <1>3, <1>5 DEF Sending
    <2>2. row[d] = Absent
      BY <2>1 DEF Shown
    <2> QED
      BY <2>1, <2>2, LinkRows
  <1>9. ASSUME NEW d \in Dataset
        PROVE  /\ item[d] # None => row'[d] = [is |-> item[d], linked |-> TRUE, listed |-> TRUE]
               /\ item[d] = None => row'[d] = Absent
    BY <1>7, <1>8
  <1>10. (\A d \in Dataset : Agree(d))'
    BY <1>1, <1>9 DEF Agree
  <1>11. Shown'
    <2>1. \A x : [is |-> x, linked |-> TRUE, listed |-> TRUE].listed
      OBVIOUS
    <2>2. \A d \in Dataset : item[d] # None => row'[d].listed
      BY <1>9, <2>1
    <2> QED
      BY <1>1, <1>9, <2>2 DEF Shown
  <1>12. Kept(c)
    BY <1>1 DEF Kept
  <1>13. Sending(c)'
    BY <1>1, <1>3, <1>12, SendingKept
  <1>14. call'[c].kind # "remove" /\ About(c)' = Dataset
    BY <1>1, <1>5 DEF Sync, About
  <1>15. Handled(c)'
    BY <1>1, <1>10, <1>14 DEF Handled, Midway
  <1> QED
    BY <1>1, <1>2, <1>3, <1>11, <1>13, <1>15, InnerStep

LEMMA LoseAgrees ==
  ASSUME TypeInv, Alone, Shown, Doing, NEW c \in Call,
         LoseRequest(c) \/ LoseResponse(c)
  PROVE  AgreeInv'
  <1>1. Active(c)
    BY LoseRequestSteps, LoseResponseSteps DEF Active, Running, Handling
  <1>2. /\ Sending(c) /\ Handled(c) /\ call[c].pc \notin {"idle", "done"}
    BY <1>1, UnderWay
  <1>3. CASE LoseRequest(c)
    <2>1. /\ Step(c) /\ call' = call /\ item' = item /\ row' = row
          /\ handler'[c].pc = "failed"
      BY <1>3, LoseRequestSteps DEF Serves, store
    <2>2. Kept(c)
      BY <2>1 DEF Kept
    <2>3. Shown' /\ Sending(c)' /\ Handled(c)'
      BY <1>2, <2>1, <2>2, ShownKept, SendingKept, HandledStill
    <2> QED
      BY <1>1, <1>2, <2>1, <2>3, InnerStep
  <1>4. CASE LoseResponse(c)
    <2>1. /\ Step(c) /\ Kept(c) /\ item' = item /\ row' = row /\ handler' = handler
          /\ call'[c].todo = call[c].todo /\ call'[c].pc = "failed"
      BY <1>4, LoseResponseSteps DEF store
    <2>2. Shown' /\ Sending(c)'
      BY <1>2, <2>1, ShownKept, SendingKept
    <2>3. /\ Sent(c)' = Sent(c) /\ About(c)' = About(c)
          /\ \A d : Refused(c, d)' = Refused(c, d)
          /\ \A d : Agree(d)' = Agree(d)
      BY <2>1 DEF Sent, About, Kept, Refused, Operation, Agree
    <2>4. Syncing(c)' = Syncing(c) /\ Changing(c)' = Changing(c)
      BY <2>1, <2>3 DEF Syncing, Changing, Kept
    <2>5. Handled(c)'
      BY <1>2, <2>1, <2>3, <2>4 DEF Handled, Midway, Kept
    <2> QED
      BY <1>1, <2>1, <2>2, <2>5, InnerStep
  <1> QED
    BY <1>3, <1>4

\* A process stops: the call that is under way, if there is one, fails.
LEMMA RestartAgrees ==
  ASSUME TypeInv, Alone, Shown, Succeeded, Doing, RestartData \/ RestartControl
  PROVE  AgreeInv'
  <1>1. CASE Quiet
    <2>1. UNCHANGED <<item, row>> /\ CallsOK /\ CallsOK'
      BY RestartDataSteps, RestartControlSteps DEF store, TypeInv, TypeOK, CallsOK
    <2>2. \A c \in Call : call'[c] = call[c] /\ handler'[c] = handler[c]
      BY <1>1, RestartDataSteps, RestartControlSteps DEF Quiet
    <2>3. \A c \in Call : ~Active(c) /\ ~Active(c)' /\ About(c)' = About(c)
                         /\ Latest(c)' = Latest(c)
      BY <1>1, <2>2 DEF Quiet, Active, Running, Handling, About, Latest
    <2>4. Alone' /\ Shown' /\ Doing'
      BY <2>1, <2>2, <2>3 DEF Alone, Shown, Doing
    <2>5. Succeeded'
      BY <1>1, <2>1, <2>2, <2>3 DEF Succeeded, Agree
    <2> QED
      BY <2>4, <2>5 DEF AgreeInv, Doing
  <1>2. CASE ~Quiet
    <2>1. PICK c \in Call : Active(c)
      BY <1>2 DEF Quiet, Active
    <2>2. \A b \in Call : b # c => ~Running(b) /\ ~Handling(b)
      BY <2>1 DEF Alone, Active
    <2>3. UNCHANGED <<item, row>> /\ CallsOK'
      BY RestartDataSteps, RestartControlSteps DEF store
    <2>4. Step(c)
      BY <2>2, <2>3, RestartDataSteps, RestartControlSteps DEF Step, Others
    <2>5. /\ Sending(c) /\ Handled(c) /\ call[c].pc \notin {"idle", "done"}
      BY <2>1, UnderWay
    <2>6. Kept(c) /\ call'[c].todo = call[c].todo
      BY RestartDataSteps, RestartControlSteps DEF Kept
    <2>7. call'[c].pc \notin {"idle", "done"}
      BY <2>5, RestartDataSteps, RestartControlSteps
    <2>8. Shown' /\ Sending(c)'
      BY <2>3, <2>5, <2>6, ShownKept, SendingKept
    <2>9. CASE handler'[c] = handler[c]
      <3>1. /\ Sent(c)' = Sent(c) /\ About(c)' = About(c)
            /\ \A d : Refused(c, d)' = Refused(c, d)
            /\ \A d : Agree(d)' = Agree(d)
        BY <2>3, <2>6, <2>9 DEF Sent, About, Kept, Refused, Operation, Agree
      <3>2. Syncing(c)' = Syncing(c) /\ Changing(c)' = Changing(c)
        BY <2>3, <2>6, <2>9, <3>1 DEF Syncing, Changing, Kept
      <3>3. Handled(c)'
        BY <2>3, <2>5, <2>6, <2>9, <3>1, <3>2 DEF Handled, Midway, Kept
      <3> QED
        BY <2>1, <2>4, <2>7, <2>8, <3>3, InnerStep
    <2>10. CASE handler'[c] # handler[c]
      <3>1. handler'[c].pc = "failed"
        BY <2>10, RestartDataSteps, RestartControlSteps
      <3> QED
        BY <2>1, <2>4, <2>7, <2>8, <3>1, InnerStep, HandledStill
    <2> QED
      BY <2>9, <2>10
  <1> QED
    BY <1>1, <1>2

LEMMA AgreeStutters ==
  ASSUME AgreeInv, UNCHANGED vars
  PROVE  AgreeInv'
  <1>1. UNCHANGED <<active, item, row, call, handler, odd, trouble>>
    BY DEF vars, store, history
  <1>2. /\ \A c \in Call : /\ Active(c)' = Active(c) /\ Latest(c)' = Latest(c)
                          /\ Sent(c)' = Sent(c) /\ About(c)' = About(c)
        /\ \A c \in Call : \A d : Refused(c, d)' = Refused(c, d)
        /\ \A d : Agree(d)' = Agree(d)
    BY <1>1 DEF Active, Running, Handling, Latest, Sent, About, Refused,
                Operation, Agree
  <1>3. \A c \in Call : Sending(c)' = Sending(c) /\ Handled(c)' = Handled(c)
    BY <1>1, <1>2 DEF Sending, Handled, Midway, Syncing, Changing
  <1>4. Alone' = Alone /\ Shown' = Shown /\ Succeeded' = Succeeded
    BY <1>1, <1>2 DEF Alone, Shown, Succeeded, Quiet, Running, Handling
  <1> QED
    BY <1>1, <1>2, <1>3, <1>4 DEF AgreeInv

LEMMA AgreeInit == Init => AgreeInv
  <1> SUFFICES ASSUME Init
               PROVE  AgreeInv
    OBVIOUS
  <1>1. \A c \in Call : call[c] = NoCall /\ handler[c] = NoHandler
    BY DEF Init
  <1>2. \A c \in Call : call[c].pc = "idle" /\ ~Active(c)
    BY <1>1 DEF NoCall, NoHandler, Active, Running, Handling
  <1>3. \A d \in Dataset : row[d] = Absent
    BY DEF Init
  <1> QED
    BY <1>2, <1>3 DEF AgreeInv, Alone, Shown, Succeeded

LEMMA AgreeNext ==
  ASSUME TypeInv, AgreeInv, [Next]_vars
  PROVE  AgreeInv'
  <1>1. odd \subseteq odd'
    BY HistoryNext
  <1>2. CASE "overlap" \in odd'
    BY <1>2 DEF AgreeInv
  <1>3. CASE "overlap" \notin odd'
    <2>1. Alone /\ Shown /\ Succeeded /\ Doing
      BY <1>1, <1>3, AgreeParts
    <2>2. CASE UNCHANGED vars
      BY <2>2, AgreeStutters
    <2>3. ASSUME NEW c \in Call, NEW d \in Dataset,
                 \/ AddItem(c, d) \/ UpdateItem(c, d) \/ RemoveItem(c, d)
                 \/ SaveItem(c, d) \/ Find(c, d)
          PROVE  AgreeInv'
      BY <1>3, <2>1, <2>3, ItemAgrees, SaveItemAgrees, FindAgrees
    <2>4. ASSUME NEW c \in Call, NEW kind \in Sync, SendCatalog(c, kind)
          PROVE  AgreeInv'
      BY <1>3, <2>1, <2>4, SendCatalogAgrees
    <2>5. ASSUME NEW c \in Call, Write(c)
          PROVE  AgreeInv'
      <3>1. Active(c)
        BY <2>5, WriteSteps DEF Active, Handling
      <3>2. call[c].kind \in Single \cup Sync
        BY <2>1, <3>1, UnderWay
      <3> QED
        BY <2>1, <2>5, <3>2, SyncWriteAgrees, SingleWriteAgrees
    <2>6. ASSUME NEW c \in Call,
                 \/ Post(c) \/ Reply(c) \/ Arrive(c) \/ Link(c)
                 \/ LoseRequest(c) \/ LoseResponse(c)
          PROVE  AgreeInv'
      BY <2>1, <2>6, PostAgrees, ReplyAgrees, ArriveAgrees, LinkAgrees, LoseAgrees
    <2>7. RestartData \/ RestartControl => AgreeInv'
      BY <2>1, RestartAgrees
    <2> QED
      BY <2>2, <2>3, <2>4, <2>5, <2>6, <2>7 DEF Next
  <1> QED
    BY <1>2, <1>3

\* If no two calls overlap, then whatever is lost and whichever process stops, a
\* call that succeeded, with none since, has made the databases agree on what it
\* is about.
THEOREM SuccessfulCallsAgree == Spec => []SuccessAgrees
  <1>1. Init => TypeInv /\ AgreeInv
    BY TypeInit, AgreeInit
  <1>2. TypeInv /\ AgreeInv /\ [Next]_vars => (TypeInv /\ AgreeInv)'
    BY TypeNext, AgreeNext
  <1>3. AgreeInv => SuccessAgrees
    BY DEF AgreeInv, Succeeded, Latest, SuccessAgrees
  <1> QED
    BY <1>1, <1>2, <1>3, PTL DEF Spec

\* If no two calls overlap, a dataset is stored in the data plane before the
\* control plane offers it, and kept until it does not.
THEOREM OffersStored == Spec => []OfferedIsStored
  <1>1. Init => TypeInv /\ AgreeInv
    BY TypeInit, AgreeInit
  <1>2. TypeInv /\ AgreeInv /\ [Next]_vars => (TypeInv /\ AgreeInv)'
    BY TypeNext, AgreeNext
  <1>3. AgreeInv => OfferedIsStored
    BY DEF AgreeInv, Shown, OfferedIsStored
  <1> QED
    BY <1>1, <1>2, <1>3, PTL DEF Spec

----------------------------------------------------------------------------
(* The rows belong to their data plane.                                     *)

\* The handler of c has added or updated d in an update of the whole catalogue
\* that goes on.
Making(c, d) == /\ call[c].kind \in Sync /\ Midway(c)
                /\ d \in Sent(c) \ handler[c].todo

\* The invariant's body.
LinksOK == /\ Apart /\ Belongs /\ AllListed
           /\ \A c \in Call : Copied(c) /\ Works(c)

LEMMA BelongsMaking ==
  /\ Belongs <=> \A d \in Dataset : row[d] # Absent =>
                   row[d].linked \/ \E c \in Call : Making(c, d)
  /\ \A c \in Call : \A d : Making(c, d) => call[c].kind \in Sync /\ Midway(c)
  BY DEF Belongs, Making

\* What a handler that goes on is about.
LEMMA AtWork ==
  ASSUME TypeInv, NEW c \in Call, Midway(c)
  PROVE  /\ call[c].kind \in Single \cup Sync
         /\ call[c].kind \in Single =>
              call[c].on \in Dataset /\ call[c].kind \notin Sync
         /\ About(c) \subseteq Dataset
         /\ handler[c].todo \subseteq Sent(c) /\ handler[c].old \subseteq Dataset
  <1>1. CallShape(c) /\ call[c] \in CallType /\ handler[c] \in HandlerType
    BY DEF TypeInv, TypeOK
  <1>2. call[c].kind \in Single \cup Sync /\ handler[c].old \subseteq Dataset
    BY <1>1 DEF CallShape, CallType, HandlerType, Midway
  <1>3. handler[c].todo \subseteq Sent(c)
    BY <1>1 DEF CallShape, Midway
  <1>4. call[c].kind \in Single =>
          call[c].on \in Dataset /\ call[c].kind \notin Sync
    BY <1>1 DEF CallShape, Single, Sync
  <1> QED
    BY <1>2, <1>3, <1>4 DEF About

\* One about a single dataset does nothing to others.
LEMMA FoundUpcoming ==
  ASSUME TypeInv, NEW c \in Call, Midway(c), call[c].kind \notin Sync,
         Copied(c), Found(c)
  PROVE  Upcoming(c) = {call[c].on} /\ About(c) = {call[c].on}
  <1>1. call[c].kind \in {"add", "update", "remove"}
    BY AtWork DEF Single
  <1>2. /\ handler[c].todo = Sent(c)
        /\ handler[c].old = IF call[c].kind = "add" THEN {} ELSE {call[c].on}
    BY DEF Found, Changing
  <1>3. Upcoming(c) = {call[c].on}
    BY <1>1, <1>2 DEF Copied, Upcoming
  <1> QED
    BY <1>3 DEF About

\* What other handlers are about is as they know it.
LEMMA WorksStill ==
  ASSUME TypeInv, NEW c \in Call, Step(c), NEW b \in Call, b # c,
         Copied(b), Works(b),
         Midway(b) => \A d \in About(b) : row'[d] = row[d]
  PROVE  Copied(b)' /\ Works(b)'
  <1>1. call'[b] = call[b] /\ handler'[b] = handler[b]
    BY DEF Step, Others
  <1>2. Copied(b)'
    BY <1>1 DEF Copied, Sent
  <1>3. ASSUME Midway(b), call[b].kind \in Sync
        PROVE  Knows(b)'
    <2>1. \A d \in Dataset : row'[d] = row[d]
      BY <1>3 DEF About
    <2>2. Knows(b) /\ handler[b].old \subseteq Dataset
      BY <1>3, AtWork DEF Works
    <2> QED
      BY <1>1, <2>1, <2>2 DEF Knows, Sent
  <1>4. ASSUME Midway(b), call[b].kind \notin Sync
        PROVE  Found(b)'
    <2>1. Found(b) /\ Changing(b)'
      BY <1>1, <1>4 DEF Works, Found, Changing, Sent
    <2>2. handler[b].pc = "write" => handler[b].cur \in About(b)
      BY <1>4, <2>1, FoundUpcoming DEF TypeInv, CallShape
    <2>3. handler[b].pc = "write" => row'[handler[b].cur] = row[handler[b].cur]
      BY <1>4, <2>2
    <2>4. handler'[b].pc = "write" => ~Refused(b, handler[b].cur)'
      BY <1>1, <2>1, <2>3 DEF Found, Refused, Operation
    <2> QED
      BY <1>1, <2>1, <2>4 DEF Found
  <1> QED
    BY <1>1, <1>2, <1>3, <1>4 DEF Works, Midway

\* A step of call c, whose handler is about nothing another one is at work on.
LEMMA LinkStep ==
  ASSUME TypeInv, LinksOK, NEW c \in Call, Step(c), Copied(c)', Works(c)',
         \/ ~Midway(c)'
         \/ Midway(c) /\ About(c)' = About(c)
         \/ \A b \in Call \ {c} : Midway(b) => About(b) \cap About(c)' = {},
         \A b \in Call \ {c} :
           Midway(b) => \A d \in About(b) : row'[d] = row[d],
         \A d \in Dataset : row'[d] # Absent =>
           /\ row'[d].listed
           /\ row'[d].linked \/ Making(c, d)'
                \/ \E b \in Call \ {c} : Making(b, d)
  PROVE  LinksOK'
  <1>1. \A b \in Call \ {c} : call'[b] = call[b] /\ handler'[b] = handler[b]
    BY DEF Step, Others
  <1>2. \A b \in Call \ {c} : /\ Midway(b)' <=> Midway(b)
                              /\ About(b)' = About(b)
    BY <1>1 DEF Midway, About
  <1>3. \A b \in Call \ {c}, d \in Dataset : Making(b, d) => Making(b, d)'
    BY <1>1 DEF Making, Midway, Sent
  <1>4. Apart'
    <2>1. \A b \in Call \ {c} :
            Midway(b) /\ Midway(c)' => About(b) \cap About(c)' = {}
      BY DEF LinksOK, Apart
    <2> QED
      BY <1>2, <2>1 DEF LinksOK, Apart
  <1>5. Belongs'
    BY <1>3 DEF Belongs, Making
  <1>6. \A b \in Call \ {c} : Copied(b)' /\ Works(b)'
    BY WorksStill DEF LinksOK
  <1> QED
    BY <1>4, <1>5, <1>6 DEF LinksOK, AllListed

\* One that writes no row, of a handler that is not at work or stays as it is.
LEMMA StillLinked ==
  ASSUME TypeInv, LinksOK, row' = row, NEW c \in Call, Step(c),
         \/ ~Midway(c) /\ ~Midway(c)' /\ Copied(c)'
         \/ Kept(c) /\ handler'[c] = handler[c]
  PROVE  LinksOK'
  <1>1. \A d \in Dataset : row'[d] # Absent =>
          /\ row'[d].listed
          /\ row'[d].linked \/ \E b \in Call : Making(b, d)
    BY BelongsMaking DEF LinksOK, AllListed
  <1>2. CASE ~Midway(c) /\ ~Midway(c)' /\ Copied(c)'
    <2>1. Works(c)' /\ \A d \in Dataset : ~Making(c, d)
      BY <1>2 DEF Works, Making
    <2> QED
      BY <1>1, <1>2, <2>1, LinkStep
  <1>3. CASE Kept(c) /\ handler'[c] = handler[c]
    <2>1. /\ Sent(c)' = Sent(c) /\ About(c)' = About(c)
          /\ Midway(c)' <=> Midway(c)
          /\ \A d \in Dataset : Making(c, d)' <=> Making(c, d)
      BY <1>3 DEF Kept, Sent, About, Midway, Making
    <2>2. Copied(c)'
      BY <1>3, <2>1 DEF Kept, Copied, LinksOK
    <2>3. Works(c)'
      <3>1. Knows(c) => Knows(c)'
        BY <1>3, <2>1 DEF Knows
      <3>2. Changing(c) => Changing(c)'
        BY <1>3, <2>1 DEF Changing, Kept
      <3>3. \A d : Refused(c, d)' <=> Refused(c, d)
        BY <1>3 DEF Refused, Operation, Kept
      <3> QED
        BY <1>3, <2>1, <3>1, <3>2, <3>3 DEF LinksOK, Works, Found, Kept
    <2> QED
      BY <1>1, <2>1, <2>2, <2>3, LinkStep
  <1> QED
    BY <1>2, <1>3

LEMMA BegunLinked ==
  ASSUME TypeInv, LinksOK, row' = row, NEW c \in Call,
         NEW kind, NEW on, NEW pc, NEW copy \in Catalog, NEW todo,
         Begun(c, kind, on, pc, copy, todo),
         /\ kind \in {"add", "update"} =>
              /\ on \in Dataset /\ copy[on] # None
              /\ \A d \in Dataset : d # on => copy[d] = None
         /\ kind = "remove" => \A d \in Dataset : copy[d] = None
  PROVE  LinksOK'
  <1>1. Copied(c)'
    BY DEF Begun, Copied, Sent
  <1>2. ~Midway(c) /\ ~Midway(c)'
    BY DEF Begun, Midway
  <1> QED
    BY <1>1, <1>2, StillLinked DEF Begun

\* A handler of the whole catalogue that crosses no other one knows every row: all
\* are its data plane's.
LEMMA ArriveLinked ==
  ASSUME TypeInv, LinksOK, NEW c \in Call, Arrive(c), ~Crosses(c)
  PROVE  LinksOK'
  <1>1. /\ Step(c) /\ call' = call /\ row' = row
        /\ call[c].kind # "none" /\ call[c].kind \in Single \cup Sync
        /\ handler[c].pc = "sent" /\ handler'[c].pc = "next"
        /\ handler'[c].todo = IF call[c].kind = "remove" THEN {} ELSE Sent(c)
        /\ handler'[c].old = Loaded(c)
    BY ArriveSteps DEF Serves, TypeInv, TypeOK, CallType
  <1>2. ~Midway(c) /\ Midway(c)' /\ About(c)' = About(c) /\ Sent(c)' = Sent(c)
    BY <1>1 DEF Midway, About, Sent
  <1>3. \A b \in Call \ {c} : Midway(b) => About(b) \cap About(c) = {}
    BY DEF Crosses
  <1>4. \A d \in Dataset : row[d] # Absent =>
          row[d].linked \/ \E b \in Call \ {c} : Making(b, d)
    BY <1>2, BelongsMaking DEF LinksOK
  <1>5. Copied(c) /\ Copied(c)'
    BY <1>1, <1>2 DEF LinksOK, Copied
  <1>6. ASSUME call[c].kind \in Sync
        PROVE  Knows(c)'
    <2>1. handler'[c].todo = Sent(c) /\ handler'[c].old = Linked
      BY <1>1, <1>6 DEF Loaded, Sync
    <2>2. \A b \in Call \ {c}, d \in Dataset : ~Making(b, d)
      BY <1>3, <1>6, BelongsMaking DEF About
    <2>3. \A d \in Dataset : row[d] # Absent => d \in Linked
      BY <1>4, <2>2 DEF Linked
    <2> QED
      BY <1>1, <1>2, <2>1, <2>3 DEF Knows, Linked
  <1>7. ASSUME call[c].kind \notin Sync
        PROVE  Found(c)'
    <2>1. handler'[c].todo = Sent(c)
      BY <1>1, <1>5 DEF Copied
    <2>2. Changing(c)'
      BY <1>1, <1>2, <1>7, <2>1 DEF Changing, Loaded
    <2> QED
      BY <1>1, <2>2 DEF Found
  <1>8. Works(c)'
    BY <1>1, <1>6, <1>7 DEF Works
  <1>9. \A d \in Dataset : row'[d] # Absent =>
          /\ row'[d].listed
          /\ row'[d].linked \/ Making(c, d)'
               \/ \E b \in Call \ {c} : Making(b, d)
    BY <1>1, <1>4 DEF LinksOK, AllListed
  <1> QED
    BY <1>1, <1>2, <1>3, <1>5, <1>8, <1>9, LinkStep

\* No step of an update of the whole catalogue is refused.
LEMMA SyncNotRefused ==
  ASSUME NEW c \in Call, Knows(c), NEW d \in Dataset, d \in Upcoming(c),
         call[c].kind \in Sync
  PROVE  ~Refused(c, d)
  <1>1. \A e \in Dataset : row[e].linked => row[e] # Absent
    BY Contents
  <1>2. call[c].kind # "update"
    BY DEF Sync
  <1>3. CASE d \in handler[c].old
    <2>1. row[d] # Absent /\ Operation(c, d) # "add"
      BY <1>1, <1>3, OperationCases DEF Knows
    <2> QED
      BY <1>2, <2>1, OperationCases DEF Refused
  <1>4. CASE d \notin handler[c].old
    <2>1. d \in handler[c].todo
      BY <1>4 DEF Upcoming
    <2>2. row[d] = Absent /\ Operation(c, d) = "add"
      BY <1>4, <2>1, OperationCases DEF Knows
    <2> QED
      BY <2>2 DEF Refused
  <1> QED
    BY <1>3, <1>4

LEMMA FindLinked ==
  ASSUME TypeInv, LinksOK, NEW c \in Call, NEW d \in Dataset, Find(c, d)
  PROVE  LinksOK'
  <1>1. /\ Step(c) /\ call' = call /\ row' = row
        /\ handler[c].pc = "next" /\ d \in Upcoming(c)
        /\ handler'[c].pc = IF Refused(c, d) THEN "failed" ELSE "write"
        /\ handler'[c].cur = d
        /\ handler'[c].todo = handler[c].todo
        /\ handler'[c].old = handler[c].old
    BY FindSteps DEF Serves
  <1>2. /\ Midway(c) /\ About(c)' = About(c) /\ Sent(c)' = Sent(c)
        /\ Copied(c) /\ Copied(c)' /\ Works(c)
    BY <1>1 DEF Midway, About, Sent, LinksOK, Copied
  <1>3. Refused(c, d)' <=> Refused(c, d)
    BY <1>1 DEF Refused, Operation
  <1>4. CASE call[c].kind \in Sync
    <2>1. Knows(c) /\ ~Refused(c, d)
      BY <1>1, <1>2, <1>4, SyncNotRefused DEF Works
    <2>2. Works(c)'
      BY <1>1, <1>2, <1>4, <2>1 DEF Works, Knows
    <2>3. \A e \in Dataset : Making(c, e) => Making(c, e)'
      BY <1>1, <1>2, <2>1 DEF Making, Midway
    <2>4. \A e \in Dataset : row'[e] # Absent =>
            /\ row'[e].listed
            /\ row'[e].linked \/ Making(c, e)'
                 \/ \E b \in Call \ {c} : Making(b, e)
      BY <1>1, <2>3, BelongsMaking DEF LinksOK, AllListed
    <2> QED
      BY <1>1, <1>2, <2>2, <2>4, LinkStep
  <1>5. CASE call[c].kind \notin Sync
    <2>1. Found(c)
      BY <1>2, <1>5 DEF Works
    <2>2. Works(c)'
      BY <1>1, <1>2, <1>3, <1>5, <2>1 DEF Works, Found, Changing, Midway
    <2>3. \A e \in Dataset : ~Making(c, e)
      BY <1>5 DEF Making
    <2>4. \A e \in Dataset : row'[e] # Absent =>
            /\ row'[e].listed
            /\ row'[e].linked \/ Making(c, e)'
                 \/ \E b \in Call \ {c} : Making(b, e)
      BY <1>1, <2>3, BelongsMaking DEF LinksOK, AllListed
    <2> QED
      BY <1>1, <1>2, <2>2, <2>4, LinkStep
  <1> QED
    BY <1>4, <1>5

\* What a step of an update of the whole catalogue writes is listed, and known.
LEMMA SyncWriteLinked ==
  ASSUME TypeInv, LinksOK, NEW c \in Call, Write(c), call[c].kind \in Sync
  PROVE  LinksOK'
  <1>1. PICK d \in Dataset :
           /\ d = handler[c].cur /\ d \in Upcoming(c) /\ Serves(c)
           /\ handler[c].pc = "write"
           /\ handler'[c].pc = IF call[c].kind \in Single THEN "ok" ELSE "next"
           /\ handler'[c].todo = handler[c].todo \ {d}
           /\ handler'[c].old = handler[c].old \ {d}
           /\ row' = [row EXCEPT ![d] = Written(c, d)]
    BY WriteSteps
  <1>2. /\ Step(c) /\ call' = call /\ handler'[c].pc = "next"
        /\ Midway(c) /\ Midway(c)'
    BY <1>1 DEF Serves, Single, Sync, Midway
  <1>3. About(c) = Dataset /\ About(c)' = About(c) /\ Sent(c)' = Sent(c)
    BY <1>2 DEF About, Sent
  <1>4. Copied(c)' /\ Knows(c) /\ handler[c].todo \subseteq Sent(c)
    BY <1>2, <1>3, AtWork DEF LinksOK, Copied, Works
  <1>5. \A e \in Dataset : row'[e] = IF e = d THEN Written(c, d) ELSE row[e]
    BY <1>1 DEF TypeInv, TypeOK
  <1>6. \/ /\ d \in handler[c].todo
           /\ row'[d] \in Row /\ row'[d] # Absent /\ row'[d].listed
        \/ d \notin handler[c].todo /\ d \notin Sent(c) /\ row'[d] = Absent
    <2>1. Absent \notin Row
      BY Contents DEF Row, Absent
    <2>2. CASE d \in handler[c].todo \cap handler[c].old
      <3>1. Operation(c, d) = "update" /\ d \in Sent(c)
        BY <1>4, <2>2, OperationCases
      <3>2. row[d].listed
        BY <1>4, <2>2, Contents DEF LinksOK, AllListed, Knows
      <3> QED
        BY <1>5, <2>1, <2>2, <3>1, <3>2, UpdatedRow
    <2>3. CASE d \in handler[c].todo \ handler[c].old
      <3>1. Operation(c, d) = "add" /\ d \in Sent(c)
        BY <1>4, <2>3, OperationCases
      <3> QED
        BY <1>5, <2>1, <2>3, <3>1, AddedRow
    <2>4. CASE d \notin handler[c].todo
      <3>1. Operation(c, d) = "remove"
        BY <2>4, OperationCases
      <3>2. d \in handler[c].old /\ d \notin Sent(c)
        BY <1>1, <1>4, <2>4 DEF Upcoming, Knows
      <3> QED
        BY <1>5, <2>4, <3>1, <3>2, RemovedRow
    <2> QED
      BY <2>2, <2>3, <2>4
  <1>7. Knows(c)'
    <2>1. \A e \in handler'[c].old :
            row'[e].linked /\ (e \in Sent(c) => e \in handler'[c].todo)
      BY <1>1, <1>2, <1>4, <1>5, AtWork DEF Knows
    <2>2. \A e \in Sent(c) \ handler'[c].todo : row'[e] # Absent
      BY <1>1, <1>4, <1>5, <1>6 DEF Knows, Sent
    <2>3. \A e \in Dataset : row'[e] # Absent =>
            e \in handler'[c].old \cup (Sent(c) \ handler'[c].todo)
      BY <1>1, <1>4, <1>5, <1>6 DEF Knows
    <2> QED
      BY <1>3, <2>1, <2>2, <2>3 DEF Knows
  <1>8. Works(c)'
    BY <1>2, <1>7 DEF Works
  <1>9. \A b \in Call \ {c} : Midway(b) => \A e \in About(b) : row'[e] = row[e]
    BY <1>2, <1>3, AtWork DEF LinksOK, Apart
  <1>10. \A e \in Dataset : row'[e] # Absent =>
           /\ row'[e].listed
           /\ row'[e].linked \/ Making(c, e)'
                \/ \E b \in Call \ {c} : Making(b, e)
    <2>1. \A e \in Dataset : row'[e] # Absent => row'[e].listed
      BY <1>5, <1>6 DEF LinksOK, AllListed
    <2>2. row'[d] # Absent => Making(c, d)'
      BY <1>1, <1>2, <1>3, <1>4, <1>6 DEF Making
    <2>3. \A e \in Dataset : Making(c, e) => Making(c, e)'
      BY <1>1, <1>2, <1>3 DEF Making
    <2>4. \A e \in Dataset : e # d /\ row'[e] # Absent =>
            row'[e].linked \/ \E b \in Call : Making(b, e)
      BY <1>5, BelongsMaking DEF LinksOK
    <2> QED
      BY <2>1, <2>2, <2>3, <2>4
  <1> QED
    BY <1>2, <1>3, <1>4, <1>8, <1>9, <1>10, LinkStep

LEMMA SingleWriteLinked ==
  ASSUME TypeInv, LinksOK, NEW c \in Call, Write(c), call[c].kind \notin Sync
  PROVE  LinksOK'
  <1>1. PICK d \in Dataset :
           /\ d = handler[c].cur /\ d \in Upcoming(c) /\ Serves(c)
           /\ handler[c].pc = "write"
           /\ handler'[c].pc = IF call[c].kind \in Single THEN "ok" ELSE "next"
           /\ row' = [row EXCEPT ![d] = Written(c, d)]
    BY WriteSteps
  <1>2. Midway(c) /\ call[c].kind \in Single
    BY <1>1, AtWork DEF Midway
  <1>3. /\ Step(c) /\ call' = call /\ handler'[c].pc = "ok" /\ ~Midway(c)'
        /\ Sent(c)' = Sent(c)
    BY <1>1, <1>2 DEF Serves, Midway, Sent
  <1>4. Copied(c) /\ Copied(c)' /\ Found(c) /\ Works(c)'
    BY <1>2, <1>3 DEF LinksOK, Copied, Works
  <1>5. About(c) = {d} /\ d = call[c].on
    BY <1>1, <1>2, <1>4, FoundUpcoming
  <1>6. \A e \in Dataset : row'[e] = IF e = d THEN Written(c, d) ELSE row[e]
    BY <1>1 DEF TypeInv, TypeOK
  <1>7. /\ ~Refused(c, d) /\ handler[c].todo = Sent(c)
        /\ handler[c].old = IF call[c].kind = "add" THEN {} ELSE {d}
    BY <1>1, <1>4, <1>5 DEF Found, Changing
  <1>8. row'[d] # Absent => row'[d].linked /\ row'[d].listed
    <2>1. CASE call[c].kind = "add"
      <3>1. d \in Sent(c) /\ Operation(c, d) = "add"
        BY <1>4, <1>5, <1>7, <2>1, OperationCases DEF Copied
      <3> QED
        BY <1>6, <2>1, <3>1, AddedRow
    <2>2. CASE call[c].kind = "update"
      <3>1. d \in Sent(c) /\ Operation(c, d) = "update"
        BY <1>4, <1>5, <1>7, <2>2, OperationCases DEF Copied
      <3>2. row[d] # Absent /\ row[d].linked /\ row[d].listed
        BY <1>7, <2>2, <3>1 DEF Refused, LinksOK, AllListed
      <3> QED
        BY <1>6, <3>1, <3>2, UpdatedRow
    <2>3. CASE call[c].kind = "remove"
      <3>1. Operation(c, d) = "remove"
        BY <1>4, <1>7, <2>3, OperationCases DEF Copied
      <3> QED
        BY <1>6, <3>1, RemovedRow
    <2> QED
      BY <1>2, <2>1, <2>2, <2>3 DEF Single
  <1>9. \A b \in Call \ {c} : Midway(b) => \A e \in About(b) : row'[e] = row[e]
    BY <1>2, <1>5, <1>6, AtWork DEF LinksOK, Apart
  <1>10. \A e \in Dataset : row'[e] # Absent =>
           /\ row'[e].listed
           /\ row'[e].linked \/ Making(c, e)'
                \/ \E b \in Call \ {c} : Making(b, e)
    <2>1. \A e \in Dataset : ~Making(c, e)
      BY <1>2, AtWork DEF Making
    <2> QED
      BY <1>6, <1>8, <2>1, BelongsMaking DEF LinksOK, AllListed
  <1> QED
    BY <1>3, <1>4, <1>9, <1>10, LinkStep

\* Only a handler of the whole catalogue saves the data plane, and it knows every
\* row that it leaves.
LEMMA LinkLinked ==
  ASSUME TypeInv, LinksOK, NEW c \in Call, Link(c)
  PROVE  LinksOK'
  <1>1. /\ Step(c) /\ call' = call /\ ~Midway(c)' /\ Midway(c)
        /\ Upcoming(c) = {}
    BY LinkSteps DEF Serves, Midway
  <1>2. Copied(c)' /\ Works(c)'
    BY <1>1 DEF LinksOK, Copied, Works, Sent
  <1>3. call[c].kind \in Sync
    BY <1>1, FoundUpcoming DEF LinksOK, Works
  <1>4. Knows(c) /\ About(c) = Dataset
    BY <1>1, <1>3 DEF LinksOK, Works, About
  <1>5. handler[c].todo = {} /\ handler[c].old = {}
    BY <1>1 DEF Upcoming
  <1>6. \A d \in Dataset : row[d] # Absent <=> d \in Sent(c)
    BY <1>4, <1>5 DEF Knows, Sent
  <1>7. \A d \in Dataset : row'[d] # Absent => row'[d].linked /\ row'[d].listed
    BY <1>6, LinkRows DEF LinksOK, AllListed
  <1>8. \A b \in Call \ {c} : Midway(b) => \A d \in About(b) : row'[d] = row[d]
    BY <1>1, <1>4, AtWork DEF LinksOK, Apart
  <1> QED
    BY <1>1, <1>2, <1>7, <1>8, LinkStep

LEMMA LinkedNext ==
  ASSUME TypeInv, LinkedInv, [Next]_vars
  PROVE  LinkedInv'
  <1> SUFFICES ASSUME odd' \cap {"restart", "crossed"} = {}
               PROVE  LinksOK'
    BY DEF LinkedInv, LinksOK
  <1>1. odd \subseteq odd'
    BY HistoryNext
  <1>2. LinksOK
    BY <1>1 DEF LinkedInv, LinksOK
  <1>3. CASE UNCHANGED vars
    <2>1. row' = row /\ call' = call /\ handler' = handler
      BY <1>3 DEF vars
    <2>2. Apart' /\ Belongs' /\ AllListed'
      BY <1>2, <2>1 DEF LinksOK, Apart, Belongs, AllListed, Midway, About, Sent
    <2>3. \A c \in Call : Copied(c)' /\ Works(c)'
      BY <1>2, <2>1 DEF LinksOK, Copied, Works, Knows, Found, Changing, Midway,
                        Sent, Refused, Operation
    <2> QED
      BY <2>2, <2>3 DEF LinksOK
  <1>4. ASSUME NEW c \in Call, NEW d \in Dataset,
               \/ AddItem(c, d) \/ UpdateItem(c, d) \/ RemoveItem(c, d)
        PROVE  LinksOK'
    <2>1. /\ [Empty EXCEPT ![d] = c][d] = c /\ c # None
          /\ \A e \in Dataset : /\ Empty[e] = None
                                /\ e # d => [Empty EXCEPT ![d] = c][e] = None
      BY Contents DEF Empty
    <2> QED
      BY <1>2, <1>4, <2>1, BegunLinked, AddItemSteps, UpdateItemSteps,
         RemoveItemSteps
  <1>5. ASSUME NEW c \in Call, NEW kind \in Sync, SendCatalog(c, kind)
        PROVE  LinksOK'
    BY <1>2, <1>5, BegunLinked, SendCatalogSteps DEF Sync
  <1>6. ASSUME NEW c \in Call, NEW d \in Dataset, SaveItem(c, d)
        PROVE  LinksOK'
    BY <1>2, <1>6, SaveItemSteps, StillLinked
  <1>7. ASSUME NEW c \in Call, Post(c) \/ LoseRequest(c)
        PROVE  LinksOK'
    <2>1. row' = row /\ Step(c) /\ Kept(c)
      BY <1>7, PostSteps, LoseRequestSteps DEF Serves, Kept
    <2>2. ~Midway(c) /\ ~Midway(c)'
      BY <1>7, PostSteps, LoseRequestSteps DEF TypeInv, CallShape, Midway
    <2>3. Copied(c)'
      BY <1>2, <2>1 DEF LinksOK, Copied, Sent, Kept
    <2> QED
      BY <1>2, <2>1, <2>2, <2>3, StillLinked
  <1>8. ASSUME NEW c \in Call, Arrive(c)
        PROVE  LinksOK'
    BY <1>2, <1>8, ArriveSteps, ArriveLinked
  <1>9. ASSUME NEW c \in Call, Reply(c) \/ LoseResponse(c)
        PROVE  LinksOK'
    BY <1>2, <1>9, ReplySteps, LoseResponseSteps, StillLinked
  <1>10. CASE RestartData
    <2>1. row' = row /\ handler' = handler /\ \A c \in Call : Kept(c)
      BY <1>10, RestartDataSteps
    <2>2. Apart' /\ Belongs' /\ AllListed'
      BY <1>2, <2>1
        DEF LinksOK, Apart, Belongs, AllListed, Midway, About, Sent, Kept
    <2>3. \A c \in Call : Copied(c)' /\ Works(c)'
      <3> SUFFICES ASSUME NEW c \in Call
                   PROVE  Copied(c)' /\ Works(c)'
        OBVIOUS
      <3>1. /\ Sent(c)' = Sent(c) /\ Kept(c) /\ handler' = handler
            /\ Copied(c) /\ Works(c)
        BY <1>2, <2>1 DEF LinksOK, Sent, Kept
      <3>2. Copied(c)'
        BY <3>1 DEF Copied, Kept
      <3>3. Knows(c) => Knows(c)'
        BY <2>1, <3>1 DEF Knows
      <3>4. Changing(c) => Changing(c)'
        BY <3>1 DEF Changing, Kept
      <3>5. \A d : Refused(c, d)' <=> Refused(c, d)
        BY <2>1, <3>1 DEF Refused, Operation, Kept
      <3>6. Works(c)'
        BY <3>1, <3>3, <3>4, <3>5 DEF Works, Found, Midway, Kept
      <3> QED
        BY <3>2, <3>6
    <2> QED
      BY <2>2, <2>3 DEF LinksOK
  <1>11. ~RestartControl
    BY DEF RestartControl, Trouble
  <1>12. ASSUME NEW c \in Call, Write(c)
         PROVE  LinksOK'
    BY <1>2, <1>12, SyncWriteLinked, SingleWriteLinked
  <1> QED
    BY <1>2, <1>3, <1>4, <1>5, <1>6, <1>7, <1>8, <1>9, <1>10, <1>11, <1>12,
       FindLinked, LinkLinked DEF Next

\* Requests and answers that are lost, a data plane that stops, and calls that
\* overlap never leave a dataset in the catalogue that does not belong to its data
\* plane or is not shown: unless the control plane stops half-way, or two handlers
\* are at work on one dataset at once.
THEOREM OffersLinked == Spec => []OfferedIsLinked
  <1>1. Init => TypeInv /\ LinkedInv
    <2>1. Init => LinkedInv
      BY DEF Init, LinkedInv, Apart, Belongs, AllListed, Copied, Works, Midway,
             NoCall, NoHandler
    <2> QED
      BY <2>1, TypeInit
  <1>2. TypeInv /\ LinkedInv /\ [Next]_vars => (TypeInv /\ LinkedInv)'
    BY TypeNext, LinkedNext
  <1>3. LinkedInv => OfferedIsLinked
    <2> SUFFICES ASSUME LinkedInv, odd \cap {"restart", "crossed"} = {},
                        \A c \in Call : ~Handling(c)
                 PROVE  \A d \in Dataset :
                          row[d] # Absent => row[d].linked /\ row[d].listed
      BY DEF OfferedIsLinked
    <2>1. AllListed /\ Belongs
      BY DEF LinkedInv
    <2>2. \A c \in Call : ~Midway(c)
      BY DEF Midway, Handling
    <2> QED
      BY <2>1, <2>2 DEF AllListed, Belongs
  <1> QED
    BY <1>1, <1>2, <1>3, PTL DEF Spec
=============================================================================
