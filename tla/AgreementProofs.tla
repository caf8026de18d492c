-------------------------- MODULE AgreementProofs --------------------------
(***************************************************************************)
(* Proofs about ProjectAgreements, for any workers, any number of calls,   *)
(* failures and restarts.                                                  *)
(***************************************************************************)
EXTENDS AgreementInduction, TLAPS

USE DEF Status, SignPc, BackPc, FinalPc, SendPc, LinkPc

----------------------------------------------------------------------------
(* Types.                                                                   *)

LEMMA AbsentRow == Absent \in Row
  BY DEF Absent, Row

\* Parts of a row can be replaced.
LEMMA RowParts ==
  ASSUME NEW r \in Row
  PROVE  /\ r.status \in Status /\ r.sigs \subseteq Party
         /\ r.hash \in SignCall \cup {None} /\ r.linked \in BOOLEAN
  <1>1. r.status \in Status /\ r.sigs \subseteq Party
        /\ r.hash \in SignCall \cup {None}
    BY DEF Row
  <1>2. r.linked \in BOOLEAN
    BY Zenon DEF Row
  <1> QED
    BY <1>1, <1>2

LEMMA RowChange ==
  ASSUME NEW r \in Row, NEW s \in Status, NEW h \in SignCall \cup {None},
         NEW g \in SUBSET Party, NEW b \in BOOLEAN
  PROVE  /\ [r EXCEPT !.status = s] \in Row
         /\ [r EXCEPT !.sigs = g] \in Row
         /\ [r EXCEPT !.linked = b] \in Row
         /\ [r EXCEPT !.sigs = g, !.status = s] \in Row
         /\ [r EXCEPT !.sigs = g, !.hash = h] \in Row
         /\ [r EXCEPT !.status = s, !.hash = h, !.sigs = g] \in Row
  BY DEF Row

\* What the types say of the rows and copies.
LEMMA Typed ==
  ASSUME TypeOK
  PROVE  /\ \A p \in Party : row[p] \in Row
         /\ \A c \in SignCall : /\ sign[c].copy \in Row /\ back[c].copy \in Row
                                /\ sign[c].by \in Party
         /\ \A c \in SignCall, w \in Worker : send[c][w].copy \in Row
         /\ \A l \in LinkCall : /\ link[l].copy \in Row /\ link[l].by \in Party
                                /\ link[l].on \in BOOLEAN
         /\ Worker \subseteq Party /\ Initiator \in Party
  <1>1. \A l \in LinkCall : link[l].on \in BOOLEAN
    <2>1. \A x \in [by : Party, on : BOOLEAN, pc : LinkPc, copy : Row] :
            x.on \in BOOLEAN
      BY Zenon
    <2> QED
      BY <2>1 DEF TypeOK
  <1> QED
    BY <1>1 DEF TypeOK, Party

\* The setters keep the types.
LEMMA SetSignType ==
  ASSUME TypeOK, NEW c \in SignCall, NEW p \in Party, NEW pc \in SignPc,
         NEW r \in Row, SetSign(c, p, pc, r)
  PROVE  sign' \in [SignCall -> [by : Party, pc : SignPc, copy : Row]]
  BY DEF TypeOK, SetSign

LEMMA SetBackType ==
  ASSUME TypeOK, NEW c \in SignCall, NEW pc \in BackPc, NEW r \in Row,
         SetBack(c, pc, r)
  PROVE  back' \in [SignCall -> [pc : BackPc, copy : Row]]
  BY DEF TypeOK, SetBack

LEMMA SetSendType ==
  ASSUME TypeOK, NEW c \in SignCall, NEW w \in Worker, NEW pc \in SendPc,
         NEW r \in Row, SetSend(c, w, pc, r)
  PROVE  send' \in [SignCall -> [Worker -> [pc : SendPc, copy : Row]]]
  BY DEF TypeOK, SetSend

LEMMA SetLinkType ==
  ASSUME TypeOK, NEW l \in LinkCall, NEW p \in Party, NEW on \in BOOLEAN,
         NEW pc \in LinkPc, NEW r \in Row, SetLink(l, p, on, pc, r)
  PROVE  link' \in [LinkCall ->
           [by : Party, on : BOOLEAN, pc : LinkPc, copy : Row]]
  BY DEF TypeOK, SetLink

LEMMA SaveType ==
  ASSUME TypeOK, NEW p \in Party, NEW r \in Row, Save(p, r)
  PROVE  row' \in [Party -> Row]
  BY DEF TypeOK, Save

LEMMA StopType ==
  ASSUME TypeOK, NEW p \in Party, Stop(p), faults' \in Nat
  PROVE  TypeOK'
  <1>1. sign' \in [SignCall -> [by : Party, pc : SignPc, copy : Row]]
    BY AbsentRow DEF TypeOK, Stop, Signing
  <1>2. back' \in [SignCall -> [pc : BackPc, copy : Row]]
    BY AbsentRow DEF TypeOK, Stop
  <1>3. final' \in [SignCall -> FinalPc]
    BY DEF TypeOK, Stop
  <1>4. send' \in [SignCall -> [Worker -> [pc : SendPc, copy : Row]]]
    BY AbsentRow DEF TypeOK, Stop
  <1>5. link' \in [LinkCall ->
          [by : Party, on : BOOLEAN, pc : LinkPc, copy : Row]]
    BY AbsentRow, Typed DEF TypeOK, Stop
  <1>6. ask' \in [Worker -> SendPc]
    BY DEF TypeOK, Stop
  <1> QED
    BY <1>1, <1>2, <1>3, <1>4, <1>5, <1>6 DEF TypeOK, Stop

LEMMA TypeInit == Init => TypeOK
  BY AbsentRow, CalmAssumption DEF Init, TypeOK, Party, Unsent

\* Requests and faults.
LEMMA FaultType == TypeOK /\ Fault => faults' \in Nat
  BY DEF TypeOK, Fault

LEMMA CreateType == TypeOK /\ Create => TypeOK'
  <1> SUFFICES ASSUME TypeOK, Create PROVE TypeOK'
    OBVIOUS
  <1>1. [Absent EXCEPT !.status = "WAITING_FOR_SIGNATURES"] \in Row
    BY DEF Absent, Row
  <1>2. row' \in [Party -> Row]
    BY <1>1, SaveType, Typed DEF Create
  <1>3. ask' \in [Worker -> SendPc]
    BY DEF Create
  <1> QED
    BY <1>2, <1>3 DEF TypeOK, Create

LEMMA RequestType ==
  ASSUME TypeOK, NEW w \in Worker,
         ListenForRequest(w) \/ ReceiveRequest(w) \/ RequestFails(w)
  PROVE  TypeOK'
  <1>1. CASE ReceiveRequest(w)
    <2>1. [Absent EXCEPT !.status = "SIGNATURE_REQUESTED"] \in Row
      BY DEF Absent, Row
    <2>2. row' \in [Party -> Row]
      BY <1>1, <2>1, SaveType, Typed DEF ReceiveRequest
    <2>3. ask' \in [Worker -> SendPc]
      BY <1>1 DEF ReceiveRequest, TypeOK
    <2> QED
      BY <1>1, <2>2, <2>3 DEF TypeOK, ReceiveRequest
  <1>2. CASE RequestFails(w)
    BY <1>2, FaultType DEF TypeOK, RequestFails
  <1>3. CASE ListenForRequest(w)
    BY <1>3 DEF TypeOK, ListenForRequest
  <1> QED
    BY <1>1, <1>2, <1>3

\* A worker signs.
LEMMA SignStepType ==
  ASSUME TypeOK, NEW c \in SignCall,
         \/ \E w \in Worker : Sign(c, w)
         \/ SaveSigned(c) \/ SignFails(c)
  PROVE  TypeOK'
  <1>1. ASSUME NEW w \in Worker, Sign(c, w) PROVE TypeOK'
    <2>1. [row[w] EXCEPT !.sigs = @ \cup {w}] \in Row
      <3>1. row[w] \in Row /\ w \in Party
        BY Typed
      <3> QED
        BY <3>1, RowParts DEF Row
    <2>2. sign' \in [SignCall -> [by : Party, pc : SignPc, copy : Row]]
      BY <1>1, <2>1, SetSignType, Typed DEF Sign
    <2>3. back' \in [SignCall -> [pc : BackPc, copy : Row]]
      BY <1>1, SetBackType, AbsentRow DEF Sign
    <2> QED
      BY <1>1, <2>2, <2>3 DEF TypeOK, Sign
  <1>2. CASE SaveSigned(c)
    <2>1. [sign[c].copy EXCEPT !.status = "SIGNED"] \in Row
      BY Typed DEF Row
    <2>2. sign' \in [SignCall -> [by : Party, pc : SignPc, copy : Row]]
      BY <1>2, SetSignType, AbsentRow, Typed DEF SaveSigned
    <2>3. row' \in [Party -> Row]
      BY <1>2, <2>1, SaveType, Typed DEF SaveSigned, TypeOK
    <2> QED
      BY <1>2, <2>2, <2>3 DEF TypeOK, SaveSigned
  <1>3. CASE SignFails(c)
    <2>1. sign' \in [SignCall -> [by : Party, pc : SignPc, copy : Row]]
      BY <1>3, SetSignType, AbsentRow, Typed DEF SignFails
    <2> QED
      BY <1>3, <2>1, FaultType DEF TypeOK, SignFails
  <1> QED
    BY <1>1, <1>2, <1>3

\* The callback's handler.
LEMMA CallbackType ==
  ASSUME TypeOK, NEW c \in SignCall,
         \/ LoadForCallback(c) \/ AddSignature(c) \/ Countersign(c)
         \/ ScheduleFinalization(c) \/ CallbackFails(c)
  PROVE  TypeOK'
  <1> DEFINE b == back[c].copy
  <1>0. /\ b \in Row /\ row[Initiator] \in Row /\ sign[c].by \in Party
        /\ Initiator \in Party
        /\ b.sigs \subseteq Party
    BY Typed, RowParts
  <1>1. CASE LoadForCallback(c)
    <2>1. back' \in [SignCall -> [pc : BackPc, copy : Row]]
      BY <1>0, <1>1, SetBackType DEF LoadForCallback
    <2> QED
      BY <1>1, <2>1 DEF TypeOK, LoadForCallback
  <1>2. CASE AddSignature(c)
    <2> DEFINE g == b.sigs \cup {sign[c].by}
    <2>1. /\ [b EXCEPT !.sigs = g, !.status = "SIGNED"] \in Row
          /\ [b EXCEPT !.sigs = g] \in Row
      BY <1>0 DEF Row
    <2>2. back' \in [SignCall -> [pc : BackPc, copy : Row]]
      BY <1>2, <2>1, SetBackType, AbsentRow DEF AddSignature
    <2>3. row' \in [Party -> Row]
      BY <1>0, <1>2, <2>1, SaveType DEF AddSignature, TypeOK
    <2> QED
      BY <1>2, <2>2, <2>3 DEF TypeOK, AddSignature
  <1>3. CASE Countersign(c)
    <2> DEFINE s == [b EXCEPT !.sigs = @ \cup {Initiator}, !.hash = c]
    <2>1. s \in Row
      BY <1>0 DEF Row
    <2>2. back' \in [SignCall -> [pc : BackPc, copy : Row]]
      BY <1>3, <2>1, SetBackType DEF Countersign
    <2>3. row' \in [Party -> Row]
      BY <1>0, <1>3, <2>1, SaveType DEF Countersign
    <2> QED
      BY <1>3, <2>2, <2>3 DEF TypeOK, Countersign
  <1>4. CASE ScheduleFinalization(c)
    <2>1. back' \in [SignCall -> [pc : BackPc, copy : Row]]
      BY <1>0, <1>4, SetBackType DEF ScheduleFinalization
    <2>2. row' \in [Party -> Row]
      BY <1>0, <1>4, SaveType DEF ScheduleFinalization
    <2>3. final' \in [SignCall -> FinalPc]
      BY <1>4 DEF ScheduleFinalization, TypeOK
    <2>4. send' \in [SignCall -> [Worker -> [pc : SendPc, copy : Row]]]
      BY <1>4, AbsentRow DEF ScheduleFinalization, TypeOK
    <2> QED
      BY <1>4, <2>1, <2>2, <2>3, <2>4 DEF TypeOK, ScheduleFinalization
  <1>5. CASE CallbackFails(c)
    <2>1. back' \in [SignCall -> [pc : BackPc, copy : Row]]
      BY <1>5, SetBackType, AbsentRow DEF CallbackFails
    <2> QED
      BY <1>5, <2>1, FaultType DEF TypeOK, CallbackFails
  <1> QED
    BY <1>1, <1>2, <1>3, <1>4, <1>5

\* Finalization.
LEMMA FinalizationType ==
  ASSUME TypeOK, NEW c \in SignCall,
         \/ \E w \in Worker : \/ ListenForFinalization(c, w)
                              \/ ReceiveFinalization(c, w)
                              \/ StoreFinalization(c, w)
                              \/ FinalizationFails(c, w)
         \/ SaveFinalized(c) \/ FinalizationRejected(c)
  PROVE  TypeOK'
  <1> DEFINE b == back[c].copy
  <1>0. /\ b \in Row /\ Initiator \in Party
        /\ b.sigs \subseteq Party /\ b.hash \in SignCall \cup {None}
    BY Typed, RowParts
  <1>1. ASSUME NEW w \in Worker, ReceiveFinalization(c, w) PROVE TypeOK'
    <2>1. send' \in [SignCall -> [Worker -> [pc : SendPc, copy : Row]]]
      BY <1>1, SetSendType, Typed DEF ReceiveFinalization
    <2> QED
      BY <1>1, <2>1 DEF TypeOK, ReceiveFinalization
  <1>6. ASSUME NEW w \in Worker, ListenForFinalization(c, w) PROVE TypeOK'
    <2>1. send' \in [SignCall -> [Worker -> [pc : SendPc, copy : Row]]]
      BY <1>6, SetSendType, AbsentRow DEF ListenForFinalization
    <2> QED
      BY <1>6, <2>1 DEF TypeOK, ListenForFinalization
  <1>2. ASSUME NEW w \in Worker, StoreFinalization(c, w) PROVE TypeOK'
    <2>1. [send[c][w].copy EXCEPT !.status = "FINALIZED", !.hash = b.hash,
                                  !.sigs = b.sigs] \in Row
      BY <1>0, Typed, RowChange
    <2>2. row' \in [Party -> Row]
      BY <1>2, <2>1, SaveType, Typed DEF StoreFinalization
    <2>3. send' \in [SignCall -> [Worker -> [pc : SendPc, copy : Row]]]
      BY <1>2, SetSendType, AbsentRow DEF StoreFinalization
    <2>4. stored' \in [Worker -> SUBSET SignCall]
      BY <1>2 DEF StoreFinalization, TypeOK
    <2> QED
      BY <1>2, <2>2, <2>3, <2>4 DEF TypeOK, StoreFinalization
  <1>3. ASSUME NEW w \in Worker, FinalizationFails(c, w) PROVE TypeOK'
    <2>1. send' \in [SignCall -> [Worker -> [pc : SendPc, copy : Row]]]
      BY <1>3, SetSendType, AbsentRow DEF FinalizationFails
    <2> QED
      BY <1>3, <2>1, FaultType DEF TypeOK, FinalizationFails
  <1>4. CASE SaveFinalized(c)
    <2>1. [b EXCEPT !.status = "FINALIZED"] \in Row
      BY <1>0 DEF Row
    <2>2. row' \in [Party -> Row]
      BY <1>0, <1>4, <2>1, SaveType DEF SaveFinalized
    <2>3. final' \in [SignCall -> FinalPc]
      BY <1>4 DEF SaveFinalized, TypeOK
    <2> QED
      BY <1>4, <2>2, <2>3 DEF TypeOK, SaveFinalized
  <1>5. CASE FinalizationRejected(c)
    <2>1. faults' \in Nat
      BY <1>5, FaultType DEF FinalizationRejected, TypeOK
    <2> QED
      BY <1>0, <1>5, <2>1, StopType DEF FinalizationRejected
  <1> QED
    BY <1>1, <1>2, <1>3, <1>4, <1>5, <1>6

\* Datasets.
LEMMA LinkStepType ==
  ASSUME TypeOK, NEW l \in LinkCall,
         \/ \E p \in Party, on \in BOOLEAN : Link(l, p, on)
         \/ UpdateDataset(l) \/ SaveLink(l) \/ LinkFails(l)
  PROVE  TypeOK'
  <1>0. /\ link[l].copy \in Row /\ link[l].by \in Party
        /\ link[l].on \in BOOLEAN
    BY Typed
  <1>1. ASSUME NEW p \in Party, NEW on \in BOOLEAN, Link(l, p, on)
        PROVE  TypeOK'
    <2>1. link' \in [LinkCall ->
            [by : Party, on : BOOLEAN, pc : LinkPc, copy : Row]]
      BY <1>1, SetLinkType, Typed DEF Link
    <2> QED
      BY <1>1, <2>1 DEF TypeOK, Link
  <1>2. CASE UpdateDataset(l)
    <2>1. link' \in [LinkCall ->
            [by : Party, on : BOOLEAN, pc : LinkPc, copy : Row]]
      BY <1>0, <1>2, SetLinkType DEF UpdateDataset
    <2>2. policy' \in [Party -> BOOLEAN]
      BY <1>0, <1>2 DEF UpdateDataset, TypeOK
    <2> QED
      BY <1>2, <2>1, <2>2 DEF TypeOK, UpdateDataset
  <1>3. CASE SaveLink(l)
    <2>1. [link[l].copy EXCEPT !.linked = link[l].on] \in Row
      BY <1>0, RowChange, RowParts
    <2>2. row' \in [Party -> Row]
      BY <1>0, <1>3, <2>1, SaveType DEF SaveLink
    <2>3. link' \in [LinkCall ->
            [by : Party, on : BOOLEAN, pc : LinkPc, copy : Row]]
      BY <1>0, <1>3, SetLinkType, AbsentRow DEF SaveLink
    <2> QED
      BY <1>3, <2>2, <2>3 DEF TypeOK, SaveLink
  <1>4. CASE LinkFails(l)
    <2>1. link' \in [LinkCall ->
            [by : Party, on : BOOLEAN, pc : LinkPc, copy : Row]]
      BY <1>0, <1>4, SetLinkType, AbsentRow DEF LinkFails
    <2> QED
      BY <1>4, <2>1, FaultType DEF TypeOK, LinkFails
  <1> QED
    BY <1>1, <1>2, <1>3, <1>4

\* Every step keeps the types.
LEMMA TypeStep == TypeOK /\ [Next]_vars => TypeOK'
  <1> SUFFICES ASSUME TypeOK, [Next]_vars PROVE TypeOK'
    OBVIOUS
  <1>1. CASE Create
    BY <1>1, CreateType
  <1>2. CASE RequestsRejected
    BY <1>2, StopType, Typed DEF RequestsRejected, TypeOK
  <1>3. ASSUME NEW p \in Party, Restart(p) PROVE TypeOK'
    BY <1>3, StopType, FaultType DEF Restart
  <1>4. CASE UNCHANGED vars
    BY <1>4 DEF vars, TypeOK
  <1> QED
    BY <1>1, <1>2, <1>3, <1>4, RequestType, SignStepType, CallbackType,
       FinalizationType, LinkStepType DEF Next, Progress, Failure

\* Rows, calls, handlers and messages have the types of TypeOK.
THEOREM AgreementTypes == Spec => []TypeOK
  BY TypeInit, TypeStep, PTL DEF Spec
----------------------------------------------------------------------------
(* A hash covers all signatures, and the initiator's status all workers.    *)

\* The status, hash and signatures of a changed copy.
LEMMA Changed ==
  ASSUME NEW r \in Row, NEW s, NEW h, NEW g, NEW b
  PROVE  /\ [r EXCEPT !.status = s].status = s
         /\ [r EXCEPT !.status = s].hash = r.hash
         /\ [r EXCEPT !.status = s].sigs = r.sigs
         /\ [r EXCEPT !.sigs = g].status = r.status
         /\ [r EXCEPT !.sigs = g].hash = r.hash
         /\ [r EXCEPT !.sigs = g].sigs = g
         /\ [r EXCEPT !.linked = b].status = r.status
         /\ [r EXCEPT !.linked = b].hash = r.hash
         /\ [r EXCEPT !.linked = b].sigs = r.sigs
         /\ [r EXCEPT !.sigs = g, !.status = s].status = s
         /\ [r EXCEPT !.sigs = g, !.status = s].hash = r.hash
         /\ [r EXCEPT !.sigs = g, !.status = s].sigs = g
         /\ [r EXCEPT !.sigs = g, !.hash = h].status = r.status
         /\ [r EXCEPT !.sigs = g, !.hash = h].hash = h
         /\ [r EXCEPT !.sigs = g, !.hash = h].sigs = g
         /\ [r EXCEPT !.status = s, !.hash = h, !.sigs = g].status = s
         /\ [r EXCEPT !.status = s, !.hash = h, !.sigs = g].hash = h
         /\ [r EXCEPT !.status = s, !.hash = h, !.sigs = g].sigs = g
  BY DEF Row

LEMMA AbsentCovered == Covered(Absent) /\ Absent.status # "FINALIZED"
  BY DEF Covered, Absent

LEMMA SpreadInit == Init => SpreadInv
  <1> SUFFICES ASSUME Init PROVE SpreadInv
    OBVIOUS
  <1>1. TypeOK
    BY TypeInit
  <1>2. HashCoversAll /\ CopiesCovered
    BY AbsentCovered
    DEF Init, HashCoversAll, CopiesCovered, Covered, Absent, Unsent
  <1>3. Spread(row[Initiator]) /\ CopiesSpread
    BY AbsentCovered DEF Init, Party, Spread, CopiesSpread, Unsent
  <1>4. ASSUME NEW c \in SignCall PROVE CallbackOrder(c) /\ FinalOrder(c)
    BY DEF Init, CallbackOrder, FinalOrder, Unsent
  <1> QED
    BY <1>1, <1>2, <1>3, <1>4 DEF SpreadInv

\* A row that is saved has to be covered and, if it is the initiator's, spread.
LEMMA SaveSpread ==
  ASSUME SpreadInv, NEW p \in Party, NEW r \in Row, Save(p, r), Covered(r),
         p = Initiator => Spread(r), stored' = stored
  PROVE  HashCoversAll' /\ Spread(row[Initiator])'
  BY DEF SpreadInv, TypeOK, HashCoversAll, Covered, Spread, Save, Party

\* The callbacks' handlers and the messages, when neither they nor the signing
\* calls change.
LEMMA OthersSpread ==
  ASSUME SpreadInv,
         UNCHANGED <<back, final, send, stored>>,
         \A c \in SignCall :
           /\ Covered(sign[c].copy)'
           /\ sign'[c].pc = "posted" => sign'[c].by # Initiator
           /\ sign'[c].pc = "idle" => sign[c].pc = "idle",
         \A l \in LinkCall :
           /\ Covered(link[l].copy)'
           /\ link'[l].by = Initiator => Spread(link[l].copy)'
  PROVE  /\ CopiesCovered' /\ CopiesSpread'
         /\ \A c \in SignCall : CallbackOrder(c)' /\ FinalOrder(c)'
  BY DEF SpreadInv, CopiesCovered, CopiesSpread, Covered, Spread,
         CallbackOrder, FinalOrder

LEMMA SignSpread ==
  ASSUME SpreadInv, SpreadInv => TypeOK', NEW c \in SignCall, NEW w \in Worker,
         Sign(c, w)
  PROVE  SpreadInv'
  <1>1. w \in Party /\ w # Initiator /\ row[w] \in Row /\ Covered(row[w])
    BY PartyAssumption, Typed DEF SpreadInv, HashCoversAll, Covered
  <1> DEFINE r == [row[w] EXCEPT !.sigs = @ \cup {w}]
  <1>2. Covered(r)
    BY <1>1, Changed DEF Covered
  <1>3. sign[c].pc = "idle" /\ back[c].pc = "none"
    BY DEF Sign, SpreadInv, CallbackOrder
  <1>4. /\ sign' = [sign EXCEPT ![c] = [by |-> w, pc |-> "posted", copy |-> r]]
        /\ back' = [back EXCEPT ![c] = [pc |-> "sent", copy |-> Absent]]
        /\ UNCHANGED <<row, final, send, link, stored>>
    BY DEF Sign, SetSign, SetBack
  <1>5. final[c] = "none"
    BY <1>3 DEF SpreadInv, FinalOrder
  <1> HIDE DEF r
  <1>6. HashCoversAll' /\ Spread(row[Initiator])'
    BY <1>4 DEF SpreadInv, HashCoversAll, Spread
  <1>7. CopiesCovered' /\ CopiesSpread'
    BY <1>2, <1>4, AbsentCovered
    DEF SpreadInv, CopiesCovered, CopiesSpread, Covered, Spread, TypeOK
  <1>8. ASSUME NEW d \in SignCall PROVE CallbackOrder(d)' /\ FinalOrder(d)'
    BY <1>1, <1>3, <1>4, <1>5
    DEF SpreadInv, CallbackOrder, FinalOrder, TypeOK
  <1> QED
    BY <1>6, <1>7, <1>8 DEF SpreadInv

LEMMA SaveSignedSpread ==
  ASSUME SpreadInv, NEW c \in SignCall, SaveSigned(c) \/ SignFails(c), TypeOK'
  PROVE  SpreadInv'
  <1> DEFINE r == [sign[c].copy EXCEPT !.status = "SIGNED"]
  <1>1. /\ sign[c].pc = "posted" /\ sign[c].by \in Party
        /\ sign[c].by # Initiator /\ sign[c].copy \in Row
        /\ Covered(sign[c].copy)
    BY Typed
    DEF SaveSigned, SignFails, Signing, SpreadInv, CallbackOrder, CopiesCovered
  <1>2. Covered(r) /\ r \in Row
    BY <1>1, Changed DEF Covered, Row
  <1>3. /\ \E pc \in {"done", "failed"} : SetSign(c, sign[c].by, pc, Absent)
        /\ UNCHANGED <<back, final, send, link, stored>>
        /\ UNCHANGED row \/ Save(sign[c].by, r)
    BY DEF SaveSigned, SignFails
  <1> HIDE DEF r
  <1>4. HashCoversAll' /\ Spread(row[Initiator])'
    <2>1. CASE UNCHANGED row
      BY <1>3, <2>1 DEF SpreadInv, HashCoversAll, Spread
    <2>2. CASE Save(sign[c].by, r)
      BY <1>1, <1>2, <1>3, <2>2, SaveSpread
    <2> QED
      BY <1>3, <2>1, <2>2
  <1>5. \A d \in SignCall :
          /\ Covered(sign[d].copy)'
          /\ sign'[d].pc = "posted" => sign'[d].by # Initiator
          /\ sign'[d].pc = "idle" => sign[d].pc = "idle"
    BY <1>3, AbsentCovered
    DEF SpreadInv, CopiesCovered, CallbackOrder, Covered, SetSign, TypeOK
  <1>6. \A l \in LinkCall :
          /\ Covered(link[l].copy)'
          /\ link'[l].by = Initiator => Spread(link[l].copy)'
    BY <1>3 DEF SpreadInv, CopiesCovered, CopiesSpread, Covered, Spread
  <1>7. /\ CopiesCovered' /\ CopiesSpread'
        /\ \A d \in SignCall : CallbackOrder(d)' /\ FinalOrder(d)'
    BY <1>3, <1>5, <1>6, OthersSpread
  <1> QED
    BY <1>4, <1>7 DEF SpreadInv

\* A step of the handler of callback c, which has not answered yet.
LEMMA HandlerSpread ==
  ASSUME SpreadInv, TypeOK', NEW c \in SignCall, NEW pc \in BackPc,
         NEW r \in Row, SetBack(c, pc, r), Handling(c),
         UNCHANGED <<sign, link, stored>>,
         UNCHANGED row \/ (\E q \in Row : Save(Initiator, q) /\ Covered(q)
                                          /\ Spread(q)),
         UNCHANGED <<final, send>> \/ ScheduleFinalization(c),
         Covered(r), Spread(r), pc # "none",
         pc = "countersigning" =>
           Worker \subseteq r.sigs /\ r.status = "SIGNED",
         pc = "offering" => r.hash = c,
         ScheduleFinalization(c) => pc = "ok" /\ r.hash = c
  PROVE  SpreadInv'
  <1>1. HashCoversAll' /\ Spread(row[Initiator])'
    <2>1. CASE UNCHANGED row
      BY <2>1 DEF SpreadInv, HashCoversAll, Spread
    <2>2. ASSUME NEW q \in Row, Save(Initiator, q), Covered(q), Spread(q)
          PROVE  HashCoversAll' /\ Spread(row[Initiator])'
      BY <2>2, SaveSpread, Typed DEF SpreadInv
    <2> QED
      BY <2>1, <2>2
  <1>2. back' = [back EXCEPT ![c] = [pc |-> pc, copy |-> r]]
    BY DEF SetBack
  <1>3. final[c] = "none" /\ \A w \in Worker : send[c][w].pc = "none"
    BY DEF SpreadInv, FinalOrder, Handling, TypeOK
  <1>4. /\ \A d \in SignCall : d # c => final'[d] = final[d] /\ send'[d] = send[d]
        /\ \A w \in Worker : \/ send'[c][w] = send[c][w]
                             \/ send'[c][w] = [pc |-> "todo", copy |-> Absent]
        /\ \/ UNCHANGED <<final, send>>
           \/ pc = "ok" /\ r.hash = c /\ final'[c] = "sending"
    <2>1. CASE UNCHANGED <<final, send>>
      BY <2>1
    <2>2. CASE ScheduleFinalization(c)
      BY <2>2 DEF ScheduleFinalization, SpreadInv, TypeOK
    <2> QED
      BY <2>1, <2>2
  <1>5. CopiesCovered' /\ CopiesSpread'
    <2>1. ASSUME NEW d \in SignCall
          PROVE  Covered(back[d].copy)' /\ Spread(back[d].copy)'
      <3>1. back'[d] = IF d = c THEN [pc |-> pc, copy |-> r] ELSE back[d]
        BY <1>2 DEF SpreadInv, TypeOK
      <3> QED
        BY <3>1 DEF SpreadInv, CopiesCovered, CopiesSpread, Covered, Spread
    <2>2. ASSUME NEW d \in SignCall, NEW w \in Worker
          PROVE  Covered(send[d][w].copy)'
      <3>1. send'[d][w] = send[d][w] \/ send'[d][w].copy = Absent
        BY <1>4
      <3> QED
        BY <3>1, AbsentCovered DEF SpreadInv, CopiesCovered, Covered
    <2>3. /\ \A d \in SignCall : Covered(sign[d].copy)'
          /\ \A l \in LinkCall : Covered(link[l].copy)'
          /\ \A l \in LinkCall : link'[l].by = Initiator =>
                                    Spread(link[l].copy)'
      BY DEF SpreadInv, CopiesCovered, CopiesSpread, Covered, Spread
    <2> QED
      BY <2>1, <2>2, <2>3 DEF CopiesCovered, CopiesSpread
  <1>6. ASSUME NEW d \in SignCall PROVE CallbackOrder(d)'
    <2>1. back'[d] = IF d = c THEN [pc |-> pc, copy |-> r] ELSE back[d]
      BY <1>2 DEF SpreadInv, TypeOK
    <2>2. back[c].pc # "none"
      BY DEF Handling
    <2> QED
      BY <2>1, <2>2 DEF SpreadInv, CallbackOrder
  <1>7. ASSUME NEW d \in SignCall PROVE FinalOrder(d)'
    <2>1. back'[d] = IF d = c THEN [pc |-> pc, copy |-> r] ELSE back[d]
      BY <1>2 DEF SpreadInv, TypeOK
    <2>2. CASE d # c
      BY <1>4, <2>1, <2>2 DEF SpreadInv, FinalOrder
    <2>3. CASE d = c
      BY <1>3, <1>4, <2>1, <2>3 DEF SpreadInv, FinalOrder
    <2> QED
      BY <2>2, <2>3
  <1> QED
    BY <1>1, <1>5, <1>6, <1>7 DEF SpreadInv

LEMMA CallbackSpread ==
  ASSUME SpreadInv, TypeOK', NEW c \in SignCall,
         \/ LoadForCallback(c) \/ AddSignature(c) \/ Countersign(c)
         \/ ScheduleFinalization(c) \/ CallbackFails(c)
  PROVE  SpreadInv'
  <1> DEFINE b == back[c].copy
  <1>0. /\ b \in Row /\ row[Initiator] \in Row /\ sign[c].by \in Party
        /\ b.sigs \subseteq Party /\ b.hash \in SignCall \cup {None}
        /\ Initiator \in Party /\ Worker \subseteq Party
        /\ Covered(b) /\ Spread(b)
        /\ Covered(row[Initiator]) /\ Spread(row[Initiator])
    BY Typed, RowParts
    DEF SpreadInv, CopiesCovered, CopiesSpread, HashCoversAll, Covered
  <1>1. CASE LoadForCallback(c)
    <2>1. /\ Handling(c) /\ SetBack(c, "validating", row[Initiator])
          /\ UNCHANGED <<row, sign, link, stored, final, send>>
          /\ ~ScheduleFinalization(c)
      BY <1>1 DEF LoadForCallback, Handling, ScheduleFinalization
    <2> QED
      BY <1>0, <2>1, HandlerSpread
  <1>2. CASE AddSignature(c)
    <2> DEFINE g == b.sigs \cup {sign[c].by}
               r == [b EXCEPT !.sigs = g]
               t == [b EXCEPT !.sigs = g, !.status = "SIGNED"]
    <2>1. r \in Row /\ t \in Row
      BY <1>0 DEF Row
    <2>2. Covered(r) /\ Covered(t) /\ t.sigs = g /\ t.status = "SIGNED"
      BY <1>0, Changed DEF Covered
    <2>3. Spread(r) /\ Spread(t)
      BY <1>0, Changed DEF Spread
    <2>4. /\ Handling(c) /\ UNCHANGED <<sign, link, stored, final, send>>
          /\ \/ /\ Worker \subseteq g /\ SetBack(c, "countersigning", t)
                /\ UNCHANGED row
             \/ SetBack(c, "ok", Absent) /\ Save(Initiator, r)
      BY <1>2 DEF AddSignature, Handling
    <2>5. ~ScheduleFinalization(c)
      BY <1>2 DEF AddSignature, ScheduleFinalization
    <2> HIDE DEF r, t, g
    <2>6. CASE SetBack(c, "countersigning", t) /\ UNCHANGED row
               /\ Worker \subseteq g
      BY <2>1, <2>2, <2>3, <2>4, <2>5, <2>6, HandlerSpread
    <2>7. CASE SetBack(c, "ok", Absent) /\ Save(Initiator, r)
      BY <2>1, <2>2, <2>3, <2>4, <2>5, <2>7, HandlerSpread, AbsentCovered,
         AbsentRow DEF Spread
    <2> QED
      BY <2>4, <2>6, <2>7
  <1>3. CASE Countersign(c)
    <2> DEFINE r == [b EXCEPT !.sigs = @ \cup {Initiator}, !.hash = c]
    <2>1. r \in Row
      BY <1>0 DEF Row
    <2>2. back[c].pc = "countersigning" /\ Worker \subseteq b.sigs
          /\ b.status = "SIGNED"
      BY <1>3 DEF Countersign, SpreadInv, CallbackOrder
    <2>3. r.sigs = Party /\ r.hash = c /\ r.status = "SIGNED"
      BY <1>0, <2>2, Changed DEF Party
    <2>4. Covered(r) /\ Spread(r)
      BY <2>3, NoneAssumption DEF Covered, Spread
    <2>5. /\ Handling(c) /\ UNCHANGED <<sign, link, stored, final, send>>
          /\ SetBack(c, "offering", r) /\ Save(Initiator, r)
      BY <1>3 DEF Countersign, Handling
    <2>6. ~ScheduleFinalization(c)
      BY <2>2 DEF ScheduleFinalization
    <2> HIDE DEF r
    <2> QED
      BY <2>1, <2>3, <2>4, <2>5, <2>6, HandlerSpread
  <1>4. CASE ScheduleFinalization(c)
    <2>1. /\ back[c].pc = "offering" /\ Save(Initiator, b) /\ SetBack(c, "ok", b)
          /\ UNCHANGED <<sign, link, stored>>
      BY <1>4 DEF ScheduleFinalization
    <2>2. Handling(c) /\ b.hash = c
      BY <2>1 DEF Handling, SpreadInv, CallbackOrder
    <2> QED
      BY <1>0, <1>4, <2>1, <2>2, HandlerSpread
  <1>5. CASE CallbackFails(c)
    <2>1. /\ Handling(c) /\ SetBack(c, "failed", Absent)
          /\ UNCHANGED <<row, sign, link, stored, final, send>>
      BY <1>5 DEF CallbackFails
    <2>2. ~ScheduleFinalization(c)
      <3>1. back'[c].pc = "failed"
        BY <2>1 DEF SetBack, SpreadInv, TypeOK
      <3>2. ScheduleFinalization(c) => back'[c].pc = "ok"
        BY DEF ScheduleFinalization, SetBack, SpreadInv, TypeOK
      <3> QED
        BY <3>1, <3>2
    <2> QED
      BY <2>1, <2>2, HandlerSpread, AbsentRow, AbsentCovered DEF Spread
  <1> QED
    BY <1>1, <1>2, <1>3, <1>4, <1>5

\* A row whose status and hash say that nothing is finalized is covered.
LEMMA FreshCovered ==
  ASSUME NEW s, s # "FINALIZED"
  PROVE  /\ Covered([Absent EXCEPT !.status = s])
         /\ Spread([Absent EXCEPT !.status = s])
  BY DEF Covered, Spread, Absent

\* A step that changes neither calls, nor handlers, nor messages.
LEMMA RequestSpread ==
  ASSUME SpreadInv, TypeOK',
         Create \/ \E w \in Worker : \/ ListenForRequest(w)
                                     \/ ReceiveRequest(w) \/ RequestFails(w)
  PROVE  SpreadInv'
  <1>0. UNCHANGED <<sign, back, final, send, link, stored>>
    BY DEF Create, ListenForRequest, ReceiveRequest, RequestFails
  <1>1. HashCoversAll' /\ Spread(row[Initiator])'
    <2>1. CASE Create
      <3>1. [Absent EXCEPT !.status = "WAITING_FOR_SIGNATURES"] \in Row
        BY DEF Absent, Row
      <3> QED
        BY <2>1, <3>1, <1>0, FreshCovered, SaveSpread DEF Create, Party
    <2>2. ASSUME NEW w \in Worker, ReceiveRequest(w)
          PROVE  HashCoversAll' /\ Spread(row[Initiator])'
      <3>1. [Absent EXCEPT !.status = "SIGNATURE_REQUESTED"] \in Row
        BY DEF Absent, Row
      <3> QED
        BY <2>2, <3>1, <1>0, FreshCovered, SaveSpread
        DEF ReceiveRequest, Party
    <2>3. ASSUME NEW w \in Worker, ListenForRequest(w) \/ RequestFails(w)
          PROVE  HashCoversAll' /\ Spread(row[Initiator])'
      BY <2>3, <1>0
      DEF ListenForRequest, RequestFails, SpreadInv, HashCoversAll, Spread
    <2> QED
      BY <2>1, <2>2, <2>3
  <1>2. /\ \A c \in SignCall :
             /\ Covered(sign[c].copy)'
             /\ sign'[c].pc = "posted" => sign'[c].by # Initiator
             /\ sign'[c].pc = "idle" => sign[c].pc = "idle"
        /\ \A l \in LinkCall :
             /\ Covered(link[l].copy)'
             /\ link'[l].by = Initiator => Spread(link[l].copy)'
    BY <1>0
    DEF SpreadInv, CopiesCovered, CopiesSpread, CallbackOrder, Covered, Spread
  <1>3. /\ CopiesCovered' /\ CopiesSpread'
        /\ \A c \in SignCall : CallbackOrder(c)' /\ FinalOrder(c)'
    BY <1>0, <1>2, OthersSpread
  <1> QED
    BY <1>1, <1>3 DEF SpreadInv

\* A linking call changes its own copy and saves what it loaded.
LEMMA LinkSpread ==
  ASSUME SpreadInv, TypeOK', NEW l \in LinkCall,
         \/ \E p \in Party, on \in BOOLEAN : Link(l, p, on)
         \/ UpdateDataset(l) \/ SaveLink(l) \/ LinkFails(l)
  PROVE  SpreadInv'
  <1> DEFINE Mine(p, r) ==
               /\ r \in Row /\ Covered(r) /\ (p = Initiator => Spread(r))
  <1>0. /\ UNCHANGED <<sign, back, final, send, stored>>
        /\ link[l].by \in Party
        /\ Mine(link[l].by, link[l].copy)
    BY Typed
    DEF Link, UpdateDataset, SaveLink, LinkFails, SpreadInv, CopiesCovered,
        CopiesSpread
  <1>1. \A p \in Party : Mine(p, row[p])
    BY Typed DEF SpreadInv, HashCoversAll, Covered
  <1>2. \A p : Mine(p, Absent)
    BY AbsentCovered, AbsentRow DEF Spread
  <1>3. HashCoversAll' /\ Spread(row[Initiator])'
    <2>1. CASE SaveLink(l)
      <3> DEFINE r == [link[l].copy EXCEPT !.linked = link[l].on]
      <3>1. Save(link[l].by, r)
        BY <2>1 DEF SaveLink
      <3>2. Mine(link[l].by, r)
        <4> DEFINE q == link[l].copy
                   on == link[l].on
        <4>1. q \in Row /\ on \in BOOLEAN
          BY <1>0, Typed DEF SpreadInv
        <4> HIDE DEF q, on
        <4>2. /\ [q EXCEPT !.linked = on].status = q.status
              /\ [q EXCEPT !.linked = on].hash = q.hash
              /\ [q EXCEPT !.linked = on].sigs = q.sigs
          BY <4>1, Changed
        <4>3. [q EXCEPT !.linked = on] \in Row
          BY <4>1, RowChange, RowParts
        <4> QED
          BY <1>0, <4>2, <4>3 DEF Covered, Spread, q, on
      <3> HIDE DEF r
      <3> QED
        BY <3>1, <3>2, <1>0, SaveSpread
    <2>2. CASE UNCHANGED row
      BY <2>2, <1>0 DEF SpreadInv, HashCoversAll, Spread
    <2> QED
      BY <2>1, <2>2 DEF Link, UpdateDataset, SaveLink, LinkFails
  <1>4. \E p \in Party : \E on, pc, r : SetLink(l, p, on, pc, r) /\ Mine(p, r)
    <2>1. ASSUME NEW p \in Party, NEW on \in BOOLEAN, Link(l, p, on)
          PROVE  SetLink(l, p, on, "updating", row[p])
      BY <2>1 DEF Link
    <2>2. UpdateDataset(l) =>
            SetLink(l, link[l].by, link[l].on, "saving", link[l].copy)
      BY DEF UpdateDataset
    <2>3. SaveLink(l) \/ LinkFails(l) =>
            \E pc : SetLink(l, link[l].by, link[l].on, pc, Absent)
      BY DEF SaveLink, LinkFails
    <2> HIDE DEF Mine
    <2> QED
      BY <1>0, <1>1, <1>2, <2>1, <2>2, <2>3
  <1>5. \A m \in LinkCall :
          /\ Covered(link[m].copy)'
          /\ link'[m].by = Initiator => Spread(link[m].copy)'
    <2> PICK p \in Party : \E on, pc, r : SetLink(l, p, on, pc, r) /\ Mine(p, r)
      BY <1>4
    <2> PICK on, pc, r : SetLink(l, p, on, pc, r) /\ Mine(p, r)
      OBVIOUS
    <2> SUFFICES ASSUME NEW m \in LinkCall
                 PROVE  /\ Covered(link[m].copy)'
                        /\ link'[m].by = Initiator => Spread(link[m].copy)'
      OBVIOUS
    <2>1. link'[m] = IF m = l
                       THEN [by |-> p, on |-> on, pc |-> pc, copy |-> r]
                       ELSE link[m]
      BY DEF SetLink, SpreadInv, TypeOK
    <2> QED
      BY <2>1, <1>0 DEF SpreadInv, CopiesCovered, CopiesSpread, Covered, Spread
  <1>6. \A c \in SignCall :
          /\ Covered(sign[c].copy)'
          /\ sign'[c].pc = "posted" => sign'[c].by # Initiator
          /\ sign'[c].pc = "idle" => sign[c].pc = "idle"
    BY <1>0 DEF SpreadInv, CopiesCovered, CallbackOrder, Covered
  <1>7. /\ CopiesCovered' /\ CopiesSpread'
        /\ \A c \in SignCall : CallbackOrder(c)' /\ FinalOrder(c)'
    BY <1>0, <1>5, <1>6, OthersSpread
  <1> QED
    BY <1>3, <1>7 DEF SpreadInv

\* What workers have stored only grows, so spread copies stay spread.
LEMMA StoredGrows ==
  ASSUME NEW r, Spread(r), \A w \in Worker : stored[w] \subseteq stored'[w]
  PROVE  r.status = "FINALIZED" => \A w \in Worker : r.hash \in stored'[w]
  BY DEF Spread

\* A step of message c to worker w.
LEMMA SendSpread ==
  ASSUME SpreadInv, NEW c \in SignCall, NEW w \in Worker, NEW pc, NEW q,
         SetSend(c, w, pc, q), Covered(q), send[c][w].pc # "none",
         pc = "stored" => c \in stored'[w],
         \A v \in Worker : stored[v] \subseteq stored'[v],
         UNCHANGED <<sign, back, final, link>>
  PROVE  /\ CopiesCovered' /\ CopiesSpread'
         /\ \A d \in SignCall : CallbackOrder(d)' /\ FinalOrder(d)'
  <1>1. \A d \in SignCall, v \in Worker :
          send'[d][v] = IF d = c /\ v = w THEN [pc |-> pc, copy |-> q]
                                          ELSE send[d][v]
    BY DEF SetSend, SpreadInv, TypeOK
  <1>2. CopiesCovered'
    BY <1>1 DEF SpreadInv, CopiesCovered, Covered
  <1>3. CopiesSpread'
    <2>1. ASSUME NEW d \in SignCall PROVE Spread(back[d].copy)'
      BY StoredGrows DEF SpreadInv, CopiesSpread, Spread
    <2>2. ASSUME NEW l \in LinkCall, link'[l].by = Initiator
          PROVE  Spread(link[l].copy)'
      BY <2>2, StoredGrows DEF SpreadInv, CopiesSpread, Spread
    <2> QED
      BY <2>1, <2>2 DEF CopiesSpread
  <1>4. ASSUME NEW d \in SignCall PROVE CallbackOrder(d)' /\ FinalOrder(d)'
    <2>1. CallbackOrder(d)'
      BY DEF SpreadInv, CallbackOrder
    <2>2. FinalOrder(d)'
      BY <1>1 DEF SpreadInv, FinalOrder
    <2> QED
      BY <2>1, <2>2
  <1> QED
    BY <1>2, <1>3, <1>4

LEMMA MessageSpread ==
  ASSUME SpreadInv, TypeOK', NEW c \in SignCall, NEW w \in Worker,
         \/ ListenForFinalization(c, w) \/ ReceiveFinalization(c, w)
         \/ StoreFinalization(c, w) \/ FinalizationFails(c, w)
  PROVE  SpreadInv'
  <1>0. w \in Party /\ w # Initiator /\ Covered(row[w])
    BY PartyAssumption, Typed DEF SpreadInv, HashCoversAll, Covered
  <1>1. CASE \/ ListenForFinalization(c, w) \/ ReceiveFinalization(c, w)
             \/ FinalizationFails(c, w)
    <2>1. UNCHANGED <<row, sign, back, final, link, stored>>
      BY <1>1
      DEF ListenForFinalization, ReceiveFinalization, FinalizationFails
    <2>2. \E pc, q : /\ SetSend(c, w, pc, q) /\ Covered(q) /\ pc # "stored"
                     /\ send[c][w].pc # "none"
      BY <1>0, <1>1, AbsentCovered
      DEF ListenForFinalization, ReceiveFinalization, FinalizationFails
    <2>3. HashCoversAll' /\ Spread(row[Initiator])'
      BY <2>1 DEF SpreadInv, HashCoversAll, Spread
    <2> QED
      BY <2>1, <2>2, <2>3, SendSpread DEF SpreadInv
  <1>2. CASE StoreFinalization(c, w)
    <2> DEFINE b == back[c].copy
               r == [send[c][w].copy EXCEPT !.status = "FINALIZED",
                                            !.hash = b.hash, !.sigs = b.sigs]
    <2>1. /\ UNCHANGED <<sign, back, final, link>>
          /\ SetSend(c, w, "stored", Absent) /\ send[c][w].pc = "handling"
          /\ Save(w, r) /\ stored' = [stored EXCEPT ![w] = @ \cup {c}]
      BY <1>2 DEF StoreFinalization
    <2>2. b.hash = c /\ Covered(b)
      BY <2>1 DEF SpreadInv, FinalOrder, CopiesCovered
    <2>3. r.hash = c /\ r.sigs = Party
      BY <2>2, Typed, Changed, NoneAssumption DEF SpreadInv, Covered
    <2>4. Covered(r)
      BY <2>3, NoneAssumption DEF Covered
    <2>5. /\ c \in stored'[w]
          /\ \A v \in Worker : stored[v] \subseteq stored'[v]
      BY <2>1 DEF SpreadInv, TypeOK
    <2> HIDE DEF r
    <2>6. row'[w] = r /\ \A p \in Party : p # w => row'[p] = row[p]
      BY <2>1, <1>0 DEF Save, SpreadInv, TypeOK
    <2>7. HashCoversAll'
      BY <2>4, <2>6 DEF SpreadInv, HashCoversAll, Covered
    <2>8. Spread(row[Initiator])'
      BY <2>5, <2>6, <1>0, Typed DEF SpreadInv, Spread
    <2> QED
      BY <2>1, <2>5, <2>7, <2>8, AbsentCovered, SendSpread DEF SpreadInv
  <1> QED
    BY <1>1, <1>2

LEMMA SaveFinalizedSpread ==
  ASSUME SpreadInv, TypeOK', NEW c \in SignCall, SaveFinalized(c)
  PROVE  SpreadInv'
  <1> DEFINE b == back[c].copy
             r == [b EXCEPT !.status = "FINALIZED"]
  <1>1. /\ UNCHANGED <<sign, back, send, link, stored>>
        /\ final[c] = "sending" /\ final' = [final EXCEPT ![c] = "done"]
        /\ Save(Initiator, r) /\ \A w \in Worker : send[c][w].pc = "stored"
    BY DEF SaveFinalized
  <1>2. b \in Row /\ b.hash = c /\ Covered(b) /\ Initiator \in Party
    BY <1>1, Typed DEF SpreadInv, FinalOrder, CopiesCovered
  <1>3. r.hash = c /\ r.sigs = Party /\ r \in Row
    BY <1>2, Changed, NoneAssumption DEF Covered, Row
  <1>4. \A w \in Worker : c \in stored[w]
    BY <1>1 DEF SpreadInv, FinalOrder
  <1>5. Covered(r) /\ Spread(r)
    BY <1>3, <1>4, NoneAssumption DEF Covered, Spread
  <1> HIDE DEF r
  <1>6. HashCoversAll' /\ Spread(row[Initiator])'
    BY <1>1, <1>2, <1>3, <1>5, SaveSpread
  <1>7. CopiesCovered' /\ CopiesSpread'
    BY <1>1 DEF SpreadInv, CopiesCovered, CopiesSpread, Covered, Spread
  <1>8. ASSUME NEW d \in SignCall PROVE CallbackOrder(d)' /\ FinalOrder(d)'
    BY <1>1 DEF SpreadInv, CallbackOrder, FinalOrder, TypeOK
  <1> QED
    BY <1>6, <1>7, <1>8 DEF SpreadInv

\* A process that stops forgets copies and messages, never a row.
LEMMA StopSpread ==
  ASSUME SpreadInv, TypeOK', NEW p \in Party, Stop(p)
  PROVE  SpreadInv'
  <1>1. UNCHANGED <<row, stored>>
    BY DEF Stop
  <1>2. HashCoversAll' /\ Spread(row[Initiator])'
    BY <1>1 DEF SpreadInv, HashCoversAll, Spread
  <1>3. \A c \in SignCall :
          /\ \/ sign'[c] = sign[c]
             \/ /\ Signing(c)
                /\ sign'[c] = [by |-> p, pc |-> "failed", copy |-> Absent]
          /\ \/ back'[c] = back[c]
             \/ /\ Handling(c)
                /\ back'[c] = [pc |-> "failed", copy |-> Absent]
          /\ final'[c] = final[c]
             \/ (final[c] = "sending" /\ final'[c] = "failed")
    <2> SUFFICES ASSUME NEW c \in SignCall
                 PROVE  /\ \/ sign'[c] = sign[c]
                           \/ /\ Signing(c)
                              /\ sign'[c] = [by |-> p, pc |-> "failed",
                                             copy |-> Absent]
                        /\ \/ back'[c] = back[c]
                           \/ /\ Handling(c)
                              /\ back'[c] = [pc |-> "failed", copy |-> Absent]
                        /\ final'[c] = final[c]
                           \/ (final[c] = "sending" /\ final'[c] = "failed")
      OBVIOUS
    <2>1. sign'[c] = IF sign[c].by = p /\ Signing(c)
                       THEN [by |-> p, pc |-> "failed", copy |-> Absent]
                       ELSE sign[c]
      BY DEF Stop
    <2>2. back'[c] = IF p = Initiator /\ Handling(c)
                       THEN [pc |-> "failed", copy |-> Absent] ELSE back[c]
      BY DEF Stop
    <2>3. final'[c] = IF p = Initiator /\ final[c] = "sending"
                        THEN "failed" ELSE final[c]
      BY DEF Stop
    <2>4. \/ sign'[c] = sign[c]
          \/ /\ Signing(c)
             /\ sign'[c] = [by |-> p, pc |-> "failed", copy |-> Absent]
      BY Zenon, <2>1
    <2>5. \/ back'[c] = back[c]
          \/ /\ Handling(c)
             /\ back'[c] = [pc |-> "failed", copy |-> Absent]
      BY Zenon, <2>2
    <2>6. final'[c] = final[c]
          \/ (final[c] = "sending" /\ final'[c] = "failed")
      BY <2>3
    <2> QED
      BY <2>4, <2>5, <2>6
  <1>4. \A c \in SignCall, w \in Worker :
          \/ send'[c][w] = send[c][w]
          \/ /\ send[c][w].pc \in {"todo", "listening", "missed", "handling"}
             /\ send'[c][w] = [pc |-> "failed", copy |-> Absent]
    BY DEF Stop
  <1>5. \A l \in LinkCall : link'[l] = link[l] \/ link'[l].copy = Absent
    <2> SUFFICES ASSUME NEW l \in LinkCall
                 PROVE  link'[l] = link[l] \/ link'[l].copy = Absent
      OBVIOUS
    <2>1. \A o : [by |-> p, on |-> o, pc |-> "failed", copy |-> Absent].copy
                   = Absent
      OBVIOUS
    <2>2. link'[l] = IF link[l].by = p /\ Linking(l)
                       THEN [by |-> p, on |-> link[l].on, pc |-> "failed",
                             copy |-> Absent]
                       ELSE link[l]
      BY DEF Stop
    <2> QED
      BY Zenon, <2>1, <2>2
  <1>6. CopiesCovered'
    <2>1. ASSUME NEW c \in SignCall
          PROVE  Covered(sign[c].copy)' /\ Covered(back[c].copy)'
      <3>1. \/ sign'[c].copy = sign[c].copy
            \/ sign'[c].copy = Absent
        BY <1>3
      <3>2. \/ back'[c].copy = back[c].copy
            \/ back'[c].copy = Absent
        BY <1>3
      <3> QED
        BY <3>1, <3>2, AbsentCovered DEF SpreadInv, CopiesCovered, Covered
    <2>2. ASSUME NEW c \in SignCall, NEW w \in Worker
          PROVE  Covered(send[c][w].copy)'
      BY <1>4, AbsentCovered DEF SpreadInv, CopiesCovered, Covered
    <2>3. ASSUME NEW l \in LinkCall PROVE Covered(link[l].copy)'
      <3>1. link'[l].copy = link[l].copy \/ link'[l].copy = Absent
        BY <1>5
      <3> QED
        BY <3>1, AbsentCovered DEF SpreadInv, CopiesCovered, Covered
    <2> QED
      BY <2>1, <2>2, <2>3 DEF CopiesCovered
  <1>7. CopiesSpread'
    <2>1. ASSUME NEW c \in SignCall PROVE Spread(back[c].copy)'
      <3>1. back'[c].copy = back[c].copy \/ back'[c].copy = Absent
        BY <1>3
      <3> QED
        BY <1>1, <3>1, AbsentCovered DEF SpreadInv, CopiesSpread, Spread
    <2>2. ASSUME NEW l \in LinkCall, link'[l].by = Initiator
          PROVE  Spread(link[l].copy)'
      <3> QED
        BY <1>1, <1>5, <2>2, AbsentCovered DEF SpreadInv, CopiesSpread, Spread
    <2> QED
      BY <2>1, <2>2 DEF CopiesSpread
  <1>8. ASSUME NEW c \in SignCall PROVE CallbackOrder(c)'
    <2>1. CallbackOrder(c) /\ (sign'[c].pc = "idle" => sign[c].pc = "idle")
      BY <1>3 DEF SpreadInv, Signing
    <2>2. sign'[c].pc = "posted" => sign'[c] = sign[c]
      BY <1>3
    <2>3. CASE back'[c] = back[c]
      BY <2>1, <2>2, <2>3 DEF CallbackOrder
    <2>4. CASE Handling(c) /\ back'[c].pc = "failed"
      BY <2>1, <2>2, <2>4 DEF CallbackOrder, Handling
    <2> QED
      BY <1>3, <2>3, <2>4
  <1>9. ASSUME NEW c \in SignCall PROVE FinalOrder(c)'
    <2>1. FinalOrder(c) /\ (final'[c] # "none" <=> final[c] # "none")
      BY <1>3 DEF SpreadInv
    <2>2. final[c] # "none" => back'[c] = back[c]
      BY <1>3, <2>1 DEF FinalOrder, Handling
    <2> QED
      BY <1>1, <1>4, <2>1, <2>2 DEF FinalOrder
  <1> QED
    BY <1>2, <1>6, <1>7, <1>8, <1>9 DEF SpreadInv

LEMMA SpreadStep == SpreadInv /\ [Next]_vars => SpreadInv'
  <1> SUFFICES ASSUME SpreadInv, [Next]_vars PROVE SpreadInv'
    OBVIOUS
  <1>0. TypeOK' /\ Initiator \in Party
    BY TypeStep DEF SpreadInv, Party
  <1>1. ASSUME NEW p \in Party, Restart(p) PROVE SpreadInv'
    BY <1>0, <1>1, StopSpread DEF Restart
  <1>2. CASE RequestsRejected \/ \E c \in SignCall : FinalizationRejected(c)
    BY <1>0, <1>2, StopSpread DEF RequestsRejected, FinalizationRejected
  <1>3. CASE UNCHANGED vars
    <2>1. UNCHANGED <<row, sign, back, final, send, link, stored>>
      BY <1>3 DEF vars
    <2>2. HashCoversAll' /\ Spread(row[Initiator])'
      BY <2>1 DEF SpreadInv, HashCoversAll, Spread
    <2>3. CopiesCovered' /\ CopiesSpread'
      BY <2>1 DEF SpreadInv, CopiesCovered, CopiesSpread, Covered, Spread
    <2>4. \A c \in SignCall : CallbackOrder(c)' /\ FinalOrder(c)'
      BY <2>1 DEF SpreadInv, CallbackOrder, FinalOrder
    <2> QED
      BY <1>0, <2>2, <2>3, <2>4 DEF SpreadInv
  <1>4. ASSUME NEW c \in SignCall, NEW w \in Worker, Sign(c, w)
        PROVE  SpreadInv'
    BY <1>0, <1>4, SignSpread
  <1>5. ASSUME NEW c \in SignCall, SaveSigned(c) \/ SignFails(c)
        PROVE  SpreadInv'
    BY <1>0, <1>5, SaveSignedSpread
  <1>6. ASSUME NEW c \in SignCall,
               \/ LoadForCallback(c) \/ AddSignature(c) \/ Countersign(c)
               \/ ScheduleFinalization(c) \/ CallbackFails(c)
        PROVE  SpreadInv'
    BY <1>0, <1>6, CallbackSpread
  <1>7. ASSUME NEW c \in SignCall, NEW w \in Worker,
               \/ ListenForFinalization(c, w) \/ ReceiveFinalization(c, w)
               \/ StoreFinalization(c, w) \/ FinalizationFails(c, w)
        PROVE  SpreadInv'
    BY <1>0, <1>7, MessageSpread
  <1>8. ASSUME NEW c \in SignCall, SaveFinalized(c) PROVE SpreadInv'
    BY <1>0, <1>8, SaveFinalizedSpread
  <1>9. ASSUME NEW l \in LinkCall,
               \/ \E p \in Party, on \in BOOLEAN : Link(l, p, on)
               \/ UpdateDataset(l) \/ SaveLink(l) \/ LinkFails(l)
        PROVE  SpreadInv'
    BY <1>0, <1>9, LinkSpread
  <1>10. CASE Create \/ \E w \in Worker : \/ ListenForRequest(w)
                                         \/ ReceiveRequest(w) \/ RequestFails(w)
    BY <1>0, <1>10, RequestSpread
  <1> QED
    BY <1>1, <1>2, <1>3, <1>4, <1>5, <1>6, <1>7, <1>8, <1>9, <1>10
    DEF Next, Progress, Failure

\* The inductive invariant holds of every state.
THEOREM AgreementSpread == Spec => []SpreadInv
  BY SpreadInit, SpreadStep, PTL DEF Spec

\* Whatever copy is saved last: a row with a hash has every party's signature.
THEOREM AgreementHash == Spec => []HashCoversAll
  <1>1. SpreadInv => HashCoversAll
    BY DEF SpreadInv
  <1> QED
    BY <1>1, AgreementSpread, PTL

\* The initiator's row is FINALIZED only if every worker has stored its hash.
THEOREM AgreementFinalized == Spec => []FinalizedByAll
  <1>1. SpreadInv => FinalizedByAll
    BY DEF SpreadInv, Spread, FinalizedByAll
  <1> QED
    BY <1>1, AgreementSpread, PTL

----------------------------------------------------------------------------
(* There is one hash if nobody signs twice.                                 *)

PastNext(c) == back'[c].pc \in {"offering", "ok", "failed"}

\* What no step undoes: signing calls, and their callbacks' being past.
CallsKept ==
  \A c \in SignCall :
    /\ sign[c].pc # "idle" => sign'[c].pc # "idle" /\ sign'[c].by = sign[c].by
    /\ Past(c) => PastNext(c)

GenuineNext(sigs, own) ==
  \A w \in Worker \cap sigs : \E c \in SignCall :
    sign'[c].pc # "idle" /\ sign'[c].by = w /\ (c = own \/ PastNext(c))

LEMMA GenuineLasts ==
  ASSUME CallsKept, NEW g, NEW h, NEW own, NEW new, Genuine(g, own),
         h \cap Worker \subseteq g,
         new = own \/ own \notin SignCall \/ PastNext(own)
  PROVE  GenuineNext(h, new)
  <1> SUFFICES ASSUME NEW w \in Worker \cap h
               PROVE  \E c \in SignCall : /\ sign'[c].pc # "idle"
                                          /\ sign'[c].by = w
                                          /\ c = new \/ PastNext(c)
    BY DEF GenuineNext
  <1>1. PICK c \in SignCall : /\ sign[c].pc # "idle" /\ sign[c].by = w
                              /\ c = own \/ Past(c)
    BY DEF Genuine
  <1> QED
    BY <1>1 DEF CallsKept

\* The steps of a handler, and of a signing call, move on.
LEMMA SignMoves ==
  ASSUME SpreadInv, NEW c \in SignCall, NEW p, NEW pc, NEW r,
         SetSign(c, p, pc, r), pc # "idle",
         sign[c].pc = "idle" \/ p = sign[c].by,
         \/ back' = back
         \/ /\ sign[c].pc = "idle"
            /\ \A d \in SignCall : d # c => back'[d] = back[d]
  PROVE  CallsKept
  <1>1. /\ sign'[c].pc = pc /\ sign'[c].by = p
        /\ \A d \in SignCall : d # c => sign'[d] = sign[d]
    BY DEF SetSign, SpreadInv, TypeOK
  <1>2. sign[c].pc = "idle" => ~Past(c)
    BY DEF SpreadInv, CallbackOrder, Past
  <1> QED
    BY <1>1, <1>2 DEF CallsKept, Past, PastNext

LEMMA BackMoves ==
  ASSUME SpreadInv, NEW c \in SignCall, NEW pc, NEW r, SetBack(c, pc, r),
         sign' = sign, Past(c) => pc \in {"offering", "ok", "failed"}
  PROVE  /\ CallsKept
         /\ back'[c] = [pc |-> pc, copy |-> r]
         /\ \A d \in SignCall : d # c => back'[d] = back[d]
  <1>1. /\ back'[c] = [pc |-> pc, copy |-> r]
        /\ \A d \in SignCall : d # c => back'[d] = back[d]
    BY DEF SetBack, SpreadInv, TypeOK
  <1> QED
    BY <1>1 DEF CallsKept, Past, PastNext

\* All a step has to say of the initiator's row and its copies.
LEMMA GenuineStep ==
  ASSUME SpreadInv, SingleInv, CallsKept,
         GenuineNext(row'[Initiator].sigs, None),
         \A c \in SignCall : \/ back'[c].copy = back[c].copy
                             \/ GenuineNext(back'[c].copy.sigs, c),
         \A l \in LinkCall : link'[l].by = Initiator =>
           \/ link[l].by = Initiator /\ link'[l].copy = link[l].copy
           \/ GenuineNext(link'[l].copy.sigs, None)
  PROVE  SignaturesGenuine'
  <1>1. ASSUME NEW c \in SignCall PROVE GenuineNext(back'[c].copy.sigs, c)
    BY GenuineLasts DEF SingleInv, SignaturesGenuine
  <1>2. ASSUME NEW l \in LinkCall, link'[l].by = Initiator
        PROVE  GenuineNext(link'[l].copy.sigs, None)
    BY <1>2, GenuineLasts, NoneAssumption DEF SingleInv, SignaturesGenuine
  <1> QED
    BY <1>1, <1>2
    DEF SignaturesGenuine, Genuine, GenuineNext, Past, PastNext

\* Where every hash comes from.
LEMMA HashesFrom ==
  ASSUME NEW more,
         \A p \in Party : row'[p].hash \in Hashes \cup more,
         \A c \in SignCall : sign'[c].copy.hash \in Hashes \cup more,
         \A c \in SignCall : back'[c].copy.hash \in Hashes \cup more,
         \A l \in LinkCall : link'[l].copy.hash \in Hashes \cup more
  PROVE  Hashes' \subseteq Hashes \cup more
  BY DEF Hashes

LEMMA HashesOf ==
  /\ \A p \in Party : row[p].hash \in Hashes
  /\ \A c \in SignCall : /\ sign[c].copy.hash \in Hashes
                         /\ back[c].copy.hash \in Hashes
  /\ \A l \in LinkCall : link[l].copy.hash \in Hashes
  BY DEF Hashes

\* Steps that make no hash keep what is known of them.
LEMMA SingleKept ==
  ASSUME SpreadInv, SingleInv, CallsKept, SignaturesGenuine',
         \A c \in SignCall : sign[c].pc = "idle" /\ sign'[c].pc # "idle" =>
                               sign'[c].by \in Worker,
         Hashes' \subseteq Hashes \cup {None}
  PROVE  SingleInv'
  <1>1. \A c \in SignCall : sign'[c].pc # "idle" => sign'[c].by \in Worker
    BY DEF SingleInv, CallsKept
  <1>2. SignOnce' => SignOnce
    BY DEF SignOnce, CallsKept
  <1>3. ASSUME SignOnce', Complete PROVE Complete'
    <2>1. \A w \in Worker : \E c \in SignCall :
            sign'[c].pc # "idle" /\ sign'[c].by = w
      BY <1>3 DEF Complete, CallsKept
    <2>2. ASSUME NEW c \in SignCall, sign'[c].pc # "idle" PROVE PastNext(c)
      <3>1. PICK d \in SignCall : sign[d].pc # "idle" /\ sign[d].by = sign'[c].by
        BY <1>1, <1>3, <2>2 DEF Complete
      <3>2. sign'[d].pc # "idle" /\ sign'[d].by = sign'[c].by
        BY <3>1 DEF CallsKept
      <3>3. d = c
        BY <1>3, <2>2, <3>2 DEF SignOnce
      <3> QED
        BY <1>3, <3>1, <3>3 DEF Complete, CallsKept
    <2> QED
      BY <2>1, <2>2 DEF Complete, Past, PastNext
  <1>4. ASSUME SignOnce'
        PROVE  /\ Hashes' \subseteq {None} \/ Complete'
               /\ \A g, h \in Hashes' \ {None} : g = h
    BY <1>2, <1>3, <1>4 DEF SingleInv
  <1> QED
    BY <1>1, <1>4 DEF SingleInv

\* What is saved or copied as it was.
LEMMA NothingGenuine ==
  ASSUME NEW own PROVE GenuineNext({}, own)
  BY DEF GenuineNext

LEMMA RowGenuine ==
  ASSUME SpreadInv, SingleInv, CallsKept
  PROVE  /\ GenuineNext(row[Initiator].sigs, None)
         /\ \A c \in SignCall : GenuineNext(row[Initiator].sigs, c)
  BY GenuineLasts, NoneAssumption DEF SingleInv, SignaturesGenuine

\* Steps that only change rows, or nothing.
LEMMA RowsSingle ==
  ASSUME SpreadInv, SingleInv, UNCHANGED <<sign, back, link>>,
         NEW p \in Party, NEW r \in Row,
         row' = row \/ Save(p, r),
         p = Initiator => GenuineNext(r.sigs, None),
         r.hash \in Hashes \cup {None}
  PROVE  SingleInv'
  <1>1. CallsKept
    BY DEF CallsKept, Past, PastNext
  <1>2. GenuineNext(row'[Initiator].sigs, None)
    BY <1>1, RowGenuine DEF Save, SpreadInv, TypeOK, Party
  <1>3. SignaturesGenuine'
    BY <1>1, <1>2, GenuineStep
  <1>4. \A q \in Party : row'[q].hash \in Hashes \cup {None}
    BY HashesOf DEF Save, SpreadInv, TypeOK
  <1>5. Hashes' \subseteq Hashes \cup {None}
    BY <1>4, HashesOf, HashesFrom
  <1> QED
    BY <1>1, <1>3, <1>5, SingleKept

LEMMA RequestSingle ==
  ASSUME SpreadInv, SingleInv,
         Create \/ \E w \in Worker : \/ ListenForRequest(w)
                                     \/ ReceiveRequest(w) \/ RequestFails(w)
  PROVE  SingleInv'
  <1>1. /\ Initiator \in Party /\ Worker \subseteq Party /\ Initiator \notin Worker
        /\ Absent \in Row
    BY AbsentRow, PartyAssumption DEF Party
  <1>2. CASE Create
    <2> DEFINE r == [Absent EXCEPT !.status = "WAITING_FOR_SIGNATURES"]
    <2>1. r \in Row /\ r.sigs = {} /\ r.hash = None
      BY DEF Absent, Row
    <2>2. Save(Initiator, r) /\ UNCHANGED <<sign, back, link>>
      BY <1>2 DEF Create
    <2>3. GenuineNext(r.sigs, None) /\ r.hash \in Hashes \cup {None}
      BY <2>1, NothingGenuine
    <2> HIDE DEF r
    <2> QED
      BY <1>1, <2>1, <2>2, <2>3, RowsSingle
  <1>3. ASSUME NEW w \in Worker, ReceiveRequest(w) PROVE SingleInv'
    <2> DEFINE r == [Absent EXCEPT !.status = "SIGNATURE_REQUESTED"]
    <2>1. r \in Row /\ r.hash \in Hashes \cup {None} /\ w # Initiator
      BY <1>1 DEF Absent, Row
    <2>2. Save(w, r) /\ UNCHANGED <<sign, back, link>>
      BY <1>3 DEF ReceiveRequest
    <2> HIDE DEF r
    <2> QED
      BY <1>1, <2>1, <2>2, RowsSingle
  <1>4. ASSUME NEW w \in Worker, ListenForRequest(w) \/ RequestFails(w)
        PROVE  SingleInv'
    <2>1. UNCHANGED <<row, sign, back, link>>
      BY <1>4 DEF ListenForRequest, RequestFails
    <2>2. GenuineNext(Absent.sigs, None) /\ Absent.hash \in Hashes \cup {None}
      BY NothingGenuine DEF Absent
    <2> QED
      BY <1>1, <2>1, <2>2, RowsSingle
  <1> QED
    BY <1>2, <1>3, <1>4

\* The finalization: the initiator's copy belongs to a handler that is past.
LEMMA FinalSingle ==
  ASSUME SpreadInv, SingleInv, NEW c \in SignCall,
         \/ \E w \in Worker : \/ ListenForFinalization(c, w)
                              \/ ReceiveFinalization(c, w)
                              \/ StoreFinalization(c, w)
                              \/ FinalizationFails(c, w)
         \/ SaveFinalized(c)
  PROVE  SingleInv'
  <1>1. /\ Initiator \in Party /\ Worker \subseteq Party /\ Initiator \notin Worker
        /\ Absent \in Row
    BY AbsentRow, PartyAssumption DEF Party
  <1>2. back[c].copy \in Row /\ \A w \in Worker : send[c][w].copy \in Row
    BY Typed DEF SpreadInv
  <1>3. ASSUME NEW w \in Worker, StoreFinalization(c, w) PROVE SingleInv'
    <2> DEFINE r == [send[c][w].copy EXCEPT !.status = "FINALIZED",
                       !.hash = back[c].copy.hash, !.sigs = back[c].copy.sigs]
    <2>1. r \in Row /\ r.hash \in Hashes \cup {None} /\ w # Initiator
      BY <1>1, <1>2, HashesOf DEF Row
    <2>2. Save(w, r) /\ UNCHANGED <<sign, back, link>>
      BY <1>3 DEF StoreFinalization
    <2> HIDE DEF r
    <2> QED
      BY <1>1, <2>1, <2>2, RowsSingle
  <1>4. ASSUME NEW w \in Worker,
               \/ ListenForFinalization(c, w) \/ ReceiveFinalization(c, w)
               \/ FinalizationFails(c, w)
        PROVE  SingleInv'
    <2>1. UNCHANGED <<row, sign, back, link>>
      BY <1>4
      DEF ListenForFinalization, ReceiveFinalization, FinalizationFails
    <2>2. GenuineNext(Absent.sigs, None) /\ Absent.hash \in Hashes \cup {None}
      BY NothingGenuine DEF Absent
    <2> QED
      BY <1>1, <2>1, <2>2, RowsSingle
  <1>5. CASE SaveFinalized(c)
    <2> DEFINE r == [back[c].copy EXCEPT !.status = "FINALIZED"]
    <2>1. r \in Row /\ r.hash = back[c].copy.hash /\ r.sigs = back[c].copy.sigs
      BY <1>2 DEF Row
    <2>2. Save(Initiator, r) /\ UNCHANGED <<sign, back, link>>
      BY <1>5 DEF SaveFinalized
    <2>3. CallsKept /\ PastNext(c)
      BY <1>5, <2>2 DEF CallsKept, Past, PastNext, SaveFinalized, SpreadInv,
         FinalOrder
    <2>4. Genuine(back[c].copy.sigs, c)
      BY DEF SingleInv, SignaturesGenuine
    <2>5. GenuineNext(back[c].copy.sigs, None)
      BY <2>3, <2>4, GenuineLasts
    <2> HIDE DEF r
    <2> QED
      BY <1>1, <2>1, <2>2, <2>5, RowsSingle, HashesOf
  <1> QED
    BY <1>3, <1>4, <1>5

\* A worker signs, and saves what it has signed.
LEMMA SignSingle ==
  ASSUME SpreadInv, SingleInv, NEW c \in SignCall,
         (\E w \in Worker : Sign(c, w)) \/ SaveSigned(c) \/ SignFails(c)
  PROVE  SingleInv'
  <1>1. /\ Initiator \in Party /\ Worker \subseteq Party /\ Initiator \notin Worker
        /\ Absent \in Row /\ Absent.sigs = {} /\ Absent.hash = None
    BY AbsentRow, PartyAssumption DEF Party, Absent
  <1>2. sign[c].copy \in Row /\ sign[c].by \in Party
        /\ \A p \in Party : row[p] \in Row
    BY Typed DEF SpreadInv
  <1>3. ASSUME NEW w \in Worker, Sign(c, w) PROVE SingleInv'
    <2> DEFINE r == [row[w] EXCEPT !.sigs = @ \cup {w}]
    <2>1. r \in Row /\ r.hash = row[w].hash
      BY <1>1, <1>2 DEF Row
    <2>2. /\ SetSign(c, w, "posted", r) /\ SetBack(c, "sent", Absent)
          /\ sign[c].pc = "idle" /\ row' = row /\ link' = link
      BY <1>3 DEF Sign
    <2> HIDE DEF r
    <2>3. /\ sign'[c].by = w /\ sign'[c].copy = r
          /\ \A d \in SignCall : d # c => sign'[d] = sign[d]
          /\ back'[c].copy = Absent
          /\ \A d \in SignCall : d # c => back'[d] = back[d]
      BY <2>2 DEF SetSign, SetBack, SpreadInv, TypeOK
    <2>4. CallsKept
      BY <2>2, <2>3, SignMoves
    <2>5. SignaturesGenuine'
      BY <1>1, <2>2, <2>3, <2>4, GenuineStep, RowGenuine, NothingGenuine
    <2>6. Hashes' \subseteq Hashes \cup {None}
      <3>1. \A d \in SignCall : /\ sign'[d].copy.hash \in Hashes
                                /\ back'[d].copy.hash \in Hashes \cup {None}
        BY <1>1, <2>1, <2>3, HashesOf
      <3> QED
        BY <2>2, <3>1, HashesOf, HashesFrom
    <2> QED
      BY <2>2, <2>3, <2>4, <2>5, <2>6, SingleKept
  <1>4. CASE SaveSigned(c) \/ SignFails(c)
    <2> DEFINE p == sign[c].by
               r == [sign[c].copy EXCEPT !.status = "SIGNED"]
    <2>1. r \in Row /\ r.hash = sign[c].copy.hash
      BY <1>2 DEF Row
    <2>2. /\ row' = row \/ Save(p, r)
          /\ sign[c].pc = "posted" /\ UNCHANGED <<back, link>>
          /\ SetSign(c, p, "done", Absent) \/ SetSign(c, p, "failed", Absent)
      BY <1>4 DEF SaveSigned, SignFails, Signing
    <2>3. p \in Party /\ p # Initiator
      BY <1>2, <2>2 DEF SpreadInv, CallbackOrder
    <2> HIDE DEF p, r
    <2>4. /\ sign'[c].copy = Absent /\ sign[c].by = p
          /\ \A d \in SignCall : d # c => sign'[d] = sign[d]
      BY <2>2 DEF SetSign, SpreadInv, TypeOK, p
    <2>5. CallsKept
      BY <2>2, <2>4, SignMoves
    <2>6. row'[Initiator] = row[Initiator]
          /\ \A q \in Party : row'[q].hash \in Hashes
      BY <1>1, <2>1, <2>2, <2>3, HashesOf DEF Save, SpreadInv, TypeOK
    <2>7. SignaturesGenuine'
      BY <2>2, <2>5, <2>6, GenuineStep, RowGenuine
    <2>8. Hashes' \subseteq Hashes \cup {None}
      <3>1. \A d \in SignCall : sign'[d].copy.hash \in Hashes \cup {None}
        BY <1>1, <2>4, HashesOf
      <3> QED
        BY <2>2, <2>6, <3>1, HashesOf, HashesFrom
    <2>9. \A d \in SignCall : sign[d].pc = "idle" => sign'[d].pc = "idle"
      BY <2>2, <2>4
    <2> QED
      BY <2>5, <2>7, <2>8, <2>9, SingleKept
  <1> QED
    BY <1>3, <1>4

\* The handler of a callback; only a countersignature makes a hash.
LEMMA BackSingle ==
  ASSUME SpreadInv, SingleInv, NEW c \in SignCall, NEW pc, NEW r \in Row,
         SetBack(c, pc, r), UNCHANGED <<sign, link>>,
         Past(c) => pc \in {"offering", "ok", "failed"},
         GenuineNext(r.sigs, c), GenuineNext(row'[Initiator].sigs, None),
         r.hash \in Hashes \cup {None},
         \A p \in Party : row'[p].hash \in Hashes
  PROVE  SingleInv'
  <1>1. /\ CallsKept
        /\ back'[c] = [pc |-> pc, copy |-> r]
        /\ \A d \in SignCall : d # c => back'[d] = back[d]
    BY BackMoves
  <1>2. SignaturesGenuine'
    BY <1>1, GenuineStep
  <1>3. Hashes' \subseteq Hashes \cup {None}
    <2>1. \A d \in SignCall : back'[d].copy.hash \in Hashes \cup {None}
      BY <1>1, HashesOf
    <2> QED
      BY <2>1, HashesOf, HashesFrom
  <1> QED
    BY <1>1, <1>2, <1>3, SingleKept

LEMMA CallbackSingle ==
  ASSUME SpreadInv, SingleInv, NEW c \in SignCall,
         \/ LoadForCallback(c) \/ AddSignature(c)
         \/ ScheduleFinalization(c) \/ CallbackFails(c)
  PROVE  SingleInv'
  <1>1. /\ Initiator \in Party /\ row[Initiator] \in Row /\ back[c].copy \in Row
        /\ Absent \in Row /\ Absent.sigs = {} /\ Absent.hash = None
        /\ Genuine(back[c].copy.sigs, c)
    BY Typed, AbsentRow
    DEF SpreadInv, Party, Absent, SingleInv, SignaturesGenuine
  <1>2. ASSUME NEW pc, NEW r, SetBack(c, pc, r), sign' = sign,
               Past(c) => pc \in {"offering", "ok", "failed"}
        PROVE  /\ CallsKept
               /\ back'[c] = [pc |-> pc, copy |-> r]
               /\ GenuineNext(row[Initiator].sigs, None)
               /\ GenuineNext(row[Initiator].sigs, c)
               /\ pc \in {"offering", "ok", "failed"} => PastNext(c)
    <2>1. CallsKept /\ back'[c] = [pc |-> pc, copy |-> r]
      BY <1>2, BackMoves
    <2> QED
      BY <2>1, RowGenuine DEF PastNext
  <1>3. CASE LoadForCallback(c)
    <2>1. /\ SetBack(c, "validating", row[Initiator]) /\ row' = row
          /\ UNCHANGED <<sign, link>> /\ ~Past(c)
      BY <1>3 DEF LoadForCallback, Past
    <2>2. /\ GenuineNext(row[Initiator].sigs, None)
          /\ GenuineNext(row[Initiator].sigs, c)
      BY <1>2, <2>1
    <2> QED
      BY <1>1, <2>1, <2>2, HashesOf, BackSingle
  <1>4. CASE CallbackFails(c)
    <2>1. /\ SetBack(c, "failed", Absent) /\ row' = row
          /\ UNCHANGED <<sign, link>>
      BY <1>4 DEF CallbackFails
    <2>2. GenuineNext(row[Initiator].sigs, None) /\ GenuineNext(Absent.sigs, c)
      BY <1>1, <1>2, <2>1, NothingGenuine
    <2> QED
      BY <1>1, <2>1, <2>2, HashesOf, BackSingle
  <1>5. CASE ScheduleFinalization(c)
    <2> DEFINE r == back[c].copy
    <2>1. /\ SetBack(c, "ok", r) /\ Save(Initiator, r)
          /\ UNCHANGED <<sign, link>>
      BY <1>5 DEF ScheduleFinalization
    <2>2. CallsKept /\ PastNext(c)
      BY <1>2, <2>1
    <2>3. GenuineNext(r.sigs, None) /\ GenuineNext(r.sigs, c)
      BY <1>1, <2>2, GenuineLasts
    <2>4. /\ row'[Initiator] = r
          /\ \A p \in Party : row'[p].hash \in Hashes
      BY <1>1, <2>1, HashesOf DEF Save, SpreadInv, TypeOK
    <2>5. r \in Row /\ r.hash \in Hashes
      BY <1>1, HashesOf
    <2> HIDE DEF r
    <2> QED
      BY <2>1, <2>3, <2>4, <2>5, BackSingle
  <1>6. CASE AddSignature(c)
    <2> DEFINE g == back[c].copy.sigs \cup {sign[c].by}
    <2>1. /\ back[c].pc = "validating" /\ sign[c].pc # "idle" /\ ~Past(c)
          /\ UNCHANGED <<sign, link>>
          /\ g \subseteq Party
      BY <1>1, <1>6, Typed DEF AddSignature, SpreadInv, CallbackOrder, Past, Row
    <2>2. ASSUME CallsKept PROVE GenuineNext(g, c)
      <3>1. GenuineNext(back[c].copy.sigs, c)
        BY <1>1, <2>2, GenuineLasts
      <3> QED
        BY <2>1, <3>1 DEF GenuineNext
    <2>3. CASE Worker \subseteq g
      <3> DEFINE r == [back[c].copy EXCEPT !.sigs = g, !.status = "SIGNED"]
      <3>1. SetBack(c, "countersigning", r) /\ row' = row
        BY <1>6, <2>3 DEF AddSignature
      <3>2. r \in Row /\ r.sigs = g /\ r.hash = back[c].copy.hash
        BY <1>1, <2>1 DEF Row
      <3> HIDE DEF r
      <3>3. GenuineNext(r.sigs, c) /\ GenuineNext(row'[Initiator].sigs, None)
        BY <1>2, <2>1, <2>2, <3>1, <3>2
      <3> QED
        BY <2>1, <3>1, <3>2, <3>3, HashesOf, BackSingle
    <2>4. CASE ~(Worker \subseteq g)
      <3> DEFINE r == [back[c].copy EXCEPT !.sigs = g]
      <3>1. SetBack(c, "ok", Absent) /\ Save(Initiator, r)
        BY <1>6, <2>4 DEF AddSignature
      <3>2. r \in Row /\ r.sigs = g /\ r.hash = back[c].copy.hash
        BY <1>1, <2>1 DEF Row
      <3> HIDE DEF r
      <3>3. CallsKept /\ PastNext(c)
        BY <1>2, <2>1, <3>1
      <3>4. GenuineNext(g, None)
        BY <2>2, <3>3 DEF GenuineNext
      <3>5. /\ row'[Initiator] = r
            /\ \A p \in Party : row'[p].hash \in Hashes
        BY <1>1, <3>1, <3>2, HashesOf DEF Save, SpreadInv, TypeOK
      <3>6. GenuineNext(row'[Initiator].sigs, None) /\ GenuineNext(Absent.sigs, c)
        BY <1>1, <3>2, <3>4, <3>5, NothingGenuine
      <3> QED
        BY <1>1, <2>1, <3>1, <3>5, <3>6, BackSingle
    <2> QED
      BY <2>3, <2>4
  <1> QED
    BY <1>3, <1>4, <1>5, <1>6

\* The countersignature is the only one: while a handler could make it, there is
\* no hash, and then no other handler can.
LEMMA CountersignSingle ==
  ASSUME SpreadInv, SingleInv, NEW c \in SignCall, Countersign(c)
  PROVE  SingleInv'
  <1> DEFINE r == [back[c].copy EXCEPT !.sigs = @ \cup {Initiator}, !.hash = c]
  <1>1. /\ Initiator \in Party /\ back[c].copy \in Row
        /\ Initiator \notin Worker
        /\ back[c].pc = "countersigning" /\ sign[c].pc # "idle"
        /\ Worker \subseteq back[c].copy.sigs
        /\ Genuine(back[c].copy.sigs, c)
    BY Typed, PartyAssumption
    DEF SpreadInv, Party, SingleInv, SignaturesGenuine, CallbackOrder,
        Countersign
  <1>2. r \in Row /\ r.hash = c /\ r.sigs = back[c].copy.sigs \cup {Initiator}
    BY <1>1 DEF Row
  <1>3. /\ SetBack(c, "offering", r) /\ Save(Initiator, r)
        /\ UNCHANGED <<sign, link>> /\ ~Past(c)
    BY <1>1 DEF Countersign, Past
  <1> HIDE DEF r
  <1>4. /\ CallsKept /\ PastNext(c)
        /\ back'[c] = [pc |-> "offering", copy |-> r]
        /\ \A d \in SignCall : d # c => back'[d] = back[d]
    BY <1>3, BackMoves DEF PastNext
  <1>5. /\ row'[Initiator] = r
        /\ \A p \in Party : row'[p].hash \in Hashes \cup {c}
    BY <1>1, <1>2, <1>3, HashesOf DEF Save, SpreadInv, TypeOK
  <1>6. SignaturesGenuine'
    <2>1. GenuineNext(r.sigs, c) /\ GenuineNext(r.sigs, None)
      BY <1>1, <1>2, <1>4, GenuineLasts
    <2> QED
      BY <1>3, <1>4, <1>5, <2>1, GenuineStep
  <1>7. Hashes' \subseteq Hashes \cup {c}
    <2>1. \A d \in SignCall : back'[d].copy.hash \in Hashes \cup {c}
      BY <1>2, <1>4, HashesOf
    <2> QED
      BY <1>3, <1>5, <2>1, HashesOf, HashesFrom
  <1>8. ASSUME SignOnce'
        PROVE  Complete' /\ \A g, h \in Hashes' \ {None} : g = h
    <2>1. SignOnce
      BY <1>3, <1>8 DEF SignOnce
    <2>2. Hashes \subseteq {None}
      BY <1>1, <1>3, <2>1 DEF SingleInv, Complete
    <2>3. \A w \in Worker : \E d \in SignCall :
            sign[d].pc # "idle" /\ sign[d].by = w /\ (d = c \/ Past(d))
      BY <1>1 DEF Genuine
    <2>4. ASSUME NEW e \in SignCall, sign[e].pc # "idle" PROVE PastNext(e)
      <3>1. PICK d \in SignCall : /\ sign[d].pc # "idle"
                                  /\ sign[d].by = sign[e].by
                                  /\ d = c \/ Past(d)
        BY <2>3, <2>4 DEF SingleInv
      <3>2. d = e
        BY <2>1, <2>4, <3>1 DEF SignOnce
      <3> QED
        BY <1>4, <3>1, <3>2 DEF CallsKept
    <2>5. Complete'
      BY <1>3, <2>3, <2>4 DEF Complete, Past, PastNext
    <2> QED
      BY <1>7, <2>2, <2>5
  <1> QED
    BY <1>3, <1>6, <1>8 DEF SingleInv

\* A link copies and saves a row.
LEMMA LinkSingle ==
  ASSUME SpreadInv, SingleInv, NEW l \in LinkCall,
         \/ \E p \in Party, on \in BOOLEAN : Link(l, p, on)
         \/ UpdateDataset(l) \/ SaveLink(l) \/ LinkFails(l)
  PROVE  SingleInv'
  <1>1. /\ Absent.sigs = {} /\ Absent.hash = None /\ Initiator \in Party
        /\ link[l].by \in Party
        /\ UNCHANGED <<sign, back>>
    BY Typed
    DEF Absent, Party, SpreadInv, Link, UpdateDataset, SaveLink, LinkFails
  <1>2. CallsKept
    BY <1>1 DEF CallsKept, Past, PastNext
  <1>3. link[l].by = Initiator => GenuineNext(link[l].copy.sigs, None)
    BY <1>2, GenuineLasts, NoneAssumption DEF SingleInv, SignaturesGenuine
  <1>4. /\ \A m \in LinkCall : m # l => link'[m] = link[m]
        /\ \/ /\ link'[l].by = link[l].by
              /\ link'[l].copy \in {link[l].copy, Absent}
           \/ \E p \in Party : link'[l].by = p /\ link'[l].copy = row[p]
    BY DEF Link, UpdateDataset, SaveLink, LinkFails, SetLink, SpreadInv, TypeOK
  <1>5. /\ GenuineNext(row'[Initiator].sigs, None)
        /\ \A p \in Party : row'[p].hash \in Hashes
    <2>1. CASE SaveLink(l)
      <3> DEFINE r == [link[l].copy EXCEPT !.linked = link[l].on]
      <3>1. r.sigs = link[l].copy.sigs /\ r.hash = link[l].copy.hash
        BY Typed DEF SpreadInv, Row
      <3>2. Save(link[l].by, r)
        BY <2>1 DEF SaveLink
      <3> HIDE DEF r
      <3>3. \A p \in Party : row'[p] = IF p = link[l].by THEN r ELSE row[p]
        BY <3>2 DEF Save, SpreadInv, TypeOK
      <3> QED
        BY <1>1, <1>2, <1>3, <3>1, <3>3, HashesOf, RowGenuine
    <2>2. CASE row' = row
      BY <1>2, <2>2, HashesOf, RowGenuine
    <2> QED
      BY <2>1, <2>2 DEF Link, UpdateDataset, LinkFails
  <1>6. SignaturesGenuine'
    <2>1. \A m \in LinkCall : link'[m].by = Initiator =>
            \/ link[m].by = Initiator /\ link'[m].copy = link[m].copy
            \/ GenuineNext(link'[m].copy.sigs, None)
      BY <1>1, <1>2, <1>4, NothingGenuine, RowGenuine
    <2> QED
      BY <1>1, <1>2, <1>5, <2>1, GenuineStep
  <1>7. Hashes' \subseteq Hashes \cup {None}
    <2>1. \A m \in LinkCall : link'[m].copy.hash \in Hashes \cup {None}
      BY <1>1, <1>4, HashesOf
    <2> QED
      BY <1>1, <1>5, <2>1, HashesOf, HashesFrom
  <1> QED
    BY <1>1, <1>2, <1>6, <1>7, SingleKept

\* A process that stops forgets copies.
LEMMA StopSingle ==
  ASSUME SpreadInv, SingleInv, NEW p \in Party, Stop(p)
  PROVE  SingleInv'
  <1>1. Absent.sigs = {} /\ Absent.hash = None
    BY DEF Absent
  <1>2. \A c \in SignCall :
          /\ sign'[c].by = sign[c].by
          /\ sign[c].pc = "idle" <=> sign'[c].pc = "idle"
          /\ sign'[c].copy \in {sign[c].copy, Absent}
    BY DEF Stop, Signing, SpreadInv, TypeOK
  <1>3. \A c \in SignCall :
          /\ Past(c) => PastNext(c)
          /\ back'[c].copy \in {back[c].copy, Absent}
    BY DEF Stop, Handling, Past, PastNext, SpreadInv, TypeOK
  <1>4. \A l \in LinkCall : /\ link'[l].by = link[l].by
                            /\ link'[l].copy \in {link[l].copy, Absent}
    BY DEF Stop, SpreadInv, TypeOK
  <1>5. CallsKept /\ row' = row
    BY <1>2, <1>3 DEF CallsKept, Stop
  <1>6. SignaturesGenuine'
    <2>1. GenuineNext(row'[Initiator].sigs, None)
      BY <1>5, RowGenuine
    <2>2. \A own : GenuineNext(Absent.sigs, own)
      BY <1>1, NothingGenuine
    <2> QED
      BY <1>3, <1>4, <1>5, <2>1, <2>2, GenuineStep
  <1>7. Hashes' \subseteq Hashes \cup {None}
    <2>1. \A c \in SignCall : /\ sign'[c].copy.hash \in Hashes \cup {None}
                              /\ back'[c].copy.hash \in Hashes \cup {None}
      BY <1>1, <1>2, <1>3, HashesOf
    <2>2. \A l \in LinkCall : link'[l].copy.hash \in Hashes \cup {None}
      BY <1>1, <1>4, HashesOf
    <2> QED
      BY <1>5, <2>1, <2>2, HashesOf, HashesFrom
  <1> QED
    BY <1>2, <1>5, <1>6, <1>7, SingleKept

LEMMA SingleInit == Init => SingleInv
  <1> SUFFICES ASSUME Init PROVE SingleInv
    OBVIOUS
  <1>1. Absent.sigs = {} /\ Absent.hash = None /\ Initiator \in Party
    BY DEF Absent, Party
  <1>2. SignaturesGenuine
    BY <1>1 DEF Init, SignaturesGenuine, Genuine, Unsent
  <1>3. Hashes \subseteq {None}
    BY <1>1 DEF Init, Hashes, Unsent
  <1>4. \A c \in SignCall : sign[c].pc = "idle"
    BY DEF Init
  <1> QED
    BY <1>2, <1>3, <1>4 DEF SingleInv

LEMMA SingleStep == SpreadInv /\ SingleInv /\ [Next]_vars => SingleInv'
  <1> SUFFICES ASSUME SpreadInv, SingleInv, [Next]_vars PROVE SingleInv'
    OBVIOUS
  <1>0. Initiator \in Party
    BY DEF Party
  <1>1. ASSUME NEW p \in Party, Restart(p) PROVE SingleInv'
    BY <1>1, StopSingle DEF Restart
  <1>2. CASE RequestsRejected \/ \E c \in SignCall : FinalizationRejected(c)
    BY <1>0, <1>2, StopSingle DEF RequestsRejected, FinalizationRejected
  <1>3. CASE UNCHANGED vars
    <2>1. UNCHANGED <<row, sign, back, link>>
      BY <1>3 DEF vars
    <2>2. SignaturesGenuine'
      BY <2>1 DEF SingleInv, SignaturesGenuine, Genuine, Past
    <2>3. Hashes' = Hashes /\ (SignOnce' <=> SignOnce) /\ (Complete' <=> Complete)
      BY <2>1 DEF SignOnce, Hashes, Complete, Past
    <2> QED
      BY <2>1, <2>2, <2>3 DEF SingleInv
  <1>4. ASSUME NEW c \in SignCall,
               (\E w \in Worker : Sign(c, w)) \/ SaveSigned(c) \/ SignFails(c)
        PROVE  SingleInv'
    BY <1>4, SignSingle
  <1>5. ASSUME NEW c \in SignCall,
               \/ LoadForCallback(c) \/ AddSignature(c)
               \/ ScheduleFinalization(c) \/ CallbackFails(c)
        PROVE  SingleInv'
    BY <1>5, CallbackSingle
  <1>6. ASSUME NEW c \in SignCall, Countersign(c) PROVE SingleInv'
    BY <1>6, CountersignSingle
  <1>7. ASSUME NEW c \in SignCall,
               \/ \E w \in Worker : \/ ListenForFinalization(c, w)
                                    \/ ReceiveFinalization(c, w)
                                    \/ StoreFinalization(c, w)
                                    \/ FinalizationFails(c, w)
               \/ SaveFinalized(c)
        PROVE  SingleInv'
    BY <1>7, FinalSingle
  <1>8. ASSUME NEW l \in LinkCall,
               \/ \E p \in Party, on \in BOOLEAN : Link(l, p, on)
               \/ UpdateDataset(l) \/ SaveLink(l) \/ LinkFails(l)
        PROVE  SingleInv'
    BY <1>8, LinkSingle
  <1>9. CASE Create \/ \E w \in Worker : \/ ListenForRequest(w)
                                         \/ ReceiveRequest(w) \/ RequestFails(w)
    BY <1>9, RequestSingle
  <1> QED
    BY <1>1, <1>2, <1>3, <1>4, <1>5, <1>6, <1>7, <1>8, <1>9
    DEF Next, Progress, Failure

\* SingleHash: however callbacks overlap, fail or are repeated by a restart, rows
\* have one hash as long as no worker signs twice.
THEOREM AgreementSingle == Spec => []SingleHash
  <1>1. SingleInv => SingleHash
    BY HashesOf DEF SingleInv, SingleHash
  <1> QED
    BY <1>1, SingleInit, SingleStep, AgreementSpread, PTL DEF Spec

----------------------------------------------------------------------------
(* A row lists a dataset that has the policy.                               *)

LEMMA ChangedLink ==
  ASSUME NEW r \in Row, NEW s, NEW h, NEW g, NEW b
  PROVE  /\ [r EXCEPT !.status = s].linked = r.linked
         /\ [r EXCEPT !.sigs = g].linked = r.linked
         /\ [r EXCEPT !.linked = b].linked = b
         /\ [r EXCEPT !.sigs = g, !.status = s].linked = r.linked
         /\ [r EXCEPT !.sigs = g, !.hash = h].linked = r.linked
         /\ [r EXCEPT !.status = s, !.hash = h, !.sigs = g].linked = r.linked
  BY DEF Row

\* Nothing goes wrong as long as nobody is disturbed.
LEMMA CalmSteps ==
  ASSUME SpreadInv, LinkInv, calm, [Next]_vars
  PROVE  \/ UNCHANGED vars
         \/ Create
         \/ \E w \in Worker : ListenForRequest(w) \/ ReceiveRequest(w)
         \/ \E c \in SignCall :
              \/ SaveSigned(c) \/ LoadForCallback(c) \/ AddSignature(c)
              \/ Countersign(c) \/ ScheduleFinalization(c) \/ SaveFinalized(c)
              \/ \E w \in Worker : \/ Sign(c, w) \/ ListenForFinalization(c, w)
                                   \/ ReceiveFinalization(c, w)
                                   \/ StoreFinalization(c, w)
         \/ \E l \in LinkCall :
              \/ \E p \in Party, on \in BOOLEAN : Link(l, p, on)
              \/ UpdateDataset(l) \/ SaveLink(l)
  <1>1. ~RequestsRejected
    BY DEF RequestsRejected, LinkInv, Calmly
  <1>2. \A c \in SignCall : ~FinalizationRejected(c)
    BY DEF FinalizationRejected, Fault, LinkInv, Calmly
  <1>3. ~Failure
    <2>1. /\ \A w \in Worker : ~RequestFails(w)
          /\ \A c \in SignCall : /\ ~SignFails(c) /\ ~CallbackFails(c)
                                 /\ \A w \in Worker : ~FinalizationFails(c, w)
          /\ \A l \in LinkCall : ~LinkFails(l)
          /\ \A p \in Party : ~Restart(p)
      BY DEF RequestFails, SignFails, CallbackFails, FinalizationFails,
         LinkFails, Restart, Fault
    <2> QED
      BY <2>1 DEF Failure
  <1> QED
    BY <1>1, <1>2, <1>3 DEF Next, Progress

NoLinks == \A l \in LinkCall : ~Linking(l)

\* What a step keeps that is not about a link.
LEMMA SigningKeeps ==
  ASSUME SpreadInv, LinkInv, calm, NoLinks,
         UNCHANGED <<link, policy, calm>>,
         Calmly', row'[Initiator] # Absent,
         \A p \in Party : row'[p].linked = policy[p],
         \A w \in Worker : ask'[w] \in Underway => policy[w] = FALSE,
         \A c \in SignCall :
           /\ sign'[c].pc = "posted" =>
                sign'[c].copy.linked = policy[sign'[c].by]
           /\ (\/ back'[c].pc \in {"validating", "countersigning", "offering"}
               \/ final'[c] = "sending" /\ ~Hung(c)')
                => back'[c].copy.linked = policy[Initiator]
           /\ \A w \in Worker : send'[c][w].pc = "handling" =>
                send'[c][w].copy.linked = policy[w]
  PROVE  LinkInv'
  <1>1. LinksAlone'
    BY DEF LinksAlone, NoLinks, Linking
  <1>2. PolicyKept'
    BY DEF PolicyKept, Signing, NoLinks, Linking
  <1> QED
    BY <1>1, <1>2 DEF LinkInv

\* What is known when no link is under way.
LEMMA NothingLinks ==
  ASSUME SpreadInv, LinkInv, calm, NoLinks
  PROVE  /\ \A p \in Party : row[p].linked = policy[p]
         /\ \A w \in Worker : ask[w] \in Underway => policy[w] = FALSE
         /\ \A c \in SignCall :
              /\ sign[c].pc = "posted" =>
                   sign[c].copy.linked = policy[sign[c].by]
              /\ (\/ back[c].pc \in {"validating", "countersigning", "offering"}
                  \/ final[c] = "sending" /\ ~Hung(c))
                   => back[c].copy.linked = policy[Initiator]
              /\ \A w \in Worker : send[c][w].pc = "handling" =>
                   send[c][w].copy.linked = policy[w]
  BY DEF LinkInv, PolicyKept, NoLinks, Linking, Signing

LEMMA LinkCreate ==
  ASSUME SpreadInv, LinkInv, calm, Create
  PROVE  LinkInv'
  <1> DEFINE r == [Absent EXCEPT !.status = "WAITING_FOR_SIGNATURES"]
  <1>1. /\ r # Absent /\ r.linked = FALSE
    BY DEF Absent
  <1>2. Save(Initiator, r) /\ row[Initiator] = Absent
        /\ UNCHANGED <<sign, back, final, send, link, policy, calm>>
        /\ \A w \in Worker : ask'[w] = "todo"
    BY DEF Create
  <1> HIDE DEF r
  <1>3. Fresh /\ NoLinks /\ Initiator \in Party /\ Worker \subseteq Party
    BY <1>2 DEF LinkInv, Fresh, NoLinks, Party
  <1>4. row'[Initiator] = r /\ \A p \in Party : row'[p].linked = policy[p]
    <2>1. policy[Initiator] = FALSE /\ \A p \in Party : row[p].linked = policy[p]
      BY <1>3, NothingLinks DEF Fresh
    <2> QED
      BY <1>1, <1>2, <1>3, <2>1 DEF Save, SpreadInv, TypeOK
  <1>5. Calmly'
    BY <1>2 DEF LinkInv, Calmly
  <1>6. \A w \in Worker : policy[w] = FALSE
    BY <1>3 DEF Fresh
  <1>7. \A c \in SignCall : Hung(c)' <=> Hung(c)
    BY <1>2 DEF Hung
  <1> QED
    BY <1>1, <1>2, <1>3, <1>4, <1>5, <1>6, <1>7, NothingLinks, SigningKeeps

LEMMA LinkRequest ==
  ASSUME SpreadInv, LinkInv, calm, NEW w \in Worker, ReceiveRequest(w)
  PROVE  LinkInv'
  <1> DEFINE r == [Absent EXCEPT !.status = "SIGNATURE_REQUESTED"]
  <1>1. r.linked = FALSE
    BY DEF Absent
  <1>2. Save(w, r) /\ ask[w] = "listening"
        /\ UNCHANGED <<sign, back, final, send, link, policy, calm>>
        /\ \A v \in Worker : ask'[v] = IF v = w THEN "stored" ELSE ask[v]
    BY DEF ReceiveRequest, SpreadInv, TypeOK
  <1> HIDE DEF r
  <1>3. /\ Initiator \in Party /\ w \in Party /\ w # Initiator
        /\ NoLinks /\ row[Initiator] # Absent
    <2>1. ask[w] \in Underway
      BY <1>2 DEF Underway
    <2>2. NoLinks /\ row[Initiator] # Absent
      BY <1>2, <2>1 DEF LinkInv, LinksAlone, Fresh, NoLinks
    <2> QED
      BY <2>2, PartyAssumption DEF Party
  <1>4. row'[Initiator] = row[Initiator]
        /\ \A p \in Party : row'[p].linked = policy[p]
    <2>1. \A p \in Party : row'[p] = IF p = w THEN r ELSE row[p]
      BY <1>2, <1>3 DEF Save, SpreadInv, TypeOK
    <2>2. policy[w] = FALSE /\ \A p \in Party : row[p].linked = policy[p]
      BY <1>2, <1>3, NothingLinks DEF Underway
    <2> QED
      BY <1>1, <1>3, <2>1, <2>2
  <1>5. Calmly'
    BY <1>2 DEF LinkInv, Calmly
  <1>6. \A v \in Worker : ask'[v] \in Underway => policy[v] = FALSE
    BY <1>2, <1>3, NothingLinks DEF Underway
  <1>7. \A c \in SignCall : Hung(c)' <=> Hung(c)
    BY <1>2 DEF Hung
  <1> QED
    BY <1>2, <1>3, <1>4, <1>5, <1>6, <1>7, NothingLinks, SigningKeeps

LEMMA LinkListens ==
  ASSUME SpreadInv, LinkInv, calm, NEW w \in Worker, ListenForRequest(w)
  PROVE  LinkInv'
  <1>1. /\ ask[w] = "todo" /\ ask'[w] \in {"listening", "missed"}
        /\ \A v \in Worker : v # w => ask'[v] = ask[v]
        /\ UNCHANGED <<row, sign, back, final, send, link, policy, calm>>
    BY DEF ListenForRequest, SpreadInv, TypeOK
  <1>2. NoLinks /\ row[Initiator] # Absent
    BY <1>1 DEF LinkInv, LinksAlone, Fresh, NoLinks, Underway
  <1>3. Calmly'
    BY <1>1 DEF LinkInv, Calmly
  <1>4. \A v \in Worker : ask'[v] \in Underway => policy[v] = FALSE
    BY <1>1, <1>2, NothingLinks DEF Underway
  <1>5. \A c \in SignCall : Hung(c)' <=> Hung(c)
    BY <1>1 DEF Hung
  <1> QED
    BY <1>1, <1>2, <1>3, <1>4, <1>5, NothingLinks, SigningKeeps

LEMMA LinkSign ==
  ASSUME SpreadInv, LinkInv, calm, NEW c \in SignCall,
         (\E w \in Worker : Sign(c, w)) \/ SaveSigned(c)
  PROVE  LinkInv'
  <1>1. ASSUME NEW w \in Worker, Sign(c, w) PROVE LinkInv'
    <2> DEFINE r == [row[w] EXCEPT !.sigs = @ \cup {w}]
    <2>1. /\ SetSign(c, w, "posted", r) /\ SetBack(c, "sent", Absent)
          /\ UNCHANGED <<row, ask, final, send, link, policy, calm>>
          /\ Idle /\ row[w] # Absent
      BY <1>1 DEF Sign
    <2>2. /\ NoLinks /\ w \in Party /\ row[w] \in Row
          /\ row[Initiator] # Absent
      BY <2>1, Typed DEF LinkInv, Fresh, NoLinks, Idle, Party, SpreadInv
    <2>3. r.linked = policy[w]
      BY <2>2, NothingLinks, ChangedLink
    <2> HIDE DEF r
    <2>4. /\ sign'[c] = [by |-> w, pc |-> "posted", copy |-> r]
          /\ \A d \in SignCall : d # c => sign'[d] = sign[d]
          /\ back'[c] = [pc |-> "sent", copy |-> Absent]
          /\ \A d \in SignCall : d # c => back'[d] = back[d]
      BY <2>1 DEF SetSign, SetBack, SpreadInv, TypeOK
    <2>5. final[c] # "sending"
      BY <1>1 DEF Sign, SpreadInv, FinalOrder, CallbackOrder
    <2>6. Calmly'
      BY <2>1 DEF LinkInv, Calmly
    <2>7. \A d \in SignCall :
            /\ sign'[d].pc = "posted" =>
                 sign'[d].copy.linked = policy[sign'[d].by]
            /\ (\/ back'[d].pc \in {"validating", "countersigning", "offering"}
                \/ final'[d] = "sending" /\ ~Hung(d)')
                 => back'[d].copy.linked = policy[Initiator]
      BY <2>1, <2>2, <2>3, <2>4, <2>5, NothingLinks DEF Hung
    <2> QED
      BY <2>1, <2>2, <2>6, <2>7, NothingLinks, SigningKeeps
  <1>2. CASE SaveSigned(c)
    <2> DEFINE p == sign[c].by
               r == [sign[c].copy EXCEPT !.status = "SIGNED"]
    <2>1. /\ sign[c].pc = "posted"
          /\ row' = row \/ Save(p, r)
          /\ UNCHANGED <<ask, back, final, send, link, policy, calm>>
          /\ \/ SetSign(c, p, "done", Absent)
             \/ SetSign(c, p, "failed", Absent)
      BY <1>2 DEF SaveSigned
    <2>2. /\ NoLinks /\ p \in Party /\ sign[c].copy \in Row
          /\ p # Initiator /\ Initiator \in Party
          /\ row[Initiator] # Absent
      <3>1. NoLinks /\ row[Initiator] # Absent
        BY <2>1 DEF LinkInv, LinksAlone, Fresh, NoLinks, Signing
      <3>2. sign[c].by # Initiator /\ Initiator \in Party
        BY <2>1 DEF SpreadInv, CallbackOrder, Party
      <3> QED
        BY <3>1, <3>2, Typed DEF SpreadInv
    <2>3. r.linked = policy[p]
      <3>1. sign[c].copy.linked = policy[p]
        BY <2>1, <2>2, NothingLinks
      <3> QED
        BY <2>2, <3>1, ChangedLink
    <2> HIDE DEF r, p
    <2>4. /\ sign'[c].pc \in {"done", "failed"}
          /\ \A d \in SignCall : d # c => sign'[d] = sign[d]
      BY <2>1 DEF SetSign, SpreadInv, TypeOK
    <2>5. /\ row'[Initiator] = row[Initiator]
          /\ \A q \in Party : row'[q].linked = policy[q]
      BY <2>1, <2>2, <2>3, NothingLinks DEF Save, SpreadInv, TypeOK
    <2>6. Calmly'
      BY <2>1 DEF LinkInv, Calmly
    <2>7. \A d \in SignCall : sign'[d].pc = "posted" =>
            sign'[d].copy.linked = policy[sign'[d].by]
      BY <2>2, <2>4, NothingLinks
    <2>8. row'[Initiator] # Absent
      BY <2>2, <2>5
    <2>9. \A d \in SignCall : Hung(d)' <=> Hung(d)
      BY <2>1 DEF Hung
    <2> QED
      BY <2>1, <2>2, <2>5, <2>6, <2>7, <2>8, <2>9, NothingLinks, SigningKeeps
  <1> QED
    BY <1>1, <1>2

\* A step of a callback's handler: its copy lists what the row does.
LEMMA LinkHandler ==
  ASSUME SpreadInv, LinkInv, calm, NEW c \in SignCall, Handling(c),
         NEW pc, NEW r, SetBack(c, pc, r),
         pc \in {"validating", "countersigning", "offering"}
           \/ final'[c] = "sending" => r.linked = policy[Initiator],
         UNCHANGED <<sign, ask, link, policy, calm>>,
         \/ UNCHANGED <<final, send>>
         \/ /\ \A d \in SignCall : d # c =>
                  final'[d] = final[d] /\ send'[d] = send[d]
            /\ final'[c] = "sending"
            /\ \A w \in Worker : send'[c][w].pc = "todo",
         NEW q \in Row, row' = row \/ Save(Initiator, q),
         q.linked = policy[Initiator], q # Absent
  PROVE  LinkInv'
  <1>1. NoLinks /\ row[Initiator] # Absent
    BY DEF LinkInv, LinksAlone, Fresh, NoLinks
  <1>2. /\ back'[c] = [pc |-> pc, copy |-> r]
        /\ \A d \in SignCall : d # c => back'[d] = back[d]
    BY DEF SetBack, SpreadInv, TypeOK
  <1>3. row'[Initiator] # Absent /\ \A p \in Party : row'[p].linked = policy[p]
    <2>1. Initiator \in Party /\ \A p \in Party : row[p].linked = policy[p]
      BY <1>1, NothingLinks DEF Party
    <2> QED
      BY <1>1, <2>1 DEF Save, SpreadInv, TypeOK
  <1>4. Calmly'
    BY DEF LinkInv, Calmly
  <1>5. \A d \in SignCall :
          /\ (\/ back'[d].pc \in {"validating", "countersigning", "offering"}
              \/ final'[d] = "sending" /\ ~Hung(d)')
               => back'[d].copy.linked = policy[Initiator]
          /\ \A w \in Worker : send'[d][w].pc = "handling" =>
               send'[d][w].copy.linked = policy[w]
    BY <1>1, <1>2, NothingLinks DEF Hung
  <1> QED
    BY <1>1, <1>3, <1>4, <1>5, NothingLinks, SigningKeeps

LEMMA LinkCallback ==
  ASSUME SpreadInv, LinkInv, calm, NEW c \in SignCall,
         \/ LoadForCallback(c) \/ AddSignature(c)
         \/ Countersign(c) \/ ScheduleFinalization(c)
  PROVE  LinkInv'
  <1> DEFINE copy == back[c].copy
             sigs == copy.sigs \cup {sign[c].by}
  <1>1. /\ Handling(c) /\ copy \in Row /\ row[Initiator] \in Row
        /\ Initiator \in Party /\ sign[c].by \in Party /\ copy.sigs \subseteq Party
        /\ UNCHANGED <<sign, ask, link, policy, calm>>
    BY Typed
    DEF Party, SpreadInv, Row, LoadForCallback, AddSignature, Countersign,
        ScheduleFinalization, Handling
  <1>2. NoLinks /\ row[Initiator] # Absent
    BY <1>1 DEF LinkInv, LinksAlone, Fresh, NoLinks
  <1>3. /\ row[Initiator].linked = policy[Initiator]
        /\ back[c].pc \in {"validating", "countersigning", "offering"} =>
             copy.linked = policy[Initiator]
    BY <1>1, <1>2, NothingLinks
  <1>4. CASE LoadForCallback(c)
    <2>1. /\ SetBack(c, "validating", row[Initiator])
          /\ UNCHANGED <<row, final, send>>
      BY <1>4 DEF LoadForCallback
    <2> QED
      BY <1>1, <1>2, <1>3, <2>1, LinkHandler
  <1>5. CASE AddSignature(c)
    <2> DEFINE r == [copy EXCEPT !.sigs = sigs]
               s == [copy EXCEPT !.sigs = sigs, !.status = "SIGNED"]
    <2>1. copy.linked = policy[Initiator]
      BY <1>3, <1>5 DEF AddSignature
    <2>2. /\ r \in Row /\ r.linked = copy.linked
          /\ s.linked = copy.linked /\ r # Absent
      BY <1>1 DEF Row, Absent
    <2>3. /\ UNCHANGED <<final, send>>
          /\ \/ SetBack(c, "countersigning", s) /\ row' = row
             \/ SetBack(c, "ok", Absent) /\ Save(Initiator, r)
      BY <1>5 DEF AddSignature
    <2>4. final[c] # "sending"
      BY <1>1 DEF SpreadInv, FinalOrder, Handling
    <2> HIDE DEF r, s, copy
    <2>5. CASE SetBack(c, "countersigning", s) /\ row' = row
      BY <1>1, <2>1, <2>2, <2>3, <2>5, LinkHandler
    <2>6. CASE SetBack(c, "ok", Absent) /\ Save(Initiator, r)
      BY <1>1, <2>1, <2>2, <2>3, <2>4, <2>6, LinkHandler
    <2> QED
      BY <2>3, <2>5, <2>6
  <1>6. CASE Countersign(c)
    <2> DEFINE r == [copy EXCEPT !.sigs = @ \cup {Initiator}, !.hash = c]
    <2>1. copy.linked = policy[Initiator]
      BY <1>3, <1>6 DEF Countersign
    <2>2. r \in Row /\ r.linked = copy.linked /\ r # Absent
      BY <1>1 DEF Row, Absent
    <2>3. /\ UNCHANGED <<final, send>>
          /\ SetBack(c, "offering", r) /\ Save(Initiator, r)
      BY <1>6 DEF Countersign
    <2> HIDE DEF r, copy
    <2> QED
      BY <1>1, <2>1, <2>2, <2>3, LinkHandler
  <1>7. CASE ScheduleFinalization(c)
    <2>1. /\ copy.linked = policy[Initiator] /\ copy.hash = c
      BY <1>3, <1>7 DEF ScheduleFinalization, SpreadInv, CallbackOrder
    <2>2. copy # Absent
      BY <2>1, NoneAssumption DEF Absent
    <2>3. /\ final'[c] = "sending"
          /\ \A w \in Worker : send'[c][w].pc = "todo"
          /\ \A d \in SignCall : d # c =>
               final'[d] = final[d] /\ send'[d] = send[d]
          /\ SetBack(c, "ok", copy) /\ Save(Initiator, copy)
      BY <1>7 DEF ScheduleFinalization, SpreadInv, TypeOK
    <2> HIDE DEF copy
    <2> QED
      BY <1>1, <2>1, <2>2, <2>3, LinkHandler
  <1> QED
    BY <1>4, <1>5, <1>6, <1>7

LEMMA LinkFinal ==
  ASSUME SpreadInv, LinkInv, calm, NEW c \in SignCall,
         \/ SaveFinalized(c)
         \/ \E w \in Worker : \/ ListenForFinalization(c, w)
                              \/ ReceiveFinalization(c, w)
                              \/ StoreFinalization(c, w)
  PROVE  LinkInv'
  <1>1. UNCHANGED <<sign, back, ask, link, policy, calm>>
    BY DEF SaveFinalized, ListenForFinalization, ReceiveFinalization,
       StoreFinalization
  <1>2. NoLinks /\ row[Initiator] # Absent
    BY DEF LinkInv, LinksAlone, Fresh, NoLinks, Calmly, SaveFinalized, Hung,
       Underway, ListenForFinalization, ReceiveFinalization, StoreFinalization
  <1>3. /\ Initiator \in Party /\ Worker \subseteq Party
        /\ Initiator \notin Worker /\ back[c].copy \in Row
        /\ \A p \in Party : row[p] \in Row
        /\ \A w \in Worker : send[c][w].copy \in Row
    BY Typed, PartyAssumption DEF SpreadInv
  <1>4. CASE SaveFinalized(c)
    <2> DEFINE r == [back[c].copy EXCEPT !.status = "FINALIZED"]
    <2>1. r \in Row /\ r.linked = back[c].copy.linked /\ r # Absent
      BY <1>3 DEF Row, Absent
    <2>2. /\ Save(Initiator, r) /\ final[c] = "sending" /\ send' = send
          /\ final'[c] = "done"
          /\ \A d \in SignCall : d # c => final'[d] = final[d]
          /\ \A w \in Worker : send[c][w].pc = "stored"
      BY <1>4 DEF SaveFinalized, SpreadInv, TypeOK
    <2> HIDE DEF r
    <2>3. r.linked = policy[Initiator]
      BY <1>2, <2>1, <2>2, NothingLinks DEF Hung
    <2>4. /\ row'[Initiator] = r
          /\ \A p \in Party : row'[p].linked = policy[p]
      BY <1>2, <1>3, <2>2, <2>3, NothingLinks DEF Save, SpreadInv, TypeOK
    <2>5. Calmly'
      BY <1>1, <2>2 DEF LinkInv, Calmly
    <2>6. \A d \in SignCall :
            (\/ back'[d].pc \in {"validating", "countersigning", "offering"}
             \/ final'[d] = "sending" /\ ~Hung(d)')
              => back'[d].copy.linked = policy[Initiator]
      BY <1>1, <1>2, <2>2, NothingLinks DEF Hung
    <2> QED
      BY <1>1, <1>2, <2>1, <2>2, <2>4, <2>5, <2>6, NothingLinks, SigningKeeps
  <1>5. ASSUME NEW w \in Worker, ReceiveFinalization(c, w) PROVE LinkInv'
    <2>1. /\ row' = row /\ final' = final /\ send[c][w].pc = "listening"
          /\ send'[c][w] = [pc |-> "handling", copy |-> row[w]]
          /\ \A d \in SignCall, v \in Worker :
               d # c \/ v # w => send'[d][v] = send[d][v]
      BY <1>5 DEF ReceiveFinalization, SetSend, SpreadInv, TypeOK
    <2>2. Calmly'
      BY <1>1, <2>1 DEF LinkInv, Calmly
    <2>3. \A d \in SignCall, v \in Worker : send'[d][v].pc = "handling" =>
            send'[d][v].copy.linked = policy[v]
      BY <1>2, <1>3, <2>1, NothingLinks
    <2>4. \A d \in SignCall : Hung(d) => Hung(d)'
      BY <2>1 DEF Hung
    <2> QED
      BY <1>1, <1>2, <2>1, <2>2, <2>3, <2>4, NothingLinks, SigningKeeps
  <1>7. ASSUME NEW w \in Worker, ListenForFinalization(c, w) PROVE LinkInv'
    <2>1. /\ row' = row /\ final' = final /\ send[c][w].pc = "todo"
          /\ send'[c][w].pc \in {"listening", "missed"}
          /\ \A d \in SignCall, v \in Worker :
               d # c \/ v # w => send'[d][v] = send[d][v]
      BY <1>7 DEF ListenForFinalization, SetSend, SpreadInv, TypeOK
    <2>2. Calmly'
      BY <1>1, <2>1 DEF LinkInv, Calmly
    <2>3. \A d \in SignCall, v \in Worker : send'[d][v].pc = "handling" =>
            send'[d][v].copy.linked = policy[v]
      BY <1>2, <2>1, NothingLinks
    <2>4. \A d \in SignCall : Hung(d) => Hung(d)'
      BY <2>1 DEF Hung
    <2> QED
      BY <1>1, <1>2, <2>1, <2>2, <2>3, <2>4, NothingLinks, SigningKeeps
  <1>6. ASSUME NEW w \in Worker, StoreFinalization(c, w) PROVE LinkInv'
    <2> DEFINE r == [send[c][w].copy EXCEPT !.status = "FINALIZED",
                       !.hash = back[c].copy.hash, !.sigs = back[c].copy.sigs]
    <2>1. r \in Row /\ r.linked = send[c][w].copy.linked
      BY <1>3 DEF Row
    <2>2. /\ Save(w, r) /\ final' = final /\ send[c][w].pc = "handling"
          /\ send'[c][w].pc = "stored"
          /\ \A d \in SignCall, v \in Worker :
               d # c \/ v # w => send'[d][v] = send[d][v]
      BY <1>6 DEF StoreFinalization, SetSend, SpreadInv, TypeOK
    <2> HIDE DEF r
    <2>3. r.linked = policy[w]
      BY <1>2, <2>1, <2>2, NothingLinks
    <2>4. /\ row'[Initiator] = row[Initiator]
          /\ \A p \in Party : row'[p].linked = policy[p]
      BY <1>2, <1>3, <2>2, <2>3, NothingLinks DEF Save, SpreadInv, TypeOK
    <2>5. Calmly'
      BY <1>1, <2>2 DEF LinkInv, Calmly
    <2>6. \A d \in SignCall, v \in Worker : send'[d][v].pc = "handling" =>
            send'[d][v].copy.linked = policy[v]
      BY <1>2, <2>2, NothingLinks
    <2>7. \A d \in SignCall : Hung(d) => Hung(d)'
      BY <2>2 DEF Hung
    <2> QED
      BY <1>1, <1>2, <2>2, <2>4, <2>5, <2>6, <2>7, NothingLinks, SigningKeeps
  <1> QED
    BY <1>4, <1>5, <1>6, <1>7

\* While a dataset is linked, its link alone is to be kept right.
NothingElse ==
  /\ \A c \in SignCall : /\ sign[c].pc # "posted" /\ ~Handling(c)
                         /\ final[c] = "sending" => Hung(c)
                         /\ \A w \in Worker : send[c][w].pc \notin Underway
  /\ \A w \in Worker : ask[w] \notin Underway

LEMMA LinkKeeps ==
  ASSUME LinkInv, calm, NothingElse, NEW l \in LinkCall,
         UNCHANGED <<sign, back, final, send, ask, calm>>,
         row'[Initiator] # Absent,
         \A m \in LinkCall : m # l => link'[m] = link[m] /\ ~Linking(m),
         link'[l].pc \in {"updating", "saving"} => link'[l].copy.hash # None,
         \A p \in Party : \/ row'[p].linked = policy'[p]
                          \/ link'[l].by = p /\ link'[l].pc = "saving",
         link'[l].pc = "updating" =>
           link'[l].copy.linked = policy'[link'[l].by],
         link'[l].pc = "saving" => link'[l].on = policy'[link'[l].by]
  PROVE  LinkInv'
  <1>1. Calmly'
    BY DEF LinkInv, Calmly
  <1>2. LinksAlone'
    BY DEF LinksAlone, Linking, Signing, Handling, NothingElse, Hung
  <1>3. PolicyKept'
    BY DEF PolicyKept, Linking, Signing, Handling, NothingElse, Hung, Underway
  <1> QED
    BY <1>1, <1>2, <1>3 DEF LinkInv

LEMMA LinkLinks ==
  ASSUME SpreadInv, LinkInv, calm, NEW l \in LinkCall,
         \/ \E p \in Party, on \in BOOLEAN : Link(l, p, on)
         \/ UpdateDataset(l) \/ SaveLink(l)
  PROVE  LinkInv'
  <1>1. ASSUME NEW p \in Party, NEW on \in BOOLEAN, Link(l, p, on)
        PROVE  LinkInv'
    <2>1. /\ Quiet /\ row[p].hash # None
          /\ UNCHANGED <<row, ask, sign, back, final, send, policy, calm>>
          /\ link'[l] = [by |-> p, on |-> on, pc |-> "updating", copy |-> row[p]]
          /\ \A m \in LinkCall : m # l => link'[m] = link[m]
      BY <1>1 DEF Link, SetLink, SpreadInv, TypeOK
    <2>2. NoLinks /\ NothingElse
      BY <2>1 DEF Quiet, Idle, NoLinks, NothingElse, Signing
    <2>3. row[Initiator] # Absent
      BY <2>1 DEF LinkInv, Fresh, Absent
    <2> QED
      <3>1. /\ \A q \in Party : row[q].linked = policy[q]
            /\ \A m \in LinkCall : ~Linking(m)
        BY <2>2, NothingLinks DEF NoLinks
      <3> QED
        BY <2>1, <2>2, <2>3, <3>1, LinkKeeps
  <1>2. ASSUME Linking(l)
        PROVE  /\ NothingElse /\ row[Initiator] # Absent
               /\ \A m \in LinkCall : m # l => ~Linking(m)
               /\ link[l].copy.hash # None
    BY <1>2 DEF LinkInv, LinksAlone, Fresh, NothingElse, Signing
  <1>3. CASE UpdateDataset(l)
    <2>1. /\ link[l].pc = "updating"
          /\ UNCHANGED <<row, ask, sign, back, final, send, calm>>
          /\ link'[l].pc = "saving" /\ link'[l].on = link[l].on
          /\ link'[l].by = link[l].by /\ link'[l].copy = link[l].copy
          /\ \A m \in LinkCall : m # l => link'[m] = link[m]
          /\ policy'[link[l].by] = link[l].on
          /\ \A p \in Party : p # link[l].by => policy'[p] = policy[p]
      BY <1>3, Typed DEF UpdateDataset, SetLink, SpreadInv, TypeOK
    <2>2. \A p \in Party : row[p].linked = policy[p]
      BY <1>2, <2>1 DEF LinkInv, PolicyKept, Linking
    <2> QED
      BY <1>2, <2>1, <2>2, LinkKeeps DEF Linking
  <1>4. CASE SaveLink(l)
    <2> DEFINE r == [link[l].copy EXCEPT !.linked = link[l].on]
    <2>1. r.linked = link[l].on /\ r.hash = link[l].copy.hash
      BY Typed DEF SpreadInv, Row
    <2>2. /\ link[l].pc = "saving" /\ Save(link[l].by, r)
          /\ UNCHANGED <<ask, sign, back, final, send, policy, calm>>
          /\ link'[l].pc = "done"
          /\ \A m \in LinkCall : m # l => link'[m] = link[m]
      BY <1>4 DEF SaveLink, SetLink, SpreadInv, TypeOK
    <2> HIDE DEF r
    <2>3. r # Absent /\ r.linked = policy[link[l].by]
      BY <1>2, <2>1, <2>2 DEF LinkInv, PolicyKept, Linking, Absent
    <2>4. \A p \in Party : p # link[l].by => row[p].linked = policy[p]
      BY <1>2, <2>2 DEF LinkInv, PolicyKept, Linking
    <2>5. \A p \in Party : row'[p] = IF p = link[l].by THEN r ELSE row[p]
      BY <2>2 DEF Save, SpreadInv, TypeOK
    <2>6. /\ row'[Initiator] # Absent
          /\ \A p \in Party : row'[p].linked = policy'[p]
      <3>1. row[Initiator] # Absent /\ Initiator \in Party
        BY <1>2, <2>2 DEF Linking, Party
      <3> QED
        BY <2>2, <2>3, <2>4, <2>5, <3>1
    <2> QED
      BY <1>2, <2>2, <2>6, LinkKeeps DEF Linking
  <1> QED
    BY <1>1, <1>3, <1>4

LEMMA LinkInit == Init => LinkInv
  <1> SUFFICES ASSUME Init PROVE LinkInv
    OBVIOUS
  <1>1. Fresh
    BY DEF Init, Fresh, Signing, Handling, Linking, Unsent
  <1>2. Calmly /\ LinksAlone
    BY DEF Init, Calmly, LinksAlone, Linking, Unsent
  <1>3. PolicyKept
    <2>1. Absent.linked = FALSE
      BY DEF Absent
    <2> QED
      BY <1>1, <2>1 DEF Init, Fresh, PolicyKept, Signing, Unsent, Underway
  <1> QED
    BY <1>1, <1>2, <1>3 DEF LinkInv

LEMMA LinkStep == SpreadInv /\ LinkInv /\ [Next]_vars => LinkInv'
  <1> SUFFICES ASSUME SpreadInv, LinkInv, [Next]_vars, calm' PROVE LinkInv'
    BY DEF LinkInv
  <1>1. calm
    BY DEF Next, vars, Create, Sign, Link, Progress, Failure, ListenForRequest,
       ReceiveRequest, ListenForFinalization, RequestsRejected, SaveSigned,
       LoadForCallback, AddSignature, Countersign, ScheduleFinalization,
       ReceiveFinalization, StoreFinalization,
       SaveFinalized, FinalizationRejected, UpdateDataset, SaveLink,
       RequestFails, SignFails, CallbackFails, FinalizationFails, LinkFails,
       Restart, Stop
  <1>2. CASE UNCHANGED vars
    <2>1. UNCHANGED <<row, ask, sign, back, final, send, link, policy, calm>>
      BY <1>2 DEF vars
    <2>2. Calmly' /\ LinksAlone' /\ (row'[Initiator] = Absent => Fresh')
      BY <1>1, <2>1 DEF LinkInv, Calmly, LinksAlone, Fresh, Signing, Handling,
         Linking, Hung
    <2>3. PolicyKept'
      BY <1>1, <2>1 DEF LinkInv, PolicyKept, Signing, Hung
    <2> QED
      BY <2>2, <2>3 DEF LinkInv
  <1> QED
    BY <1>1, <1>2, CalmSteps, LinkCreate, LinkRequest, LinkListens, LinkSign,
       LinkCallback, LinkFinal, LinkLinks

\* LinkedHasPolicy: when calls do not overlap and nothing is under way, a row
\* lists the dataset exactly if the dataset has the agreement's policy, however
\* often the agreement is signed and finalized in between.
THEOREM AgreementLinks == Spec => []LinkedHasPolicy
  <1>1. SpreadInv /\ LinkInv => LinkedHasPolicy
    BY NothingLinks DEF LinkedHasPolicy, Quiet, Idle, NoLinks
  <1> QED
    BY <1>1, LinkInit, LinkStep, AgreementSpread, PTL DEF Spec
=============================================================================
