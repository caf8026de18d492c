-------------------------- MODULE StatusListProofs --------------------------
(***************************************************************************)
(* Proofs about StatusLists, for any credentials, clients, positions and   *)
(* lists.                                                                  *)
(***************************************************************************)
EXTENDS StatusListInduction, FiniteSetTheorems, TLAPS

TypeInv == TypeOK /\ CallShape

USE DEF Pc, Loaded, Making, Revoking

----------------------------------------------------------------------------
(* Types.                                                                   *)

\* The records the calls begin with and the rows that are saved.
LEMMA Records ==
  /\ NoCall \in Call /\ NoList \in ListRow /\ NewList \in ListRow
  /\ Missing \in CredentialRow
  /\ NoCall.pc = "idle" /\ NoCall.list = None /\ NoCall.index = None
  /\ NoCall.copy.revoked = {}
  /\ NewList.exists /\ NewList.revoked = {}
  /\ ~NoList.exists /\ NoList.revoked = {}
  /\ Missing.list = None /\ Missing.index = None
  <1>1. NoList \in ListRow /\ NewList \in ListRow
    BY DEF NoList, NewList, ListRow
  <1>2. Missing \in CredentialRow
    BY DEF Missing, CredentialRow
  <1>3. NoCall \in Call
    BY <1>1, <1>2 DEF NoCall, Call
  <1> QED
    BY <1>1, <1>2, <1>3 DEF NoCall, NoList, NewList, Missing

LEMMA Numbers == None \notin List /\ None \notin Index /\ List \subseteq Nat
  <1>1. List \subseteq Nat
    BY ListAssumption DEF List
  <1> QED
    BY <1>1, ListAssumption

LEMMA NoShape == ASSUME NEW rows PROVE Shape(NoCall, rows)
  BY Records DEF Shape

\* One call goes on, and no list is lost.
LEMMA CallKept ==
  ASSUME TypeInv, NEW k \in Client, NEW r \in Call,
         call' = [call EXCEPT ![k] = r], Shape(r, statusList'),
         \A l \in List : statusList[l].exists => statusList'[l].exists
  PROVE  call' \in [Client -> Call] /\ CallShape'
  <1>1. /\ call' \in [Client -> Call]
        /\ \A j \in Client : call'[j] = IF j = k THEN r ELSE call[j]
    BY DEF TypeInv, TypeOK
  <1>2. ASSUME NEW j \in Client PROVE Shape(call'[j], statusList')
    <2>1. CASE j = k
      BY <1>1, <2>1
    <2>2. CASE j # k
      <3>1. Shape(call[j], statusList) /\ call[j] \in Call
        BY DEF TypeInv, TypeOK, CallShape
      <3>2. call[j].list \in List \cup {None}
        BY <3>1 DEF Call
      <3> QED
        BY <1>1, <2>2, <3>1, <3>2 DEF Shape
    <2> QED
      BY <2>1, <2>2
  <1> QED
    BY <1>1, <1>2 DEF CallShape

LEMMA RowKept ==
  ASSUME TypeInv, NEW l \in List, NEW r \in ListRow, r.exists,
         statusList' = [statusList EXCEPT ![l] = r]
  PROVE  /\ statusList' \in [List -> ListRow]
         /\ statusList'[l] = r
         /\ \A m \in List : m # l => statusList'[m] = statusList[m]
         /\ \A m \in List : statusList[m].exists => statusList'[m].exists
  BY DEF TypeInv, TypeOK

LEMMA WatchType == ASSUME TypeInv, Watch PROVE raced' \subseteq List
  BY DEF TypeInv, TypeOK, Watch

LEMMA CallParts ==
  ASSUME NEW r \in Call
  PROVE  /\ r.pc \in Pc /\ r.on \in Cred \cup {None}
         /\ r.list \in List \cup {None} /\ r.index \in Index \cup {None}
         /\ r.copy \in ListRow /\ r.old \in CredentialRow
         /\ r.copy.revoked \subseteq Index
         /\ r.old.list \in List \cup {None}
         /\ r.old.index \in Index \cup {None}
         /\ r.then \in {"counting", "picking"}
  BY DEF Call, ListRow, CredentialRow

LEMMA TypeInit == Init => TypeInv
  <1> SUFFICES ASSUME Init PROVE TypeInv
    OBVIOUS
  <1> USE Records, Numbers
  <1>1. PICK K \in Boots : call = Booted(K)
    BY DEF Init
  <1>2. \A k \in Client : call[k] \in Call /\ Shape(call[k], statusList)
    BY <1>1 DEF Booted, NoCall, Call, Shape
  <1>3. call \in [Client -> Call]
    BY <1>1, <1>2 DEF Booted
  <1> QED
    BY <1>2, <1>3 DEF Init, TypeInv, TypeOK, CallShape

LEMMA TypeIssue ==
  ASSUME TypeInv, NEW k \in Client, NEW c \in Cred, NEW b \in BOOLEAN,
         SelfIssue(k, c, b)
  PROVE  TypeInv'
  <1> DEFINE r == [NoCall EXCEPT !.on = c,
                     !.pc = IF b THEN "finding" ELSE "signing"]
  <1> USE Records, Numbers
  <1>1. r \in Call /\ Shape(r, statusList')
    BY DEF NoCall, Call, Shape
  <1>2. call' \in [Client -> Call] /\ CallShape'
    BY <1>1, CallKept DEF SelfIssue, Begin
  <1> QED
    BY <1>2, WatchType, ClientAssumption
    DEF SelfIssue, Begin, history, TypeInv, TypeOK

LEMMA TypeFind ==
  ASSUME TypeInv, NEW k \in Client, Find(k)
  PROVE  TypeInv'
  <1> USE Records, Numbers
  <1>0. call[k] \in Call /\ Shape(call[k], statusList)
    BY DEF TypeInv, TypeOK, CallShape
  <1>1. call' \in [Client -> Call] /\ CallShape'
    <2>1. ASSUME NEW l \in Lists,
                 Continue(k, [call[k] EXCEPT !.pc = "counting", !.list = l,
                                             !.copy = statusList[l]])
          PROVE  call' \in [Client -> Call] /\ CallShape'
      <3> DEFINE r == [call[k] EXCEPT !.pc = "counting", !.list = l,
                                      !.copy = statusList[l]]
      <3>1. l \in List /\ statusList[l].exists /\ statusList[l] \in ListRow
        BY DEF Lists, TypeInv, TypeOK
      <3>2. r \in Call /\ Shape(r, statusList)
        BY <1>0, <3>1 DEF Call, Shape
      <3>3. call' = [call EXCEPT ![k] = r] /\ statusList' = statusList
        BY <2>1 DEF Continue, Find
      <3> QED
        BY <3>2, <3>3, CallKept
    <2>2. ASSUME Continue(k, [call[k] EXCEPT !.pc = "naming",
                                             !.then = "counting"])
          PROVE  call' \in [Client -> Call] /\ CallShape'
      <3> DEFINE r == [call[k] EXCEPT !.pc = "naming", !.then = "counting"]
      <3>2. r \in Call /\ Shape(r, statusList)
        BY <1>0 DEF Call, Shape, Find
      <3>3. call' = [call EXCEPT ![k] = r] /\ statusList' = statusList
        BY <2>2 DEF Continue, Find
      <3> QED
        BY <3>2, <3>3, CallKept
    <2> QED
      BY <2>1, <2>2 DEF Find
  <1>2. raced' \subseteq List
    BY WatchType DEF Find, Continue
  <1> QED
    BY <1>1, <1>2 DEF Find, Continue, history, TypeInv, TypeOK

LEMMA TypeCount ==
  ASSUME TypeInv, NEW k \in Client, Count(k)
  PROVE  TypeInv'
  <1> DEFINE pc == IF Cardinality(Using(call[k].list)) >= Limit
                     THEN "filling" ELSE "picking"
             r == [call[k] EXCEPT !.pc = pc]
  <1>0. call[k] \in Call /\ Shape(call[k], statusList)
    BY DEF TypeInv, TypeOK, CallShape
  <1>1. r \in Call /\ Shape(r, statusList')
    <2>1. pc \in {"filling", "picking"}
      OBVIOUS
    <2> HIDE DEF pc
    <2> QED
      BY <1>0, <2>1 DEF Call, Shape, Count
  <1>2. call' \in [Client -> Call] /\ CallShape'
    BY <1>1, CallKept DEF Count, Continue
  <1> QED
    BY <1>2, WatchType DEF Count, Continue, history, TypeInv, TypeOK

LEMMA TypeFill ==
  ASSUME TypeInv, NEW k \in Client, Fill(k)
  PROVE  TypeInv'
  <1> DEFINE r == [call[k] EXCEPT !.pc = "naming", !.then = "picking"]
             row == [call[k].copy EXCEPT !.full = TRUE]
  <1> USE Records, Numbers
  <1>0. call[k] \in Call /\ Shape(call[k], statusList) /\ call[k].pc = "filling"
    BY DEF TypeInv, TypeOK, CallShape, Fill
  <1>1. call[k].list \in List /\ row \in ListRow /\ row.exists
    BY <1>0, CallParts DEF Shape, ListRow
  <1>2. /\ statusList' \in [List -> ListRow]
        /\ \A m \in List : statusList[m].exists => statusList'[m].exists
    BY <1>1, RowKept DEF Fill
  <1>3. r \in Call /\ Shape(r, statusList')
    BY <1>0, <1>1, <1>2 DEF Call, Shape
  <1>4. call' \in [Client -> Call] /\ CallShape'
    BY <1>2, <1>3, CallKept DEF Fill, Continue
  <1> QED
    BY <1>2, <1>4, WatchType DEF Fill, Continue, history, TypeInv, TypeOK

LEMMA TypeName ==
  ASSUME TypeInv, NEW k \in Client, Name(k)
  PROVE  TypeInv'
  <1> DEFINE n == Cardinality(Lists)
             r == [call[k] EXCEPT !.pc = "creating", !.copy = NewList,
                                  !.list = n]
  <1> USE Records, Numbers
  <1>0. call[k] \in Call /\ Shape(call[k], statusList) /\ n \in List
    BY DEF TypeInv, TypeOK, CallShape, Name
  <1>1. call' = [call EXCEPT ![k] = r] /\ UNCHANGED statusList
    BY DEF Name, Continue
  <1> HIDE DEF n
  <1>2. r \in Call /\ Shape(r, statusList')
    BY <1>0 DEF Call, Shape
  <1>3. call' \in [Client -> Call] /\ CallShape'
    BY <1>1, <1>2, CallKept
  <1> QED
    BY <1>3, WatchType DEF Name, Continue, history, TypeInv, TypeOK

LEMMA TypeCreate ==
  ASSUME TypeInv, NEW k \in Client, CreateList(k)
  PROVE  TypeInv'
  <1> DEFINE r == [call[k] EXCEPT !.pc = "recording"]
  <1> USE Records, Numbers
  <1>0. call[k] \in Call /\ Shape(call[k], statusList)
    BY DEF TypeInv, TypeOK, CallShape
  <1>1. r \in Call /\ Shape(r, statusList')
    BY <1>0 DEF Call, Shape, CreateList
  <1>2. call' \in [Client -> Call] /\ CallShape'
    BY <1>1, CallKept DEF CreateList, Continue
  <1> QED
    BY <1>2, WatchType DEF CreateList, Continue, history, TypeInv, TypeOK

LEMMA TypeRecord ==
  ASSUME TypeInv, NEW k \in Client, RecordList(k)
  PROVE  TypeInv'
  <1> DEFINE r == [call[k] EXCEPT !.pc = call[k].then]
  <1> USE Records, Numbers
  <1>0. /\ call[k] \in Call /\ Shape(call[k], statusList)
        /\ call[k].pc = "recording"
    BY DEF TypeInv, TypeOK, CallShape, RecordList
  <1>1. call[k].list \in List /\ call[k].copy = NewList
    BY <1>0 DEF Shape
  <1>2. /\ statusList' \in [List -> ListRow]
        /\ statusList'[call[k].list] = NewList
        /\ \A m \in List : statusList[m].exists => statusList'[m].exists
    BY <1>1, RowKept DEF RecordList
  <1>3. r \in Call /\ Shape(r, statusList')
    BY <1>0, <1>1, <1>2 DEF Call, Shape
  <1>4. call' \in [Client -> Call] /\ CallShape'
    BY <1>2, <1>3, CallKept DEF RecordList, Continue
  <1> QED
    BY <1>2, <1>4, WatchType DEF RecordList, Continue, history, TypeInv, TypeOK

LEMMA TypePick ==
  ASSUME TypeInv, NEW k \in Client, Pick(k)
  PROVE  TypeInv'
  <1> USE Records, Numbers
  <1>0. /\ call[k] \in Call /\ Shape(call[k], statusList)
        /\ call[k].pc = "picking"
    BY DEF TypeInv, TypeOK, CallShape, Pick
  <1>1. PICK i \in Index :
          Continue(k, IF call[k].on = None THEN NoCall
                      ELSE [call[k] EXCEPT !.pc = "signing", !.index = i])
    BY DEF Pick
  <1> DEFINE r == IF call[k].on = None THEN NoCall
                  ELSE [call[k] EXCEPT !.pc = "signing", !.index = i]
  <1>2. r \in Call /\ Shape(r, statusList')
    <2>1. CASE call[k].on = None
      BY <2>1, NoShape
    <2>2. CASE call[k].on # None
      BY <1>0, <2>2 DEF Call, Shape, Pick
    <2> QED
      BY <2>1, <2>2
  <1>3. call' = [call EXCEPT ![k] = r] /\ UNCHANGED statusList
    BY <1>1 DEF Continue, Pick
  <1>4. call' \in [Client -> Call] /\ CallShape'
    BY <1>2, <1>3, CallKept
  <1> QED
    BY <1>1, <1>4, WatchType DEF Pick, Continue, history, TypeInv, TypeOK

\* A credential's row that is saved keeps the types.
LEMMA CredentialKept ==
  ASSUME TypeInv, NEW c \in Cred, NEW r \in CredentialRow,
         credential' = [credential EXCEPT ![c] = r],
         r.list = None <=> r.index = None,
         r.list # None => statusList[r.list].exists,
         UNCHANGED statusList
  PROVE  /\ credential' \in [Cred -> CredentialRow]
         /\ \A d \in Cred :
              /\ credential'[d].list = None <=> credential'[d].index = None
              /\ credential'[d].list # None
                   => statusList'[credential'[d].list].exists
  BY DEF TypeInv, TypeOK

LEMMA TypeSaveIssued ==
  ASSUME TypeInv, NEW k \in Client, SaveIssued(k)
  PROVE  TypeInv'
  <1> USE Records, Numbers
  <1> DEFINE r == call[k]
             row == IF r.list = None THEN [credential[r.on] EXCEPT !.exists = TRUE]
                    ELSE [credential[r.on] EXCEPT !.exists = TRUE,
                                        !.list = r.list, !.index = r.index]
  <1>0. r \in Call /\ Shape(r, statusList) /\ r.pc = "signing"
    BY DEF TypeInv, TypeOK, CallShape, SaveIssued
  <1>1. r.on \in Cred /\ credential[r.on] \in CredentialRow
    BY <1>0 DEF Shape, TypeInv, TypeOK
  <1>2. /\ row \in CredentialRow
        /\ row.list = None <=> row.index = None
        /\ row.list # None => statusList[row.list].exists
    <2>1. CASE r.list = None
      BY <1>1, <2>1 DEF CredentialRow, TypeInv, TypeOK
    <2>2. CASE r.list # None
      BY <1>0, <1>1, <2>2, CallParts DEF CredentialRow, Shape
    <2> QED
      BY <2>1, <2>2
  <1>3. /\ credential' = [credential EXCEPT ![r.on] = row]
        /\ call' = [call EXCEPT ![k] = NoCall] /\ UNCHANGED statusList
    BY <1>1 DEF SaveIssued, Continue, TypeInv, TypeOK
  <1> HIDE DEF r, row
  <1>4. call' \in [Client -> Call] /\ CallShape'
    BY <1>3, CallKept, NoShape
  <1>5. /\ credential' \in [Cred -> CredentialRow]
        /\ \A d \in Cred :
             /\ credential'[d].list = None <=> credential'[d].index = None
             /\ credential'[d].list # None
                  => statusList'[credential'[d].list].exists
    BY <1>1, <1>2, <1>3, CredentialKept
  <1> QED
    BY <1>4, <1>5, WatchType DEF SaveIssued, Continue, history, TypeInv, TypeOK

LEMMA TypeRevoke ==
  ASSUME TypeInv, NEW k \in Client, NEW c \in Cred, Revoke(k, c)
  PROVE  TypeInv'
  <1> USE Records, Numbers
  <1> DEFINE r == credential[c]
             copy == [statusList[r.list] EXCEPT !.revoked = @ \cup {r.index}]
             new == [NoCall EXCEPT !.pc = "publishing", !.on = c, !.old = r,
                       !.list = r.list, !.index = r.index, !.copy = copy]
  <1>1. /\ r \in CredentialRow /\ r.list \in List /\ r.index \in Index
        /\ statusList[r.list] \in ListRow /\ statusList[r.list].exists
    BY DEF Revoke, TypeInv, TypeOK, CredentialRow
  <1>2. copy \in ListRow /\ copy.exists
    BY <1>1 DEF ListRow
  <1>3. call' = [call EXCEPT ![k] = new] /\ UNCHANGED statusList
    BY DEF Revoke, Begin
  <1>4. EntryOf(c) \in Entry
    BY <1>1 DEF EntryOf, Entry
  <1>5. new \in Call /\ Shape(new, statusList')
    <2> HIDE DEF copy, r
    <2> QED
      BY <1>1, <1>2, <1>3 DEF NoCall, Call, Shape
  <1>6. call' \in [Client -> Call] /\ CallShape'
    BY <1>3, <1>5, CallKept
  <1> QED
    BY <1>4, <1>6, WatchType, ClientAssumption
    DEF Revoke, Begin, TypeInv, TypeOK

LEMMA TypePublish ==
  ASSUME TypeInv, NEW k \in Client, Publish(k)
  PROVE  TypeInv'
  <1> DEFINE r == [call[k] EXCEPT !.pc = "saving"]
  <1> USE Records, Numbers
  <1>0. call[k] \in Call /\ Shape(call[k], statusList)
    BY DEF TypeInv, TypeOK, CallShape
  <1>1. r \in Call /\ Shape(r, statusList')
    BY <1>0 DEF Call, Shape, Publish
  <1>2. call' \in [Client -> Call] /\ CallShape'
    BY <1>1, CallKept DEF Publish, Continue
  <1>3. published' \in [List -> SUBSET Index]
    BY <1>0, CallParts DEF Publish, TypeInv, TypeOK
  <1> QED
    BY <1>2, <1>3, WatchType DEF Publish, Continue, history, TypeInv, TypeOK

LEMMA TypeSaveList ==
  ASSUME TypeInv, NEW k \in Client, SaveList(k)
  PROVE  TypeInv'
  <1> DEFINE r == [call[k] EXCEPT !.pc = "flagging"]
  <1> USE Records, Numbers
  <1>0. call[k] \in Call /\ Shape(call[k], statusList) /\ call[k].pc = "saving"
    BY DEF TypeInv, TypeOK, CallShape, SaveList
  <1>1. call[k].list \in List /\ call[k].copy \in ListRow /\ call[k].copy.exists
    BY <1>0, CallParts DEF Shape
  <1>2. /\ statusList' \in [List -> ListRow]
        /\ \A m \in List : statusList[m].exists => statusList'[m].exists
    BY <1>1, RowKept DEF SaveList
  <1>3. r \in Call /\ Shape(r, statusList')
    BY <1>0, <1>1, <1>2 DEF Call, Shape
  <1>4. call' \in [Client -> Call] /\ CallShape'
    BY <1>2, <1>3, CallKept DEF SaveList, Continue
  <1> QED
    BY <1>2, <1>4, WatchType DEF SaveList, Continue, history, TypeInv, TypeOK

LEMMA TypeFlag ==
  ASSUME TypeInv, RevokingAsked, NEW k \in Client, Flag(k)
  PROVE  TypeInv'
  <1> USE Records, Numbers
  <1> DEFINE r == call[k]
             row == [r.old EXCEPT !.revoked = TRUE]
  <1>0. r \in Call /\ Shape(r, statusList) /\ r.pc = "flagging"
    BY DEF TypeInv, TypeOK, CallShape, Flag
  <1>1. /\ r.on \in Cred /\ r.list \in List /\ r.index \in Index
        /\ row \in CredentialRow /\ row.list = r.list /\ row.index = r.index
        /\ statusList[r.list].exists
    BY <1>0, CallParts DEF Shape, CredentialRow
  <1>2. /\ credential' = [credential EXCEPT ![r.on] = row]
        /\ call' = [call EXCEPT ![k] = NoCall] /\ UNCHANGED statusList
        /\ denied' = denied \cup {<<r.on, r.list, r.index>>}
    BY DEF Flag, Continue
  <1>5. denied' \subseteq asked'
    BY <1>0, <1>2 DEF Flag, RevokingAsked, TypeInv, TypeOK
  <1> HIDE DEF r, row
  <1>3. call' \in [Client -> Call] /\ CallShape'
    BY <1>2, CallKept, NoShape
  <1>4. /\ credential' \in [Cred -> CredentialRow]
        /\ \A d \in Cred :
             /\ credential'[d].list = None <=> credential'[d].index = None
             /\ credential'[d].list # None
                  => statusList'[credential'[d].list].exists
    BY <1>1, <1>2, CredentialKept
  <1> QED
    BY <1>3, <1>4, <1>5, WatchType DEF Flag, Continue, TypeInv, TypeOK

LEMMA TypeDelete ==
  ASSUME TypeInv, NEW k \in Client, NEW c \in Cred, Delete(k, c)
  PROVE  TypeInv'
  <1> DEFINE r == [NoCall EXCEPT !.pc = "removing", !.on = c,
                                 !.list = credential[c].list]
  <1> USE Records, Numbers
  <1>1. credential[c].list # None =>
          /\ credential[c].list \in List
          /\ statusList[credential[c].list].exists
    BY DEF TypeInv, TypeOK, CredentialRow
  <1>2. r \in Call /\ Shape(r, statusList')
    BY <1>1 DEF NoCall, Call, Shape, Delete
  <1>3. call' \in [Client -> Call] /\ CallShape'
    BY <1>2, CallKept DEF Delete, Begin
  <1> QED
    BY <1>3, WatchType, ClientAssumption
    DEF Delete, Begin, history, TypeInv, TypeOK

LEMMA TypeRemove ==
  ASSUME TypeInv, NEW k \in Client, Remove(k)
  PROVE  TypeInv'
  <1> USE Records, Numbers
  <1>1. call[k] \in Call /\ Shape(call[k], statusList)
    BY DEF TypeInv, TypeOK, CallShape
  <1>2. call[k].on \in Cred
    BY <1>1 DEF Shape, Remove
  <1>3. call' \in [Client -> Call] /\ CallShape'
    BY CallKept, NoShape DEF Remove, Continue
  <1>4. /\ credential' \in [Cred -> CredentialRow]
        /\ \A d \in Cred :
             /\ credential'[d].list = None <=> credential'[d].index = None
             /\ credential'[d].list # None
                  => statusList'[credential'[d].list].exists
    BY <1>2, CredentialKept DEF Remove
  <1> QED
    BY <1>3, <1>4, WatchType DEF Remove, Continue, history, TypeInv, TypeOK

LEMMA TypeTrouble ==
  ASSUME TypeInv,
         \/ \E k \in Client : Fail(k)
         \/ \E K \in Boots : Restart(K)
  PROVE  TypeInv'
  <1> USE Records, Numbers
  <1>1. ASSUME NEW k \in Client, Fail(k) PROVE TypeInv'
    <2>1. call' \in [Client -> Call] /\ CallShape'
      BY <1>1, CallKept, NoShape DEF Fail
    <2> QED
      BY <1>1, <2>1 DEF Fail, history, TypeInv, TypeOK
  <1>2. ASSUME NEW K \in Boots, Restart(K) PROVE TypeInv'
    <2>1. \A k \in Client : /\ Booted(K)[k] \in Call
                            /\ Shape(Booted(K)[k], statusList')
      BY DEF Booted, NoCall, Call, Shape
    <2>2. call' = Booted(K)
      BY <1>2 DEF Restart
    <2>3. call' \in [Client -> Call] /\ CallShape'
      BY <2>1, <2>2 DEF Booted, CallShape
    <2> QED
      BY <1>2, <2>3 DEF Restart, history, TypeInv, TypeOK
  <1> QED
    BY <1>1, <1>2

LEMMA TypeStep == TypeInv /\ RevokingAsked /\ [Next]_vars => TypeInv'
  <1> SUFFICES ASSUME TypeInv, RevokingAsked, [Next]_vars PROVE TypeInv'
    OBVIOUS
  <1>1. ASSUME NEW k \in Client, Step(k) PROVE TypeInv'
    BY <1>1, TypeIssue, TypeFind, TypeCount, TypeFill, TypeName, TypeCreate,
       TypeRecord, TypePick, TypeSaveIssued, TypeRevoke, TypePublish,
       TypeSaveList, TypeFlag, TypeDelete, TypeRemove, TypeTrouble
    DEF Step, IssueByIdentifier, IssueByName, Update
  <1>2. CASE UNCHANGED vars
    BY <1>2 DEF vars, history, TypeInv, TypeOK, CallShape
  <1> QED
    BY <1>1, <1>2, TypeTrouble DEF Next

\* What a step does to the calls: the client's call goes on, or all are lost.
LEMMA AskedStep ==
  TypeInv /\ RevokingAsked /\ [Next]_vars => RevokingAsked'
  <1> SUFFICES ASSUME TypeInv, RevokingAsked, [Next]_vars,
                      NEW k \in Client, call'[k].pc \in Revoking
               PROVE  <<call'[k].on, call'[k].list, call'[k].index>> \in asked'
    BY DEF RevokingAsked
  <1>0. /\ \A j \in Client : call[j] \in Call
        /\ NoCall.pc = "idle"
        /\ call[k].pc \in Revoking =>
             <<call[k].on, call[k].list, call[k].index>> \in asked
        /\ call \in [Client -> Call]
    BY Records DEF TypeInv, TypeOK, RevokingAsked
  <1>1. ASSUME NEW j \in Client, Step(j)
        PROVE  \/ /\ call[k].pc \in Revoking /\ asked \subseteq asked'
                  /\ call'[k].on = call[k].on /\ call'[k].list = call[k].list
                  /\ call'[k].index = call[k].index
               \/ \E c \in Cred : Revoke(j, c) /\ j = k
    <2>1. CASE \E c \in Cred, b \in BOOLEAN : SelfIssue(j, c, b)
      BY <1>0, <2>1 DEF SelfIssue, Begin, history, NoCall
    <2>0. ASSUME NEW r, Continue(j, r)
          PROVE  call'[k] = IF k = j THEN r ELSE call[k]
      BY <1>0, <2>0 DEF Continue
    <2>2. CASE Find(j)
      <3>1. PICK r \in {"counting", "naming"} : call'[j].pc = r
        BY <1>0, <2>0, <2>2 DEF Find, Call, Continue
      <3>2. j # k => call'[k] = call[k]
        BY <1>0, <2>2 DEF Find, Continue
      <3> QED
        BY <1>0, <2>2, <3>1, <3>2 DEF Find, history
    <2>3. CASE Count(j)
      <3> DEFINE pc == IF Cardinality(Using(call[j].list)) >= Limit
                         THEN "filling" ELSE "picking"
      <3>1. pc \in {"filling", "picking"}
        OBVIOUS
      <3>2. Continue(j, [call[j] EXCEPT !.pc = pc]) /\ asked' = asked
        BY <2>3 DEF Count, history
      <3> HIDE DEF pc
      <3>3. [call[j] EXCEPT !.pc = pc].pc = pc
        BY <1>0 DEF Call
      <3> QED
        BY <2>0, <3>1, <3>2, <3>3
    <2>4. CASE Fill(j) \/ Name(j) \/ CreateList(j) \/ RecordList(j)
      <3>1. CASE Fill(j)
        BY <1>0, <3>1 DEF Fill, Call, Continue, history
      <3>2. CASE Name(j)
        BY <1>0, <3>2 DEF Name, Call, Continue, history
      <3>3. CASE CreateList(j)
        BY <1>0, <2>0, <3>3 DEF CreateList, Call, history
      <3>4. CASE RecordList(j)
        BY <1>0, <2>0, <3>4 DEF RecordList, Call, history
      <3> QED
        BY <2>4, <3>1, <3>2, <3>3, <3>4
    <2>5. CASE Pick(j) \/ SaveIssued(j)
      <3>1. CASE Pick(j)
        <4>1. call'[j].pc \in {"idle", "signing"}
          BY <1>0, <2>0, <3>1 DEF Pick, Call, Continue
        <4>2. j # k => call'[k] = call[k]
          BY <1>0, <3>1 DEF Pick, Continue
        <4> QED
          BY <1>0, <3>1, <4>1, <4>2 DEF Pick, history
      <3>2. CASE SaveIssued(j)
        BY <1>0, <3>2 DEF SaveIssued, Continue, history
      <3> QED
        BY <2>5, <3>1, <3>2
    <2>6. CASE \E c \in Cred : Revoke(j, c)
      BY <1>0, <2>6 DEF Revoke, Begin
    <2>7. CASE Publish(j) \/ SaveList(j)
      BY <1>0, <2>0, <2>7 DEF Publish, SaveList, Call, history
    <2>8. CASE Flag(j) \/ Remove(j) \/ Fail(j)
      <3>1. CASE Flag(j)
        BY <1>0, <2>0, <3>1 DEF Flag
      <3>2. CASE Remove(j)
        BY <1>0, <2>0, <3>2 DEF Remove, history
      <3>3. CASE Fail(j)
        <4>1. call' = [call EXCEPT ![j] = NoCall] /\ asked' = asked
          BY <3>3 DEF Fail, history
        <4> QED
          BY <1>0, <4>1
      <3> QED
        BY <2>8, <3>1, <3>2, <3>3
    <2>9. CASE \E c \in Cred : Delete(j, c)
      BY <1>0, <2>9 DEF Delete, Begin, history, NoCall
    <2> QED
      BY <1>1, <2>1, <2>2, <2>3, <2>4, <2>5, <2>6, <2>7, <2>8, <2>9
      DEF Step, IssueByIdentifier, IssueByName, Update
  <1>2. ASSUME NEW K \in Boots, Restart(K)
        PROVE  call'[k].pc \notin Revoking
    BY <1>2 DEF Restart, Booted, NoCall
  <1>3. ASSUME NEW c \in Cred, Revoke(k, c)
        PROVE  <<call'[k].on, call'[k].list, call'[k].index>> \in asked'
    BY <1>0, <1>3 DEF Revoke, Begin, EntryOf, NoCall
  <1>4. CASE UNCHANGED vars
    BY <1>0, <1>4 DEF vars, history
  <1> QED
    BY <1>0, <1>1, <1>2, <1>3, <1>4 DEF Next

\* The rows and the calls have the shape the code gives them; an entry whose
\* revocation was answered was asked to be revoked (CredentialsService).
THEOREM StatusTypes == Spec => []TypeOK
  <1>1. Init => RevokingAsked
    <2> SUFFICES ASSUME Init, NEW K \in Boots, call = Booted(K)
                 PROVE  RevokingAsked
      BY DEF Init
    <2> QED
      BY DEF Booted, NoCall, RevokingAsked
  <1>2. TypeInv /\ RevokingAsked /\ [Next]_vars
          => (TypeInv /\ RevokingAsked)'
    BY TypeStep, AskedStep
  <1>3. TypeInv => TypeOK
    BY DEF TypeInv
  <1> QED
    BY <1>1, <1>2, <1>3, TypeInit, PTL DEF Spec

----------------------------------------------------------------------------
(* Lists and the calls that work on them.                                   *)

LEMMA RacedStep ==
  TypeInv /\ RacedKnown /\ [Next]_vars => RacedKnown' /\ raced \subseteq raced'
  <1> SUFFICES ASSUME TypeInv, RacedKnown, [Next]_vars
               PROVE  RacedKnown' /\ raced \subseteq raced'
    OBVIOUS
  <1> USE Records, Numbers
  <1>1. CASE Watch
    BY <1>1 DEF Watch, RacedKnown
  <1>2. ASSUME NEW k \in Client, Step(k), ~Watch PROVE Fail(k)
    BY <1>2 DEF Step, SelfIssue, IssueByIdentifier, IssueByName, Update, Find,
      Count, Fill, Name, CreateList, RecordList, Pick, SaveIssued, Revoke,
      Publish, SaveList, Flag, Delete, Remove, Begin, Continue
  <1>3. ASSUME NEW k \in Client, Fail(k)
        PROVE  RacedKnown' /\ raced \subseteq raced'
    <2>1. /\ call' = [call EXCEPT ![k] = NoCall] /\ raced' = raced
          /\ call \in [Client -> Call]
      BY <1>3 DEF Fail, TypeInv, TypeOK
    <2>2. \A l \in List : Shared(l)' => Shared(l)
      BY <2>1 DEF Shared
    <2> QED
      BY <2>1, <2>2 DEF RacedKnown
  <1>4. ASSUME NEW K \in Boots, Restart(K)
        PROVE  RacedKnown' /\ raced \subseteq raced'
    <2>1. \A k \in Client : call'[k].list = None
      BY <1>4 DEF Restart, Booted, NoCall
    <2>2. raced' = raced
      BY <1>4 DEF Restart
    <2> QED
      BY <2>1, <2>2, ClientAssumption DEF RacedKnown, Shared
  <1>5. CASE UNCHANGED vars
    BY <1>5 DEF vars, RacedKnown, Shared
  <1> QED
    BY <1>1, <1>2, <1>3, <1>4, <1>5 DEF Next

\* What is known on both sides of a step.
Stepping == /\ TypeInv /\ TypeInv' /\ RacedKnown'
            /\ raced \subseteq raced'

\* Where the calls and the lists are, before and after a step.
LEMMA Places ==
  ASSUME Stepping
  PROVE  /\ \A k \in Client :
              /\ call[k] \in Call /\ Shape(call[k], statusList)
              /\ call'[k] \in Call /\ Shape(call'[k], statusList')
         /\ \A l \in List :
              /\ statusList[l] \in ListRow /\ statusList'[l] \in ListRow
              /\ published[l] \subseteq Index /\ published'[l] \subseteq Index
         /\ \A j, k \in Client :
              j # k /\ call'[k].list \in List \ raced'
                => call'[j].list # call'[k].list
  <1>1. \A j, k \in Client :
          j # k /\ call'[k].list \in List \ raced'
            => call'[j].list # call'[k].list
    BY DEF Stepping, RacedKnown, Shared
  <1> QED
    BY <1>1 DEF Stepping, TypeInv, TypeOK, CallShape

\* A step of one call that leaves the lists alone.
LEMMA ListQuiet ==
  ASSUME Stepping, ListInv, NEW k \in Client,
         UNCHANGED <<statusList, published, denied>>,
         \A j \in Client : j # k => call'[j] = call[j],
         call'[k].pc \in Making =>
           /\ \A m \in List : m < call'[k].list => statusList[m].exists
           /\ call'[k].list \notin raced' => ~statusList[call'[k].list].exists,
         call'[k].list \in List \ raced'
           => Known(call'[k], statusList, published)
  PROVE  ListInv'
  <1> USE DEF ListInv
  <1>1. Numbered'
    BY DEF Numbered
  <1>2. MadeOnce'
    BY DEF MadeOnce, Stepping
  <1>3. CopiesKnown'
    <2> SUFFICES ASSUME NEW j \in Client, call'[j].list \in List \ raced'
                 PROVE  Known(call'[j], statusList', published')
      BY DEF CopiesKnown
    <2>1. CASE j = k
      BY <2>1
    <2>2. CASE j # k
      <3>1. call[j].list \in List \ raced
        BY <2>2 DEF Stepping
      <3> QED
        BY <2>2, <3>1 DEF CopiesKnown
    <2> QED
      BY <2>1, <2>2
  <1>4. Blank' /\ DeniedKnown'
    BY DEF Blank, DeniedKnown
  <1>5. Shown' /\ RevocationsStick'
    BY DEF Shown, RevocationsStick, Stepping
  <1> QED
    BY <1>1, <1>2, <1>3, <1>4, <1>5 DEF Stepping

LEMMA ListBegins ==
  ASSUME Stepping, ListInv, NEW k \in Client, NEW c \in Cred,
         \/ \E b \in BOOLEAN : SelfIssue(k, c, b)
         \/ Delete(k, c)
         \/ Revoke(k, c)
  PROVE  ListInv'
  <1> USE Records, Numbers
  <1>0. call \in [Client -> Call]
    BY DEF Stepping, TypeInv, TypeOK
  <1>1. ASSUME NEW b \in BOOLEAN, SelfIssue(k, c, b) PROVE ListInv'
    <2>1. call'[k].list = None /\ call'[k].pc \in {"finding", "signing"}
      BY <1>0, <1>1 DEF SelfIssue, Begin, NoCall
    <2> QED
      BY <1>0, <1>1, <2>1, ListQuiet DEF SelfIssue, Begin, history
  <1>2. CASE Delete(k, c)
    <2>1. call'[k].pc = "removing"
      BY <1>0, <1>2 DEF Delete, Begin, NoCall
    <2> QED
      BY <1>0, <1>2, <2>1, ListQuiet DEF Delete, Begin, history, Known
  <1>3. CASE Revoke(k, c)
    <2> DEFINE r == credential[c]
    <2>1. /\ r.list \in List /\ statusList[r.list] \in ListRow
      BY <1>3 DEF Revoke, Stepping, TypeInv, TypeOK, CredentialRow
    <2>2. /\ call'[k].pc = "publishing" /\ call'[k].list = r.list
          /\ call'[k].index = r.index
          /\ call'[k].copy = [statusList[r.list] EXCEPT
                                !.revoked = @ \cup {r.index}]
      BY <1>0, <1>3 DEF Revoke, Begin, NoCall
    <2>3. Known(call'[k], statusList, published)
      <3> HIDE DEF r
      <3> QED
        BY <2>1, <2>2 DEF Known, ListRow
    <2> QED
      BY <1>0, <1>3, <2>2, <2>3, ListQuiet DEF Revoke, Begin
  <1> QED
    BY <1>1, <1>2, <1>3

LEMMA ListFind ==
  ASSUME Stepping, ListInv, NEW k \in Client, Find(k)
  PROVE  ListInv'
  <1>0. call \in [Client -> Call] /\ call[k] \in Call
    BY DEF Stepping, TypeInv, TypeOK
  <1>1. \/ /\ call'[k].pc = "counting"
           /\ call'[k].copy = statusList[call'[k].list]
        \/ call'[k].pc = "naming"
    <2>1. ASSUME NEW l \in Lists,
                 Continue(k, [call[k] EXCEPT !.pc = "counting", !.list = l,
                                             !.copy = statusList[l]])
          PROVE  /\ call'[k].pc = "counting"
                 /\ call'[k].copy = statusList[call'[k].list]
      BY <1>0, <2>1 DEF Continue, Call
    <2>2. ASSUME Continue(k, [call[k] EXCEPT !.pc = "naming",
                                             !.then = "counting"])
          PROVE  call'[k].pc = "naming"
      BY <1>0, <2>2 DEF Continue, Call
    <2> QED
      BY <2>1, <2>2 DEF Find
  <1>2. \A j \in Client : j # k => call'[j] = call[j]
    BY <1>0 DEF Find, Continue
  <1>3. UNCHANGED <<statusList, published, denied>>
    BY DEF Find, history
  <1>4. Known(call'[k], statusList, published)
    BY <1>1 DEF Known
  <1> QED
    BY <1>1, <1>2, <1>3, <1>4, ListQuiet

LEMMA ListCount ==
  ASSUME Stepping, ListInv, NEW k \in Client, Count(k)
  PROVE  ListInv'
  <1> DEFINE pc == IF Cardinality(Using(call[k].list)) >= Limit
                     THEN "filling" ELSE "picking"
  <1>0. call \in [Client -> Call] /\ call[k] \in Call
    BY DEF Stepping, TypeInv, TypeOK
  <1>1. pc \in {"filling", "picking"} /\ call[k].pc = "counting"
    BY DEF Count
  <1>2. call' = [call EXCEPT ![k] = [call[k] EXCEPT !.pc = pc]]
    BY DEF Count, Continue
  <1> HIDE DEF pc
  <1>3. /\ call'[k].pc \in {"filling", "picking"}
        /\ call'[k].list = call[k].list /\ call'[k].copy = call[k].copy
        /\ \A j \in Client : j # k => call'[j] = call[j]
    BY <1>0, <1>1, <1>2 DEF Call
  <1>4. call'[k].list \in List \ raced'
          => Known(call'[k], statusList, published)
    BY <1>1, <1>3 DEF Known, ListInv, CopiesKnown, Stepping
  <1> QED
    BY <1>3, <1>4, ListQuiet DEF Count, history

\* The lists there are, and so their number, are the first ones.
LEMMA FirstLists ==
  ASSUME Numbered, Cardinality(Lists) \in List
  PROVE  /\ Cardinality(Lists) \notin Lists
         /\ \A m \in List : m < Cardinality(Lists) => m \in Lists
  <1> DEFINE n == Cardinality(Lists)
  <1>1. /\ List = 0 .. MaxList /\ MaxList \in Nat
        /\ n \in Nat /\ Lists \subseteq List
    BY ListAssumption, Numbers DEF List, Lists
  <1>2. \A l \in Lists : \A m \in List : m < l => m \in Lists
    BY <1>1 DEF Numbered, Lists
  <1>3. IsFiniteSet(Lists)
    <2>1. IsFiniteSet(0 .. MaxList)
      BY <1>1, FS_Interval
    <2> QED
      BY <1>1, <2>1, FS_Subset
  <1> HIDE DEF n
  <1>4. \A l \in Lists : l < n
    <2> SUFFICES ASSUME NEW l \in Lists PROVE l < n
      OBVIOUS
    <2>1. 0 .. l \subseteq Lists
      BY <1>1, <1>2
    <2>2. Cardinality(0 .. l) = l + 1 /\ l \in Nat
      BY <1>1, FS_Interval
    <2>3. Cardinality(0 .. l) <= n
      BY <1>3, <2>1, FS_Subset DEF n
    <2> QED
      BY <1>1, <2>2, <2>3
  <1>5. ASSUME NEW m \in List, m < n PROVE m \in Lists
    <2> SUFFICES ASSUME m \notin Lists PROVE FALSE
      OBVIOUS
    <2>1. m \in Nat
      BY <1>1
    <2>2. Lists \subseteq 0 .. (m - 1)
      BY <1>1, <1>2, <2>1
    <2>3. IsFiniteSet(0 .. (m - 1)) /\ Cardinality(0 .. (m - 1)) = m
      BY <2>1, FS_Interval
    <2>4. n <= m
      BY <2>2, <2>3, FS_Subset DEF n
    <2> QED
      BY <1>1, <1>5, <2>1, <2>4
  <1> QED
    BY <1>1, <1>4, <1>5 DEF n

LEMMA ListName ==
  ASSUME Stepping, ListInv, NEW k \in Client, Name(k)
  PROVE  ListInv'
  <1> DEFINE n == Cardinality(Lists)
  <1> USE Records
  <1>0. call \in [Client -> Call] /\ call[k] \in Call
    BY DEF Stepping, TypeInv, TypeOK
  <1>1. n \notin Lists /\ n \in List /\ \A m \in List : m < n => m \in Lists
    BY FirstLists DEF Name, ListInv
  <1>2. call' = [call EXCEPT ![k] = [call[k] EXCEPT !.pc = "creating",
                                       !.copy = NewList, !.list = n]]
    BY DEF Name, Continue
  <1> HIDE DEF n
  <1>3. /\ call'[k].pc = "creating" /\ call'[k].list = n
        /\ \A j \in Client : j # k => call'[j] = call[j]
    BY <1>0, <1>2 DEF Call
  <1>4. Known(call'[k], statusList, published)
    BY <1>3 DEF Known
  <1>5. UNCHANGED <<statusList, published, denied>>
    BY DEF Name, history
  <1> QED
    BY <1>1, <1>3, <1>4, <1>5, ListQuiet DEF Lists

LEMMA ListPick ==
  ASSUME Stepping, ListInv, NEW k \in Client, Pick(k) \/ SaveIssued(k)
  PROVE  ListInv'
  <1> USE Records, Numbers
  <1>0. call \in [Client -> Call] /\ call[k] \in Call
    BY DEF Stepping, TypeInv, TypeOK
  <1>1. CASE Pick(k)
    <2>1. call'[k].pc \in {"idle", "signing"}
      <3>1. PICK i \in Index :
              Continue(k, IF call[k].on = None THEN NoCall
                          ELSE [call[k] EXCEPT !.pc = "signing", !.index = i])
        BY <1>1 DEF Pick
      <3>2. CASE call[k].on = None
        BY <1>0, <3>1, <3>2 DEF Continue
      <3>3. CASE call[k].on # None
        BY <1>0, <3>1, <3>3 DEF Continue, Call
      <3> QED
        BY <3>2, <3>3
    <2>2. /\ \A j \in Client : j # k => call'[j] = call[j]
          /\ UNCHANGED <<statusList, published, denied>>
      BY <1>0, <1>1 DEF Pick, Continue, history
    <2>3. Known(call'[k], statusList, published)
      BY <2>1 DEF Known
    <2> QED
      BY <2>1, <2>2, <2>3, ListQuiet
  <1>2. CASE SaveIssued(k)
    <2>1. /\ call'[k] = NoCall
          /\ \A j \in Client : j # k => call'[j] = call[j]
          /\ UNCHANGED <<statusList, published, denied>>
      BY <1>0, <1>2 DEF SaveIssued, Continue, history
    <2> QED
      BY <2>1, ListQuiet
  <1> QED
    BY <1>1, <1>2

LEMMA ListEnds ==
  ASSUME Stepping, ListInv, NEW k \in Client, Remove(k) \/ Fail(k)
  PROVE  ListInv'
  <1> USE Records, Numbers
  <1>1. call \in [Client -> Call]
    BY DEF Stepping, TypeInv, TypeOK
  <1>2. /\ call' = [call EXCEPT ![k] = NoCall]
        /\ UNCHANGED <<statusList, published, denied>>
    BY DEF Remove, Fail, Continue, history
  <1>3. /\ call'[k] = NoCall
        /\ \A j \in Client : j # k => call'[j] = call[j]
    BY <1>1, <1>2
  <1> QED
    BY <1>2, <1>3, ListQuiet

LEMMA ListRestart ==
  ASSUME Stepping, ListInv, NEW K \in Boots, Restart(K)
  PROVE  ListInv'
  <1> USE Records, Numbers
  <1>1. \A k \in Client :
          call'[k].list = None /\ call'[k].pc \in {"idle", "finding"}
    BY DEF Restart, Booted, NoCall
  <1>2. UNCHANGED <<statusList, published, denied, raced>>
    BY DEF Restart, history
  <1>3. Numbered' /\ MadeOnce' /\ CopiesKnown'
    BY <1>1, <1>2 DEF ListInv, Numbered, MadeOnce, CopiesKnown
  <1>4. Blank' /\ Shown' /\ DeniedKnown' /\ RevocationsStick'
    BY <1>2 DEF ListInv, Blank, Shown, DeniedKnown, RevocationsStick
  <1> QED
    BY <1>3, <1>4 DEF ListInv, Stepping

\* A call that writes a list and stays with it is the only one with that list,
\* or the list has been raced for: the other calls still know theirs.
LEMMA OthersKnown ==
  ASSUME Stepping, ListInv, NEW k \in Client, NEW l \in List,
         call'[k].list = l,
         \A m \in List : m # l => /\ statusList'[m] = statusList[m]
                                 /\ published'[m] = published[m],
         \A j \in Client : j # k => call'[j] = call[j],
         l \notin raced' => Known(call'[k], statusList', published')
  PROVE  CopiesKnown'
  <1> SUFFICES ASSUME NEW j \in Client, call'[j].list \in List \ raced'
               PROVE  Known(call'[j], statusList', published')
    BY DEF CopiesKnown
  <1>1. CASE j = k
    BY <1>1
  <1>2. CASE j # k
    <2>1. call'[j].list # l /\ call'[j] = call[j]
      BY <1>2, Places
    <2>2. /\ call[j].list \in List \ raced
          /\ statusList'[call[j].list] = statusList[call[j].list]
          /\ published'[call[j].list] = published[call[j].list]
      BY <2>1 DEF Stepping
    <2>3. Known(call[j], statusList, published)
      BY <2>2 DEF ListInv, CopiesKnown
    <2> QED
      BY <2>1, <2>2, <2>3 DEF Known
  <1> QED
    BY <1>1, <1>2

LEMMA ListFill ==
  ASSUME Stepping, ListInv, NEW k \in Client, Fill(k)
  PROVE  ListInv'
  <1> DEFINE l == call[k].list
             row == [call[k].copy EXCEPT !.full = TRUE]
  <1>0. /\ call \in [Client -> Call] /\ call[k] \in Call
        /\ call[k].pc = "filling" /\ l \in List /\ call[k].copy.exists
        /\ statusList[l].exists /\ call[k].copy \in ListRow
    BY Places, Numbers, CallParts
    DEF Shape, Stepping, TypeInv, TypeOK, Fill
  <1>1. /\ call'[k].pc = "naming" /\ call'[k].list = l
        /\ \A j \in Client : j # k => call'[j] = call[j]
    BY <1>0 DEF Fill, Continue, Call
  <1>2. /\ statusList'[l] = row
        /\ \A m \in List : m # l => statusList'[m] = statusList[m]
        /\ UNCHANGED <<published, denied>>
    BY <1>0 DEF Fill, history, Stepping, TypeInv, TypeOK
  <1>3. row.exists /\ row.revoked = call[k].copy.revoked
    BY <1>0 DEF ListRow
  <1> HIDE DEF l, row
  <1>4. \A m \in List : statusList'[m].exists <=> statusList[m].exists
    BY <1>0, <1>2, <1>3, Places DEF ListRow
  <1>5. \A m \in List \ raced' : statusList'[m].revoked = statusList[m].revoked
    BY <1>0, <1>2, <1>3 DEF ListInv, CopiesKnown, Known, Stepping, l
  <1>6. CopiesKnown'
    <2>1. Known(call'[k], statusList', published')
      BY <1>1 DEF Known
    <2> QED
      BY <1>0, <1>1, <1>2, <2>1, OthersKnown
  <1>7. Numbered' /\ MadeOnce'
    <2>1. \A j \in Client : call'[j].pc \in Making => call'[j].list \in List
      BY Places DEF Shape
    <2>2. Numbered'
      BY <1>1, <1>4 DEF ListInv, Numbered
    <2>3. MadeOnce'
      BY <1>1, <1>4, <2>1 DEF ListInv, MadeOnce, Stepping
    <2> QED
      BY <2>2, <2>3
  <1>8. Blank' /\ DeniedKnown'
    <2>1. Blank'
      BY <1>0, <1>2, <1>3, <1>4 DEF ListInv, Blank
    <2>2. DeniedKnown'
      BY <1>2, <1>4 DEF ListInv, DeniedKnown, Stepping, TypeInv, TypeOK, Entry
    <2> QED
      BY <2>1, <2>2
  <1>9. Shown' /\ RevocationsStick'
    <2>1. Shown'
      BY <1>2, <1>5 DEF ListInv, Shown, Stepping
    <2>2. RevocationsStick'
      BY <1>2, <1>5
      DEF ListInv, RevocationsStick, Stepping, TypeInv, TypeOK, Entry
    <2> QED
      BY <2>1, <2>2
  <1> QED
    BY <1>6, <1>7, <1>8, <1>9 DEF ListInv, Stepping

LEMMA ListCreate ==
  ASSUME Stepping, ListInv, NEW k \in Client, CreateList(k)
  PROVE  ListInv'
  <1> DEFINE l == call[k].list
  <1>0. /\ call \in [Client -> Call] /\ call[k] \in Call
        /\ call[k].pc = "creating" /\ l \in List
    BY Places DEF Shape, Stepping, TypeInv, TypeOK, CreateList
  <1>1. /\ call'[k].pc = "recording" /\ call'[k].list = l
        /\ \A j \in Client : j # k => call'[j] = call[j]
    BY <1>0 DEF CreateList, Continue, Call
  <1>2. /\ published'[l] = {}
        /\ \A m \in List : m # l => published'[m] = published[m]
        /\ UNCHANGED <<statusList, denied>>
    BY <1>0 DEF CreateList, history, Stepping, TypeInv, TypeOK
  <1> HIDE DEF l
  <1>3. l \notin raced' => ~statusList[l].exists /\ statusList[l].revoked = {}
    BY <1>0 DEF ListInv, MadeOnce, Blank, Stepping, l
  <1>4. CopiesKnown'
    <2>1. Known(call'[k], statusList', published')
      BY <1>1 DEF Known
    <2> QED
      BY <1>0, <1>1, <1>2, <2>1, OthersKnown
  <1>5. Numbered' /\ MadeOnce'
    BY <1>0, <1>1, <1>2, <1>3 DEF ListInv, Numbered, MadeOnce, Stepping, l
  <1>6. Blank' /\ DeniedKnown'
    BY <1>2 DEF ListInv, Blank, DeniedKnown
  <1>7. Shown'
    BY <1>2, <1>3 DEF ListInv, Shown, Stepping
  <1>8. RevocationsStick'
    <2> SUFFICES ASSUME NEW e \in denied, e[2] \notin raced'
                 PROVE  e[3] \in statusList[e[2]].revoked \cap published'[e[2]]
      BY <1>2 DEF RevocationsStick
    <2>1. e[2] \in List /\ statusList[e[2]].exists
      BY DEF ListInv, DeniedKnown, Stepping, TypeInv, TypeOK, Entry
    <2> QED
      BY <1>2, <1>3, <2>1 DEF ListInv, RevocationsStick, Stepping
  <1> QED
    BY <1>4, <1>5, <1>6, <1>7, <1>8 DEF ListInv, Stepping

LEMMA ListRecord ==
  ASSUME Stepping, ListInv, NEW k \in Client, RecordList(k)
  PROVE  ListInv'
  <1> DEFINE l == call[k].list
  <1> USE Records, Numbers
  <1>0. /\ call \in [Client -> Call] /\ call[k] \in Call
        /\ call[k].pc = "recording" /\ l \in List /\ call[k].copy = NewList
        /\ call[k].then \in {"counting", "picking"}
    BY Places, CallParts DEF Shape, Stepping, TypeInv, TypeOK, RecordList
  <1>1. /\ call'[k].pc \in {"counting", "picking"} /\ call'[k].list = l
        /\ call'[k].copy = NewList
        /\ \A j \in Client : j # k => call'[j] = call[j]
    BY <1>0 DEF RecordList, Continue, Call
  <1>2. /\ statusList'[l] = NewList
        /\ \A m \in List : m # l => statusList'[m] = statusList[m]
        /\ UNCHANGED <<published, denied>>
    BY <1>0 DEF RecordList, history, Stepping, TypeInv, TypeOK
  <1> HIDE DEF l
  <1>3. l \notin raced' => ~statusList[l].exists
    BY <1>0 DEF ListInv, MadeOnce, Stepping, l
  <1>4. CopiesKnown'
    <2>1. Known(call'[k], statusList', published')
      BY <1>1, <1>2 DEF Known
    <2> QED
      BY <1>0, <1>1, <1>2, <2>1, OthersKnown
  <1>5. Numbered'
    <2>1. \A m \in List : statusList[m].exists => statusList'[m].exists
      BY <1>2
    <2>2. \A m \in List : m < l => statusList[m].exists
      BY <1>0 DEF ListInv, Numbered, l
    <2>3. \A m, n \in List : statusList'[m].exists /\ n < m
            => statusList'[n].exists
      BY <1>2, <2>1, <2>2 DEF ListInv, Numbered
    <2>4. \A j \in Client : call'[j].pc \in Making =>
            \A m \in List : m < call'[j].list => statusList'[m].exists
      BY <1>1, <2>1 DEF ListInv, Numbered
    <2> QED
      BY <2>3, <2>4 DEF Numbered
  <1>6. MadeOnce'
    <2> SUFFICES ASSUME NEW j \in Client, call'[j].pc \in Making,
                        call'[j].list \notin raced'
                 PROVE  ~statusList'[call'[j].list].exists
      BY DEF MadeOnce
    <2>1. j # k /\ call'[j] = call[j]
      BY <1>1
    <2>2. call'[j].list \in List
      BY Places DEF Shape
    <2>3. call'[j].list # l
      BY <1>1, <2>1, <2>2, Places
    <2> QED
      BY <1>2, <2>1, <2>2, <2>3 DEF ListInv, MadeOnce, Stepping
  <1>7. Blank' /\ Shown'
    BY <1>2 DEF ListInv, Blank, Shown, Stepping
  <1>8. \A e \in denied : e[2] \in List /\ statusList[e[2]].exists
    BY DEF ListInv, DeniedKnown, Stepping, TypeInv, TypeOK, Entry
  <1>9. DeniedKnown' /\ RevocationsStick'
    BY <1>2, <1>3, <1>8 DEF ListInv, DeniedKnown, RevocationsStick, Stepping
  <1> QED
    BY <1>4, <1>5, <1>6, <1>7, <1>9 DEF ListInv, Stepping

LEMMA ListPublish ==
  ASSUME Stepping, ListInv, NEW k \in Client, Publish(k)
  PROVE  ListInv'
  <1> DEFINE l == call[k].list
  <1>0. /\ call \in [Client -> Call] /\ call[k] \in Call
        /\ call[k].pc = "publishing" /\ l \in List
    BY Places DEF Shape, Stepping, TypeInv, TypeOK, Publish
  <1>1. /\ call'[k].pc = "saving" /\ call'[k].list = l
        /\ call'[k].copy = call[k].copy /\ call'[k].index = call[k].index
        /\ \A j \in Client : j # k => call'[j] = call[j]
    BY <1>0 DEF Publish, Continue, Call
  <1>2. /\ published'[l] = call[k].copy.revoked
        /\ \A m \in List : m # l => published'[m] = published[m]
        /\ UNCHANGED <<statusList, denied>>
    BY <1>0 DEF Publish, history, Stepping, TypeInv, TypeOK
  <1> HIDE DEF l
  <1>3. l \notin raced' =>
          call[k].copy.revoked = statusList[l].revoked \cup {call[k].index}
    BY <1>0 DEF ListInv, CopiesKnown, Known, Stepping, l
  <1>4. CopiesKnown'
    <2>1. l \notin raced' => Known(call'[k], statusList', published')
      BY <1>1, <1>2, <1>3 DEF Known
    <2> QED
      BY <1>0, <1>1, <1>2, <2>1, OthersKnown
  <1>5. Numbered' /\ MadeOnce'
    BY <1>1, <1>2 DEF ListInv, Numbered, MadeOnce, Stepping
  <1>6. Blank' /\ DeniedKnown'
    BY <1>2 DEF ListInv, Blank, DeniedKnown
  <1>7. \A e \in denied : e[2] \in List
    BY DEF Stepping, TypeInv, TypeOK, Entry
  <1>8. Shown' /\ RevocationsStick'
    BY <1>2, <1>3, <1>7 DEF ListInv, Shown, RevocationsStick, Stepping
  <1> QED
    BY <1>4, <1>5, <1>6, <1>8 DEF ListInv, Stepping

LEMMA ListSave ==
  ASSUME Stepping, ListInv, NEW k \in Client, SaveList(k)
  PROVE  ListInv'
  <1> DEFINE l == call[k].list
             copy == call[k].copy
  <1>0. /\ call \in [Client -> Call] /\ call[k] \in Call
        /\ call[k].pc = "saving" /\ l \in List /\ copy.exists
        /\ statusList[l].exists
    BY Places, Numbers DEF Shape, Stepping, TypeInv, TypeOK, SaveList
  <1>1. /\ call'[k].pc = "flagging" /\ call'[k].list = l
        /\ call'[k].index = call[k].index
        /\ \A j \in Client : j # k => call'[j] = call[j]
    BY <1>0 DEF SaveList, Continue, Call
  <1>2. /\ statusList'[l] = copy
        /\ \A m \in List : m # l => statusList'[m] = statusList[m]
        /\ UNCHANGED <<published, denied>>
    BY <1>0 DEF SaveList, history, Stepping, TypeInv, TypeOK
  <1>3. l \notin raced' =>
          /\ copy.revoked = statusList[l].revoked \cup {call[k].index}
          /\ published[l] = copy.revoked
    BY <1>0 DEF ListInv, CopiesKnown, Known, Stepping
  <1> HIDE DEF l, copy
  <1>4. \A m \in List : statusList'[m].exists <=> statusList[m].exists
    BY <1>0, <1>2, Places DEF ListRow
  <1>5. CopiesKnown'
    <2>1. l \notin raced' => Known(call'[k], statusList', published')
      BY <1>1, <1>2, <1>3 DEF Known
    <2> QED
      BY <1>0, <1>1, <1>2, <2>1, OthersKnown
  <1>6. Numbered' /\ MadeOnce'
    <2>1. \A j \in Client : call'[j].pc \in Making => call'[j].list \in List
      BY Places DEF Shape
    <2>2. Numbered'
      BY <1>1, <1>4 DEF ListInv, Numbered
    <2>3. MadeOnce'
      BY <1>1, <1>4, <2>1 DEF ListInv, MadeOnce, Stepping
    <2> QED
      BY <2>2, <2>3
  <1>7. \A e \in denied : e[2] \in List
    BY DEF Stepping, TypeInv, TypeOK, Entry
  <1>8. Blank' /\ DeniedKnown'
    BY <1>0, <1>2, <1>4, <1>7 DEF ListInv, Blank, DeniedKnown
  <1>9. Shown' /\ RevocationsStick'
    BY <1>2, <1>3, <1>7 DEF ListInv, Shown, RevocationsStick, Stepping
  <1> QED
    BY <1>5, <1>6, <1>8, <1>9 DEF ListInv, Stepping

LEMMA ListFlag ==
  ASSUME Stepping, ListInv, NEW k \in Client, Flag(k)
  PROVE  ListInv'
  <1> DEFINE r == call[k]
  <1> USE Records, Numbers
  <1>0. /\ call \in [Client -> Call] /\ r.pc = "flagging"
        /\ r.list \in List /\ statusList[r.list].exists
    BY Places DEF Shape, Stepping, TypeInv, TypeOK, Flag
  <1>1. /\ call'[k].list = None /\ call'[k].pc = "idle"
        /\ \A j \in Client : j # k => call'[j] = call[j]
        /\ UNCHANGED <<statusList, published>>
        /\ denied' = denied \cup {<<r.on, r.list, r.index>>}
    BY <1>0 DEF Flag, Continue
  <1>2. r.list \notin raced =>
          r.index \in statusList[r.list].revoked \cap published[r.list]
    BY <1>0 DEF ListInv, CopiesKnown, Known
  <1> HIDE DEF r
  <1>3. Numbered' /\ MadeOnce' /\ Blank' /\ Shown'
    BY <1>1 DEF ListInv, Numbered, MadeOnce, Blank, Shown, Stepping
  <1>4. CopiesKnown'
    BY <1>1 DEF ListInv, CopiesKnown, Stepping
  <1>5. DeniedKnown' /\ RevocationsStick'
    BY <1>0, <1>1, <1>2 DEF ListInv, DeniedKnown, RevocationsStick, Stepping
  <1> QED
    BY <1>3, <1>4, <1>5 DEF ListInv, Stepping

LEMMA ListStep ==
  TypeInv /\ TypeInv' /\ ListInv /\ [Next]_vars => ListInv'
  <1> SUFFICES ASSUME TypeInv, TypeInv', ListInv, [Next]_vars PROVE ListInv'
    OBVIOUS
  <1>1. Stepping
    BY RacedStep DEF Stepping, ListInv
  <1>2. ASSUME NEW k \in Client, Step(k) PROVE ListInv'
    BY <1>1, <1>2, ListBegins, ListFind, ListCount, ListFill, ListName,
       ListCreate, ListRecord, ListPick, ListPublish, ListSave, ListFlag,
       ListEnds
    DEF Step, IssueByIdentifier, IssueByName, Update
  <1>3. CASE UNCHANGED vars
    BY <1>1, <1>3
    DEF vars, history, ListInv, Numbered, MadeOnce, Blank, CopiesKnown, Shown,
        DeniedKnown, RevocationsStick, Stepping
  <1> QED
    BY <1>1, <1>2, <1>3, ListRestart DEF Next

LEMMA ListInit == Init => ListInv
  <1> SUFFICES ASSUME Init, NEW K \in Boots, call = Booted(K) PROVE ListInv
    BY DEF Init
  <1> USE Records, Numbers
  <1>1. \A k \in Client :
          call[k].list = None /\ call[k].pc \in {"idle", "finding"}
    BY DEF Booted, NoCall
  <1>2. \A l \in List : statusList[l] = NoList /\ published[l] = {}
    BY DEF Init
  <1>3. RacedKnown /\ Numbered /\ MadeOnce /\ CopiesKnown
    BY <1>1, <1>2, ClientAssumption
    DEF RacedKnown, Shared, Numbered, MadeOnce, CopiesKnown
  <1>4. Blank /\ Shown /\ DeniedKnown /\ RevocationsStick
    BY <1>2 DEF Init, Blank, Shown, DeniedKnown, RevocationsStick
  <1> QED
    BY <1>3, <1>4 DEF ListInv

\* All of it holds throughout.
LEMMA Invariants == Spec => [](TypeInv /\ RevokingAsked /\ ListInv)
  <1>1. Init => RevokingAsked
    <2> SUFFICES ASSUME Init, NEW K \in Boots, call = Booted(K)
                 PROVE  RevokingAsked
      BY DEF Init
    <2> QED
      BY DEF Booted, NoCall, RevokingAsked
  <1>2. TypeInv /\ RevokingAsked /\ ListInv /\ [Next]_vars
          => (TypeInv /\ RevokingAsked /\ ListInv)'
    BY TypeStep, AskedStep, ListStep
  <1> QED
    BY <1>1, <1>2, TypeInit, ListInit, PTL DEF Spec

\* A revocation that was answered stays in the row and in the published list,
\* unless two calls worked on the list at once (revokeCredential,
\* createNewStatusListCredential).
THEOREM RevocationsStay == Spec => []RevocationsStick
  BY Invariants, PTL DEF ListInv

----------------------------------------------------------------------------
(* Indexes.                                                                 *)

\* One call goes on: the lists get what they had or what its copy has.
LEMMA OnlyAskedKept ==
  ASSUME Stepping, OnlyAsked, NEW k \in Client, asked \subseteq asked',
         \A j \in Client : j # k => call'[j] = call[j],
         \A l \in List :
           /\ \/ statusList'[l].revoked \subseteq statusList[l].revoked
              \/ /\ call[k].list = l
                 /\ statusList'[l].revoked \subseteq call[k].copy.revoked
           /\ \/ published'[l] \subseteq published[l]
              \/ /\ call[k].list = l
                 /\ published'[l] \subseteq call[k].copy.revoked,
         call'[k].list \in List =>
           call'[k].copy.revoked \subseteq Asked(call'[k].list, asked')
  PROVE  OnlyAsked'
  <1>1. \A l \in List : Asked(l, asked) \subseteq Asked(l, asked')
    BY DEF Asked
  <1>2. \A l \in List : /\ statusList'[l].revoked \subseteq Asked(l, asked')
                       /\ published'[l] \subseteq Asked(l, asked')
    BY <1>1 DEF OnlyAsked
  <1>3. \A j \in Client : call'[j].list \in List =>
          call'[j].copy.revoked \subseteq Asked(call'[j].list, asked')
    <2> SUFFICES ASSUME NEW j \in Client, call'[j].list \in List
                 PROVE  call'[j].copy.revoked \subseteq Asked(call'[j].list, asked')
      OBVIOUS
    <2>1. CASE j = k
      BY <2>1
    <2>2. CASE j # k
      BY <1>1, <2>2 DEF OnlyAsked
    <2> QED
      BY <2>1, <2>2
  <1> QED
    BY <1>2, <1>3 DEF OnlyAsked

\* The indexes of the credentials stay as they are.
LEMMA DistinctKept ==
  ASSUME Stepping, Distinct, NEW k \in Client,
         \A j \in Client : j # k => call'[j] = call[j],
         \A c \in Cred : /\ credential'[c].list = credential[c].list
                        /\ credential'[c].index = credential[c].index,
         call'[k].list \in List \ raced'
           /\ call'[k].pc \in Revoking \cup {"signing"}
           => \A c \in Using(call'[k].list) :
                c # call'[k].on => credential[c].index # call'[k].index
  PROVE  Distinct'
  <1>1. \A c, d \in Cred :
          c # d /\ credential'[c].list \in List \ raced'
            => EntryOf(d)' # <<d, credential'[c].list, credential'[c].index>>
    BY DEF Distinct, EntryOf, Stepping
  <1>3. ASSUME NEW j \in Client, call'[j].list \in List \ raced',
               call'[j].pc \in Revoking \cup {"signing"},
               NEW c \in Cred, credential'[c].list = call'[j].list,
               c # call'[j].on
        PROVE  credential'[c].index # call'[j].index
    <2>1. c \in Using(call'[j].list)
      BY <1>3 DEF Using
    <2>2. CASE j = k
      BY <1>3, <2>1, <2>2
    <2>3. CASE j # k
      BY <1>3, <2>1, <2>3 DEF Distinct, Stepping
    <2> QED
      BY <2>2, <2>3
  <1> QED
    BY <1>1, <1>3 DEF Distinct, Using

\* A call ends by saving a credential with its entry, without one, or with the
\* entry it had.
LEMMA DistinctSaved ==
  ASSUME Stepping, RacedKnown, Distinct, NEW k \in Client, NEW a \in Cred,
         call[k].on = a, call'[k].list = None,
         \A j \in Client : j # k => call'[j] = call[j],
         \A c \in Cred : c # a => credential'[c] = credential[c],
         \/ /\ credential'[a].list = call[k].list
            /\ credential'[a].index = call[k].index
            /\ call[k].pc \in Revoking \cup {"signing"}
         \/ credential'[a].list = None
         \/ /\ credential'[a].list = credential[a].list
            /\ credential'[a].index = credential[a].index
  PROVE  Distinct'
  <1> USE Numbers
  <1>1. ASSUME NEW c \in Cred, NEW d \in Cred, c # d,
               credential'[c].list \in List \ raced',
               credential'[d].list = credential'[c].list
        PROVE  credential'[d].index # credential'[c].index
    BY <1>1 DEF Distinct, EntryOf, Stepping, Using
  <1>2. ASSUME NEW j \in Client, call'[j].list \in List \ raced',
               call'[j].pc \in Revoking \cup {"signing"},
               NEW c \in Cred, credential'[c].list = call'[j].list,
               c # call'[j].on
        PROVE  credential'[c].index # call'[j].index
    <2>1. j # k /\ call'[j] = call[j] /\ call[j].list \in List \ raced
      BY <1>2 DEF Stepping
    <2>2. call[k].list # call[j].list
      BY <2>1 DEF RacedKnown, Shared
    <2>3. credential'[c].list = call[j].list
      BY <1>2, <2>1
    <2>4. c \in Using(call[j].list) /\ credential'[c].index = credential[c].index
      BY <2>1, <2>2, <2>3 DEF Using
    <2> QED
      BY <1>2, <2>1, <2>4 DEF Distinct
  <1> QED
    BY <1>1, <1>2 DEF Distinct, EntryOf, Using

\* What is known before a step, and after it of the types.
LEMMA IndexIssue ==
  ASSUME Stepping, IndexInv, NEW k \in Client, NEW c \in Cred,
         \/ \E b \in BOOLEAN : SelfIssue(k, c, b)
         \/ Delete(k, c)
  PROVE  OnlyAsked' /\ Distinct'
  <1> USE Records, Numbers
  <1>1. call \in [Client -> Call]
    BY DEF Stepping, TypeInv, TypeOK
  <1>2. /\ \A j \in Client : j # k => call'[j] = call[j]
        /\ UNCHANGED <<statusList, published, credential, asked>>
    BY <1>1 DEF SelfIssue, Delete, Begin, history
  <1>3. /\ call'[k].copy.revoked = {}
        /\ call'[k].list = None \/ call'[k].pc = "removing"
    <2>1. ASSUME NEW b \in BOOLEAN, SelfIssue(k, c, b)
          PROVE  call'[k].copy.revoked = {} /\ call'[k].list = None
      BY <1>1, <2>1 DEF SelfIssue, Begin, NoCall, NoList
    <2>2. CASE Delete(k, c)
      BY <1>1, <2>2 DEF Delete, Begin, NoCall, NoList
    <2> QED
      BY <2>1, <2>2
  <1>4. OnlyAsked'
    BY <1>2, <1>3, OnlyAskedKept DEF IndexInv
  <1>5. Distinct'
    BY <1>2, <1>3, DistinctKept DEF IndexInv
  <1> QED
    BY <1>4, <1>5

LEMMA IndexFind ==
  ASSUME Stepping, IndexInv, NEW k \in Client, Find(k)
  PROVE  OnlyAsked' /\ Distinct'
  <1>0. call \in [Client -> Call] /\ call[k] \in Call
    BY DEF Stepping, TypeInv, TypeOK
  <1>1. \/ /\ call'[k].pc = "counting"
           /\ call'[k].copy = statusList[call'[k].list]
        \/ /\ call'[k].pc = "naming" /\ call'[k].list = call[k].list
           /\ call'[k].copy = call[k].copy
    <2>1. ASSUME NEW l \in Lists,
                 Continue(k, [call[k] EXCEPT !.pc = "counting", !.list = l,
                                             !.copy = statusList[l]])
          PROVE  /\ call'[k].pc = "counting"
                 /\ call'[k].copy = statusList[call'[k].list]
      BY <1>0, <2>1 DEF Continue, Call
    <2>2. ASSUME Continue(k, [call[k] EXCEPT !.pc = "naming",
                                             !.then = "counting"])
          PROVE  /\ call'[k].pc = "naming" /\ call'[k].list = call[k].list
                 /\ call'[k].copy = call[k].copy
      BY <1>0, <2>2 DEF Continue, Call
    <2> QED
      BY <2>1, <2>2 DEF Find
  <1>2. /\ \A j \in Client : j # k => call'[j] = call[j]
        /\ UNCHANGED <<statusList, published, credential, asked>>
    BY <1>0 DEF Find, Continue, history
  <1>3. OnlyAsked'
    <2>1. call'[k].list \in List =>
            call'[k].copy.revoked \subseteq Asked(call'[k].list, asked')
      BY <1>1, <1>2 DEF IndexInv, OnlyAsked
    <2> QED
      BY <1>2, <2>1, OnlyAskedKept DEF IndexInv
  <1>4. Distinct'
    BY <1>1, <1>2, DistinctKept DEF IndexInv
  <1> QED
    BY <1>3, <1>4

\* Counting goes on with the same list, and does not yet touch an index.
LEMMA IndexCount ==
  ASSUME Stepping, IndexInv, NEW k \in Client, Count(k)
  PROVE  OnlyAsked' /\ Distinct'
  <1> DEFINE pc == IF Cardinality(Using(call[k].list)) >= Limit
                     THEN "filling" ELSE "picking"
  <1>0. call \in [Client -> Call] /\ call[k] \in Call
    BY DEF Stepping, TypeInv, TypeOK
  <1>1. pc \in {"filling", "picking"}
    OBVIOUS
  <1>2. /\ call' = [call EXCEPT ![k] = [call[k] EXCEPT !.pc = pc]]
        /\ UNCHANGED <<statusList, published, credential, asked>>
    BY DEF Count, Continue, history
  <1> HIDE DEF pc
  <1>3. /\ call'[k].pc \in {"filling", "picking"}
        /\ call'[k].list = call[k].list /\ call'[k].copy = call[k].copy
        /\ \A j \in Client : j # k => call'[j] = call[j]
    BY <1>0, <1>1, <1>2 DEF Call
  <1>4. OnlyAsked'
    <2>1. call'[k].list \in List =>
            call'[k].copy.revoked \subseteq Asked(call'[k].list, asked')
      BY <1>2, <1>3 DEF IndexInv, OnlyAsked
    <2> QED
      BY <1>2, <1>3, <2>1, OnlyAskedKept DEF IndexInv
  <1>5. Distinct'
    BY <1>2, <1>3, DistinctKept DEF IndexInv
  <1> QED
    BY <1>4, <1>5

\* The steps that make a list or mark it as full.
LEMMA IndexLists ==
  ASSUME Stepping, IndexInv, NEW k \in Client,
         Fill(k) \/ Name(k) \/ CreateList(k) \/ RecordList(k)
  PROVE  OnlyAsked' /\ Distinct'
  <1> USE Records, Numbers
  <1>0. call \in [Client -> Call] /\ call[k] \in Call
    BY DEF Stepping, TypeInv, TypeOK
  <1>1. /\ \A j \in Client : j # k => call'[j] = call[j]
        /\ UNCHANGED <<credential, asked>>
    BY <1>0 DEF Fill, Name, CreateList, RecordList, Continue, history
  <1>2. /\ call'[k].pc \notin Revoking \cup {"signing"}
        /\ \/ /\ call'[k].list = call[k].list
              /\ call'[k].copy = call[k].copy
           \/ call'[k].copy.revoked = {}
    <2>1. CASE Fill(k)
      BY <1>0, <2>1 DEF Fill, Continue, Call
    <2>2. CASE Name(k)
      BY <1>0, <2>2 DEF Name, Continue, Call
    <2>3. CASE CreateList(k)
      BY <1>0, <2>3 DEF CreateList, Continue, Call
    <2>4. CASE RecordList(k)
      BY <1>0, <2>4 DEF RecordList, Continue, Call
    <2> QED
      BY <2>1, <2>2, <2>3, <2>4
  <1>3. \A l \in List :
          /\ \/ statusList'[l].revoked \subseteq statusList[l].revoked
             \/ /\ call[k].list = l
                /\ statusList'[l].revoked \subseteq call[k].copy.revoked
          /\ published'[l] \subseteq published[l]
    <2>0. /\ statusList \in [List -> ListRow] /\ call[k].copy \in ListRow
          /\ published \in [List -> SUBSET Index]
      BY <1>0, CallParts DEF Stepping, TypeInv, TypeOK
    <2>1. CASE Fill(k)
      <3>1. [call[k].copy EXCEPT !.full = TRUE].revoked = call[k].copy.revoked
        BY <2>0 DEF ListRow
      <3> QED
        BY <2>0, <2>1, <3>1 DEF Fill
    <2>2. CASE Name(k)
      BY <2>2 DEF Name
    <2>3. CASE CreateList(k)
      BY <2>0, <2>3 DEF CreateList
    <2>4. CASE RecordList(k)
      BY <2>0, <2>4 DEF RecordList
    <2> QED
      BY <2>1, <2>2, <2>3, <2>4
  <1>4. OnlyAsked'
    <2>1. call'[k].list \in List =>
            call'[k].copy.revoked \subseteq Asked(call'[k].list, asked')
      BY <1>1, <1>2 DEF IndexInv, OnlyAsked
    <2> QED
      BY <1>1, <1>3, <2>1, OnlyAskedKept DEF IndexInv
  <1>5. Distinct'
    BY <1>1, <1>2, DistinctKept DEF IndexInv
  <1> QED
    BY <1>4, <1>5

LEMMA IndexPick ==
  ASSUME Stepping, IndexInv, NEW k \in Client, Pick(k)
  PROVE  OnlyAsked' /\ Distinct'
  <1> USE Records, Numbers
  <1>0. call \in [Client -> Call] /\ call[k] \in Call
    BY DEF Stepping, TypeInv, TypeOK
  <1>1. PICK i \in Index :
          /\ \A c \in Using(call[k].list) : credential[c].index # i
          /\ Continue(k, IF call[k].on = None THEN NoCall
                         ELSE [call[k] EXCEPT !.pc = "signing", !.index = i])
    BY DEF Pick
  <1>2. /\ \A j \in Client : j # k => call'[j] = call[j]
        /\ UNCHANGED <<statusList, published, credential, asked>>
    BY <1>0, <1>1 DEF Pick, Continue, history
  <1>3. CASE call[k].on = None
    <2>1. call'[k] = NoCall
      BY <1>0, <1>1, <1>3 DEF Continue
    <2>2. OnlyAsked'
      BY <1>2, <2>1, OnlyAskedKept DEF IndexInv
    <2>3. Distinct'
      BY <1>2, <2>1, DistinctKept DEF IndexInv
    <2> QED
      BY <2>2, <2>3
  <1>4. CASE call[k].on # None
    <2>1. /\ call'[k].list = call[k].list /\ call'[k].copy = call[k].copy
          /\ call'[k].index = i
      BY <1>0, <1>1, <1>4 DEF Continue, Call
    <2>2. OnlyAsked'
      <3>1. call'[k].list \in List =>
              call'[k].copy.revoked \subseteq Asked(call'[k].list, asked')
        BY <1>2, <2>1 DEF IndexInv, OnlyAsked
      <3> QED
        BY <1>2, <3>1, OnlyAskedKept DEF IndexInv
    <2>3. Distinct'
      <3>1. \A c \in Using(call'[k].list) :
              credential[c].index # call'[k].index
        BY <1>1, <2>1
      <3> QED
        BY <1>2, <3>1, DistinctKept DEF IndexInv
    <2> QED
      BY <2>2, <2>3
  <1> QED
    BY <1>3, <1>4

LEMMA IndexRevoke ==
  ASSUME Stepping, IndexInv, NEW k \in Client, NEW c \in Cred, Revoke(k, c)
  PROVE  OnlyAsked' /\ Distinct'
  <1> DEFINE l == credential[c].list
             i == credential[c].index
  <1>0. /\ call \in [Client -> Call]
        /\ l \in List /\ i \in Index /\ statusList[l] \in ListRow
    BY DEF Revoke, Stepping, TypeInv, TypeOK, CredentialRow
  <1>1. /\ \A j \in Client : j # k => call'[j] = call[j]
        /\ UNCHANGED <<statusList, published, credential>>
        /\ asked' = asked \cup {<<c, l, i>>}
        /\ call'[k].list = l /\ call'[k].index = i /\ call'[k].on = c
        /\ call'[k].copy = [statusList[l] EXCEPT !.revoked = @ \cup {i}]
    BY <1>0 DEF Revoke, Begin, NoCall, EntryOf
  <1> HIDE DEF l, i
  <1>2. call'[k].copy.revoked = statusList[l].revoked \cup {i}
    BY <1>0, <1>1 DEF ListRow
  <1>3. OnlyAsked'
    <2>1. i \in Asked(l, asked') /\ Asked(l, asked) \subseteq Asked(l, asked')
      BY <1>0, <1>1 DEF Asked
    <2>2. call'[k].copy.revoked \subseteq Asked(call'[k].list, asked')
      BY <1>0, <1>1, <1>2, <2>1 DEF IndexInv, OnlyAsked
    <2> QED
      BY <1>1, <2>2, OnlyAskedKept DEF IndexInv
  <1>4. Distinct'
    <2>1. l \notin raced' => \A d \in Using(l) : d # c => credential[d].index # i
      BY <1>0 DEF IndexInv, Distinct, EntryOf, Stepping, Using, l, i
    <2> QED
      BY <1>1, <2>1, DistinctKept DEF IndexInv
  <1> QED
    BY <1>3, <1>4

LEMMA IndexPublish ==
  ASSUME Stepping, IndexInv, NEW k \in Client, Publish(k) \/ SaveList(k)
  PROVE  OnlyAsked' /\ Distinct'
  <1>0. /\ call \in [Client -> Call] /\ call[k] \in Call
        /\ statusList \in [List -> ListRow]
        /\ published \in [List -> SUBSET Index]
    BY DEF Stepping, TypeInv, TypeOK
  <1>1. /\ \A j \in Client : j # k => call'[j] = call[j]
        /\ UNCHANGED <<credential, asked>>
    BY <1>0 DEF Publish, SaveList, Continue, history
  <1>2. /\ call'[k].list = call[k].list /\ call'[k].copy = call[k].copy
        /\ call'[k].index = call[k].index /\ call'[k].on = call[k].on
        /\ call[k].pc \in Revoking
    BY <1>0 DEF Publish, SaveList, Continue, Call
  <1>3. \A l \in List :
          /\ \/ statusList'[l].revoked \subseteq statusList[l].revoked
             \/ /\ call[k].list = l
                /\ statusList'[l].revoked \subseteq call[k].copy.revoked
          /\ \/ published'[l] \subseteq published[l]
             \/ /\ call[k].list = l
                /\ published'[l] \subseteq call[k].copy.revoked
    BY <1>0 DEF Publish, SaveList
  <1>4. OnlyAsked'
    <2>1. call'[k].list \in List =>
            call'[k].copy.revoked \subseteq Asked(call'[k].list, asked')
      BY <1>1, <1>2 DEF IndexInv, OnlyAsked
    <2> QED
      BY <1>1, <1>3, <2>1, OnlyAskedKept DEF IndexInv
  <1>5. Distinct'
    <2>1. call'[k].list \in List \ raced' =>
            \A c \in Using(call'[k].list) :
              c # call'[k].on => credential[c].index # call'[k].index
      BY <1>2 DEF IndexInv, Distinct, Stepping
    <2> QED
      BY <1>1, <2>1, DistinctKept DEF IndexInv
  <1> QED
    BY <1>4, <1>5

\* The steps that save or delete a credential and end the call.
LEMMA IndexSaved ==
  ASSUME Stepping, IndexInv, NEW k \in Client,
         SaveIssued(k) \/ Flag(k) \/ Remove(k)
  PROVE  OnlyAsked' /\ Distinct'
  <1> USE Records, Numbers
  <1> DEFINE a == call[k].on
  <1>0. /\ call \in [Client -> Call] /\ call[k] \in Call
        /\ Shape(call[k], statusList)
        /\ credential \in [Cred -> CredentialRow]
    BY DEF Stepping, TypeInv, TypeOK, CallShape
  <1>1. /\ call'[k] = NoCall
        /\ \A j \in Client : j # k => call'[j] = call[j]
        /\ UNCHANGED <<statusList, published, asked>>
    BY <1>0 DEF SaveIssued, Flag, Remove, Continue, history
  <1>2. a \in Cred
    BY <1>0 DEF Shape, SaveIssued, Flag, Remove
  <1>3. \A c \in Cred : c # a => credential'[c] = credential[c]
    BY <1>0, <1>2 DEF SaveIssued, Flag, Remove
  <1>4. \/ /\ credential'[a].list = call[k].list
           /\ credential'[a].index = call[k].index
           /\ call[k].pc \in Revoking \cup {"signing"}
        \/ credential'[a].list = None
        \/ /\ credential'[a].list = credential[a].list
           /\ credential'[a].index = credential[a].index
    <2>0. credential[a] \in CredentialRow
      BY <1>0, <1>2
    <2>1. CASE SaveIssued(k)
      <3>1. CASE call[k].list = None
        <4>1. credential'[a] = [credential[a] EXCEPT !.exists = TRUE]
          BY <1>0, <1>2, <2>1, <3>1 DEF SaveIssued
        <4> QED
          BY <2>0, <4>1 DEF CredentialRow
      <3>2. CASE call[k].list # None
        <4>1. /\ credential'[a] = [credential[a] EXCEPT !.exists = TRUE,
                       !.list = call[k].list, !.index = call[k].index]
              /\ call[k].pc = "signing"
          BY <1>0, <1>2, <2>1, <3>2 DEF SaveIssued
        <4> QED
          BY <2>0, <4>1 DEF CredentialRow
      <3> QED
        BY <3>1, <3>2
    <2>2. CASE Flag(k)
      <3>1. /\ call[k].pc = "flagging" /\ call[k].old \in CredentialRow
            /\ call[k].old.list = call[k].list
            /\ call[k].old.index = call[k].index
        BY <1>0, <2>2, CallParts DEF Flag, Shape
      <3>2. credential'[a] = [call[k].old EXCEPT !.revoked = TRUE]
        BY <1>0, <1>2, <2>2 DEF Flag
      <3> QED
        BY <3>1, <3>2 DEF CredentialRow
    <2>3. CASE Remove(k)
      BY <1>0, <1>2, <2>3 DEF Remove
    <2> QED
      BY <2>1, <2>2, <2>3
  <1> HIDE DEF a
  <1>5. Distinct'
    BY <1>1, <1>2, <1>3, <1>4, DistinctSaved DEF IndexInv, a
  <1>6. OnlyAsked'
    BY <1>1, OnlyAskedKept DEF IndexInv
  <1> QED
    BY <1>5, <1>6

LEMMA IndexTrouble ==
  ASSUME Stepping, IndexInv,
         \/ \E k \in Client : Fail(k)
         \/ \E K \in Boots : Restart(K)
  PROVE  OnlyAsked' /\ Distinct'
  <1> USE Records, Numbers
  <1>0. call \in [Client -> Call]
    BY DEF Stepping, TypeInv, TypeOK
  <1>1. UNCHANGED <<credential, statusList, published, asked, raced>>
    BY DEF Fail, Restart, history
  <1>2. \A k \in Client : call'[k] = call[k] \/ call'[k].list = None
    BY <1>0 DEF Fail, Restart, Booted, NoCall
  <1>3. OnlyAsked'
    BY <1>1, <1>2 DEF IndexInv, OnlyAsked
  <1>4. Distinct'
    BY <1>1, <1>2 DEF IndexInv, Distinct, EntryOf, Using
  <1> QED
    BY <1>3, <1>4

LEMMA IndexStep ==
  TypeInv /\ TypeInv' /\ IndexInv /\ [Next]_vars => IndexInv'
  <1> SUFFICES ASSUME TypeInv, TypeInv', IndexInv, [Next]_vars
               PROVE  IndexInv'
    OBVIOUS
  <1>1. Stepping
    BY RacedStep DEF Stepping, IndexInv
  <1>2. ASSUME NEW k \in Client, Step(k) PROVE OnlyAsked' /\ Distinct'
    BY <1>1, <1>2, IndexIssue, IndexFind, IndexCount, IndexLists, IndexPick,
       IndexRevoke, IndexPublish, IndexSaved, IndexTrouble
    DEF Step, IssueByIdentifier, IssueByName, Update
  <1>3. CASE UNCHANGED vars
    <2>1. OnlyAsked'
      BY <1>3 DEF vars, history, IndexInv, OnlyAsked
    <2>2. Distinct'
      BY <1>3 DEF vars, history, IndexInv, Distinct, EntryOf, Using
    <2> QED
      BY <1>1, <2>1, <2>2 DEF IndexInv, Stepping
  <1> QED
    BY <1>1, <1>2, <1>3, IndexTrouble DEF Next, IndexInv, Stepping

LEMMA IndexInit == Init => IndexInv
  <1> SUFFICES ASSUME Init PROVE IndexInv
    OBVIOUS
  <1> USE Records, Numbers
  <1>1. \A c \in Cred : credential[c] = Missing
    BY DEF Init
  <1>2. \A l \in List : statusList[l] = NoList /\ published[l] = {}
    BY DEF Init
  <1>3. \A k \in Client : call[k].list = None
    <2> SUFFICES ASSUME NEW K \in Boots, call = Booted(K), NEW k \in Client
                 PROVE  call[k].list = None
      BY DEF Init
    <2> QED
      BY DEF Booted, NoCall
  <1>4. RacedKnown
    BY ListInit DEF ListInv
  <1> QED
    BY <1>1, <1>2, <1>3, <1>4 DEF IndexInv, OnlyAsked, Distinct

\* A credential appears as revoked only if the revocation of it, or of another
\* with its index, was asked for, whatever overlaps or fails; and the other has
\* lost the index unless two calls worked on the list at once
\* (assignStatusListIndex, revokeCredential).
THEOREM RevokedByRequest == Spec => []OnlyAskedAreRevoked
  <1>1. IndexInv /\ TypeInv => OnlyAskedAreRevoked
    <2> SUFFICES ASSUME IndexInv, TypeInv, NEW c \in Cred,
                        credential[c].list # None,
                        credential[c].index \in published[credential[c].list]
                 PROVE  \E d \in Cred :
                   /\ <<d, credential[c].list, credential[c].index>> \in asked
                   /\ credential[c].list \notin raced /\ d # c
                        => EntryOf(d) # <<d, credential[c].list,
                                          credential[c].index>>
      BY DEF OnlyAskedAreRevoked
    <2>1. credential[c].list \in List
      BY DEF TypeInv, TypeOK, CredentialRow
    <2>2. credential[c].index \in Asked(credential[c].list, asked)
      BY <2>1 DEF IndexInv, OnlyAsked
    <2>3. PICK d \in Cred :
            <<d, credential[c].list, credential[c].index>> \in asked
      BY <2>2 DEF Asked
    <2> QED
      BY <2>1, <2>3 DEF IndexInv, Distinct
  <1>2. TypeInv /\ TypeInv' /\ IndexInv /\ [Next]_vars => IndexInv'
    BY IndexStep
  <1>3. Spec => []TypeInv
    BY Invariants, PTL
  <1> QED
    BY <1>1, <1>2, <1>3, IndexInit, PTL DEF Spec

----------------------------------------------------------------------------
(* The size of the lists.                                                   *)

LEMMA FiniteEntries ==
  \A S \in SUBSET Cred : IsFiniteSet(S) /\ Cardinality(S) \in Nat
  BY ClientAssumption, FS_Subset, FS_CardinalityType

LEMMA Sizes ==
  /\ Cardinality(Client) \in Nat \ {0} /\ Limit \in Nat \ {0}
  /\ \A l : Limit <= Room(l) /\ Room(l) \in Nat
  /\ \A l : l \in raced => Cardinality(Client) <= Room(l)
  <1>1. Cardinality(Client) \in Nat /\ Cardinality(Client) # 0
    BY ClientAssumption, FS_CardinalityType, FS_EmptySet
  <1> QED
    BY <1>1, ClientAssumption DEF Room

\* Entries that stay or become fewer still fit.
LEMMA FitFewer ==
  ASSUME Stepping, Fitting, NEW l \in List, Entries(l)' \subseteq Entries(l)
  PROVE  Cardinality(Entries(l)') <= Room(l)'
  <1>1. Entries(l) \in SUBSET Cred
    BY DEF Entries, Using, Coming
  <1>2. Cardinality(Entries(l)') <= Cardinality(Entries(l))
    BY <1>1, FiniteEntries, FS_Subset
  <1>3. Room(l) <= Room(l)' /\ Room(l) \in Nat /\ Room(l)' \in Nat
    BY Sizes DEF Stepping, Room
  <1>4. Cardinality(Entries(l)) \in Nat /\ Cardinality(Entries(l)') \in Nat
    BY <1>1, FiniteEntries
  <1> QED
    BY <1>2, <1>3, <1>4 DEF Fitting

\* A step of one call that brings no credential of its own to a list.
LEMMA EntriesKept ==
  ASSUME Stepping, NEW k \in Client, NEW l \in List,
         \A j \in Client : j # k => call'[j] = call[j],
         \A c \in Cred : credential'[c].list = l => c \in Entries(l),
         Adds(call'[k], l) => call'[k].on \in Entries(l)
  PROVE  Entries(l)' \subseteq Entries(l)
  <1>1. Using(l)' \subseteq Entries(l)
    BY DEF Using
  <1>2. Coming(l)' \subseteq Entries(l)
    <2> SUFFICES ASSUME NEW j \in Client, NEW c \in Cred,
                        Adds(call'[j], l), call'[j].on = c
                 PROVE  c \in Entries(l)
      BY DEF Coming
    <2>1. CASE j = k
      BY <2>1
    <2>2. CASE j # k
      BY <2>2 DEF Entries, Coming
    <2> QED
      BY <2>1, <2>2
  <1> QED
    BY <1>1, <1>2 DEF Entries

LEMMA FitKept ==
  ASSUME Stepping, Fitting, NEW k \in Client,
         \A j \in Client : j # k => call'[j] = call[j],
         \A c \in Cred, l \in List : credential'[c].list = l => c \in Entries(l),
         \A l \in List : Adds(call'[k], l) => call'[k].on \in Entries(l)
  PROVE  Fitting'
  BY EntriesKept, FitFewer DEF Fitting

\* As many credentials as there are calls.
LEMMA Callers ==
  ASSUME NEW g
  PROVE  LET T == {g[k] : k \in Client} IN
         IsFiniteSet(T) /\ Cardinality(T) <= Cardinality(Client)
  <1> DEFINE T == {g[k] : k \in Client}
             h == [k \in Client |-> g[k]]
  <1>1. h \in Surjection(Client, T)
    BY DEF Surjection
  <1> QED
    BY <1>1, ClientAssumption, FS_Surjection

\* A call that is alone with its list comes to it with one credential, and calls
\* that overlap with one each.
LEMMA ComingFits ==
  ASSUME Stepping, NEW k \in Client, NEW l \in List, call'[k].list = l
  PROVE  Cardinality(Coming(l)') <= IF l \in raced' THEN Cardinality(Client)
                                                    ELSE 1
  <1>0. Cardinality(Coming(l)') \in Nat /\ Cardinality(Client) \in Nat
    BY FiniteEntries, Sizes DEF Coming
  <1>1. CASE l \in raced'
    <2> DEFINE g == [j \in Client |-> call'[j].on]
               T == {g[j] : j \in Client}
    <2>1. IsFiniteSet(T) /\ Cardinality(T) <= Cardinality(Client)
      BY Callers
    <2>2. Coming(l)' \subseteq T
      BY DEF Coming
    <2>3. Cardinality(Coming(l)') <= Cardinality(T) /\ Cardinality(T) \in Nat
      BY <2>1, <2>2, FS_Subset, FS_CardinalityType
    <2> HIDE DEF T
    <2> QED
      BY <1>0, <1>1, <2>1, <2>3
  <1>2. CASE l \notin raced'
    <2>1. \A j \in Client : j # k => call'[j].list # l
      BY <1>2, Places
    <2>2. Coming(l)' \subseteq {call'[k].on}
      BY <2>1 DEF Coming, Adds
    <2>3. /\ IsFiniteSet({call'[k].on})
          /\ Cardinality({call'[k].on}) = 1
      BY FS_Singleton
    <2>4. Cardinality(Coming(l)') <= 1
      BY <2>2, <2>3, FS_Subset
    <2> QED
      BY <1>2, <2>4
  <1> QED
    BY <1>1, <1>2

\* A call that has seen room in the list, if only for itself.
LEMMA FitRoom ==
  ASSUME Stepping, NEW k \in Client, NEW l \in List, call'[k].list = l,
         UNCHANGED credential, Cardinality(Using(l)) < Limit
  PROVE  Cardinality(Entries(l)') <= Room(l)'
  <1> DEFINE U == Using(l)
             C == Coming(l)'
  <1>1. U \subseteq Cred /\ C \subseteq Cred /\ Entries(l)' = U \cup C
    BY DEF Entries, Using, Coming
  <1>2. Cardinality(C) <= IF l \in raced' THEN Cardinality(Client) ELSE 1
    BY ComingFits
  <1>3. Cardinality(U) < Limit
    OBVIOUS
  <1>4. Room(l)' = IF l \in raced' THEN Limit + Cardinality(Client) - 1
                                   ELSE Limit
    BY DEF Room
  <1> HIDE DEF U, C
  <1>5. /\ IsFiniteSet(U) /\ IsFiniteSet(C) /\ U \cap C \in SUBSET Cred
        /\ Cardinality(U) \in Nat /\ Cardinality(C) \in Nat
        /\ Cardinality(U \cap C) \in Nat
    BY <1>1, FiniteEntries
  <1>6. Cardinality(U \cup C)
          = Cardinality(U) + Cardinality(C) - Cardinality(U \cap C)
    BY <1>5, FS_Union
  <1> QED
    BY <1>1, <1>2, <1>3, <1>4, <1>5, <1>6, Sizes

LEMMA FitCount ==
  ASSUME Stepping, Fitting, NEW k \in Client, Count(k)
  PROVE  Fitting'
  <1> USE Records, Numbers
  <1>m. PICK m \in List : m = call[k].list
    BY Places DEF Stepping, TypeInv, TypeOK, Shape, Count
  <1> DEFINE full == Cardinality(Using(m)) >= Limit
             pc == IF full THEN "filling" ELSE "picking"
  <1>0. /\ call \in [Client -> Call] /\ call[k] \in Call
    BY DEF Stepping, TypeInv, TypeOK
  <1>1. /\ call' = [call EXCEPT ![k] = [call[k] EXCEPT !.pc = pc]]
        /\ UNCHANGED credential
    BY <1>m DEF Count, Continue
  <1>2. pc = IF full THEN "filling" ELSE "picking"
    OBVIOUS
  <1>3. ~full => Cardinality(Using(m)) < Limit
    <2>1. Cardinality(Using(m)) \in Nat
      BY FiniteEntries DEF Using
    <2> QED
      BY <2>1, Sizes
  <1> HIDE DEF pc, full
  <1>4. /\ call'[k].pc = pc /\ call'[k].list = m
        /\ \A j \in Client : j # k => call'[j] = call[j]
    BY <1>0, <1>1, <1>m DEF Call
  <1>5. CASE full
    <2>1. \A l : ~Adds(call'[k], l)
      BY <1>2, <1>4, <1>5 DEF Adds
    <2> QED
      BY <1>1, <1>4, <2>1, FitKept DEF Entries, Using
  <1>6. CASE ~full
    <2>1. Cardinality(Entries(m)') <= Room(m)'
      BY <1>0, <1>1, <1>3, <1>4, <1>6, FitRoom
    <2>2. ASSUME NEW l \in List, l # m
          PROVE  Cardinality(Entries(l)') <= Room(l)'
      <3>1. ~Adds(call'[k], l)
        BY <1>4, <2>2 DEF Adds
      <3>2. Entries(l)' \subseteq Entries(l)
        BY <1>1, <1>4, <3>1, EntriesKept DEF Entries, Using
      <3> QED
        BY <3>2, FitFewer
    <2> QED
      BY <2>1, <2>2 DEF Fitting
  <1> QED
    BY <1>5, <1>6

\* A list that is about to be created has no entries yet.
LEMMA FitName ==
  ASSUME Stepping, Fitting, ListInv, NEW k \in Client, Name(k)
  PROVE  Fitting'
  <1> USE Records, Numbers
  <1>0. call \in [Client -> Call] /\ call[k] \in Call
    BY DEF Stepping, TypeInv, TypeOK
  <1>1. PICK n \in List : n = Cardinality(Lists) /\ n \notin Lists
    BY FirstLists DEF Name, ListInv
  <1>2. /\ call' = [call EXCEPT ![k] = [call[k] EXCEPT !.pc = "creating",
                                       !.copy = NewList, !.list = n]]
        /\ UNCHANGED credential
    BY <1>1 DEF Name, Continue
  <1>3. /\ call'[k].pc = "creating" /\ call'[k].list = n
        /\ \A j \in Client : j # k => call'[j] = call[j]
    BY <1>0, <1>2 DEF Call
  <1>4. Using(n) = {}
    BY <1>1 DEF Using, Stepping, TypeInv, TypeOK, Lists
  <1>5. Cardinality(Entries(n)') <= Room(n)'
    <2>1. Cardinality(Using(n)) < Limit
      BY <1>4, FS_EmptySet, Sizes
    <2> QED
      BY <1>1, <1>2, <1>3, <2>1, FitRoom
  <1>6. ASSUME NEW l \in List, l # n
        PROVE  Cardinality(Entries(l)') <= Room(l)'
    <2>1. ~Adds(call'[k], l)
      BY <1>3, <1>6 DEF Adds
    <2>2. Entries(l)' \subseteq Entries(l)
      BY <1>2, <1>3, <2>1, EntriesKept DEF Entries, Using
    <2> QED
      BY <2>2, FitFewer
  <1> QED
    BY <1>5, <1>6 DEF Fitting

\* The steps of a call that goes on with the list it adds to, or with none.
LEMMA FitGoesOn ==
  ASSUME Stepping, Fitting, NEW k \in Client, UNCHANGED credential,
         \A j \in Client : j # k => call'[j] = call[j],
         \/ \A l \in List : ~Adds(call'[k], l)
         \/ /\ call'[k].list = call[k].list /\ call'[k].on = call[k].on
            /\ Adds(call[k], call[k].list)
         \/ call'[k].on \in Using(call'[k].list)
  PROVE  Fitting'
  <1>1. \A c \in Cred, l \in List : credential'[c].list = l => c \in Entries(l)
    BY DEF Entries, Using
  <1>2. \A l \in List : Adds(call'[k], l) => call'[k].on \in Entries(l)
    BY DEF Adds, Entries, Coming
  <1> QED
    BY <1>1, <1>2, FitKept

LEMMA FitBegins ==
  ASSUME Stepping, Fitting, NEW k \in Client, NEW c \in Cred,
         \/ \E b \in BOOLEAN : SelfIssue(k, c, b)
         \/ Revoke(k, c)
         \/ Delete(k, c)
  PROVE  Fitting'
  <1> USE Records, Numbers
  <1>0. call \in [Client -> Call] /\ credential[c] \in CredentialRow
    BY DEF Stepping, TypeInv, TypeOK
  <1>1. /\ \A j \in Client : j # k => call'[j] = call[j]
        /\ UNCHANGED credential
    BY <1>0 DEF SelfIssue, Revoke, Delete, Begin
  <1>2. ASSUME NEW b \in BOOLEAN, SelfIssue(k, c, b)
        PROVE  \A l \in List : ~Adds(call'[k], l)
    BY <1>0, <1>2 DEF SelfIssue, Begin, NoCall, Adds
  <1>3. CASE Delete(k, c)
    <2>1. call'[k].pc = "removing"
      BY <1>0, <1>3 DEF Delete, Begin, NoCall
    <2>2. \A l \in List : ~Adds(call'[k], l)
      BY <2>1 DEF Adds
    <2> QED
      BY <1>1, <2>2, FitGoesOn
  <1>4. CASE Revoke(k, c)
    <2>1. call'[k].on = c /\ call'[k].list = credential[c].list
      BY <1>0, <1>4 DEF Revoke, Begin, NoCall
    <2>2. call'[k].on \in Using(call'[k].list)
      BY <2>1 DEF Using
    <2> QED
      BY <1>1, <2>2, FitGoesOn
  <1> QED
    BY <1>1, <1>2, <1>3, <1>4, FitGoesOn

LEMMA FitGoes ==
  ASSUME Stepping, Fitting, NEW k \in Client,
         \/ Find(k) \/ Fill(k) \/ CreateList(k) \/ RecordList(k) \/ Pick(k)
         \/ Publish(k) \/ SaveList(k)
  PROVE  Fitting'
  <1> USE Records, Numbers
  <1>0. /\ call \in [Client -> Call] /\ call[k] \in Call
        /\ Shape(call[k], statusList)
    BY Places DEF Stepping, TypeInv, TypeOK
  <1>1. /\ \A j \in Client : j # k => call'[j] = call[j]
        /\ UNCHANGED credential
    BY <1>0 DEF Find, Fill, CreateList, RecordList, Pick, Publish, SaveList,
      Continue
  <1>2. CASE Find(k) \/ Fill(k)
    <2>1. call'[k].pc \in {"counting", "naming"}
      <3>1. CASE Find(k)
        <4>1. ASSUME NEW l,
                     Continue(k, [call[k] EXCEPT !.pc = "counting", !.list = l,
                                                 !.copy = statusList[l]])
              PROVE  call'[k].pc = "counting"
          BY <1>0, <4>1 DEF Continue, Call
        <4>2. ASSUME Continue(k, [call[k] EXCEPT !.pc = "naming",
                                                 !.then = "counting"])
              PROVE  call'[k].pc = "naming"
          BY <1>0, <4>2 DEF Continue, Call
        <4> QED
          BY <3>1, <4>1, <4>2 DEF Find
      <3>2. CASE Fill(k)
        BY <1>0, <3>2 DEF Fill, Continue, Call
      <3> QED
        BY <1>2, <3>1, <3>2
    <2>2. \A l \in List : ~Adds(call'[k], l)
      BY <2>1 DEF Adds
    <2> QED
      BY <1>1, <2>2, FitGoesOn
  <1>3. CASE CreateList(k) \/ RecordList(k)
    <2>1. /\ call'[k].list = call[k].list /\ call'[k].on = call[k].on
          /\ call'[k].then = call[k].then
          /\ call[k].pc \in Making
          /\ call'[k].pc \in {"recording", call[k].then}
      BY <1>0, <1>3 DEF CreateList, RecordList, Continue, Call
    <2>2. CASE call[k].on \in Cred /\ call[k].then = "picking"
      BY <1>1, <2>1, <2>2, FitGoesOn DEF Adds
    <2>3. CASE call[k].on \notin Cred \/ call[k].then # "picking"
      <3>1. call[k].then \in {"counting", "picking"}
        BY <1>0, CallParts
      <3>2. \A l \in List : ~Adds(call'[k], l)
        BY <2>1, <2>3, <3>1 DEF Adds
      <3> QED
        BY <1>1, <3>2, FitGoesOn
    <2> QED
      BY <2>2, <2>3
  <1>4. CASE Pick(k)
    <2>1. PICK i \in Index :
            Continue(k, IF call[k].on = None THEN NoCall
                        ELSE [call[k] EXCEPT !.pc = "signing", !.index = i])
      BY <1>4 DEF Pick
    <2>2. CASE call[k].on = None
      <3>1. call'[k] = NoCall
        BY <1>0, <2>1, <2>2 DEF Continue
      <3>2. \A l \in List : ~Adds(call'[k], l)
        BY <3>1 DEF Adds
      <3> QED
        BY <1>1, <3>2, FitGoesOn
    <2>3. CASE call[k].on # None
      <3>1. call'[k].list = call[k].list /\ call'[k].on = call[k].on
        BY <1>0, <2>1, <2>3 DEF Continue, Call
      <3>2. Adds(call[k], call[k].list)
        BY <1>0, <1>4, <2>3, CallParts DEF Pick, Adds
      <3> QED
        BY <1>1, <3>1, <3>2, FitGoesOn
    <2> QED
      BY <2>2, <2>3
  <1>5. CASE Publish(k) \/ SaveList(k)
    <2>1. call'[k].list = call[k].list /\ call'[k].on = call[k].on
      BY <1>0, <1>5 DEF Publish, SaveList, Continue, Call
    <2>2. Adds(call[k], call[k].list)
      BY <1>0, <1>5 DEF Publish, SaveList, Adds, Shape
    <2> QED
      BY <1>1, <2>1, <2>2, FitGoesOn
  <1> QED
    BY <1>2, <1>3, <1>4, <1>5

\* The steps that save or delete a credential and end the call.
LEMMA FitSaved ==
  ASSUME Stepping, Fitting, NEW k \in Client,
         SaveIssued(k) \/ Flag(k) \/ Remove(k)
  PROVE  Fitting'
  <1> USE Records, Numbers
  <1> DEFINE a == call[k].on
  <1>0. /\ call \in [Client -> Call] /\ call[k] \in Call
        /\ Shape(call[k], statusList)
        /\ credential \in [Cred -> CredentialRow]
    BY Places DEF Stepping, TypeInv, TypeOK
  <1>1. /\ call'[k] = NoCall
        /\ \A j \in Client : j # k => call'[j] = call[j]
    BY <1>0 DEF SaveIssued, Flag, Remove, Continue
  <1>2. a \in Cred
    BY <1>0 DEF Shape, SaveIssued, Flag, Remove
  <1>3. \A c \in Cred : c # a => credential'[c] = credential[c]
    BY <1>0, <1>2 DEF SaveIssued, Flag, Remove
  <1>4. \/ credential'[a].list = call[k].list /\ Adds(call[k], call[k].list)
        \/ credential'[a].list \in {None, credential[a].list}
    <2>0. credential[a] \in CredentialRow
      BY <1>0, <1>2
    <2>1. CASE SaveIssued(k)
      <3>1. CASE call[k].list = None
        <4>1. credential'[a] = [credential[a] EXCEPT !.exists = TRUE]
          BY <1>0, <1>2, <2>1, <3>1 DEF SaveIssued
        <4> QED
          BY <2>0, <4>1 DEF CredentialRow
      <3>2. CASE call[k].list # None
        <4>1. /\ credential'[a] = [credential[a] EXCEPT !.exists = TRUE,
                       !.list = call[k].list, !.index = call[k].index]
              /\ call[k].pc = "signing"
          BY <1>0, <1>2, <2>1, <3>2 DEF SaveIssued
        <4>2. credential'[a].list = call[k].list
          BY <2>0, <4>1 DEF CredentialRow
        <4>3. Adds(call[k], call[k].list)
          BY <1>2, <4>1 DEF Adds
        <4> QED
          BY <4>2, <4>3
      <3> QED
        BY <3>1, <3>2
    <2>2. CASE Flag(k)
      <3>1. /\ call[k].pc = "flagging" /\ call[k].old \in CredentialRow
            /\ call[k].old.list = call[k].list
        BY <1>0, <2>2, CallParts DEF Flag, Shape
      <3>2. credential'[a] = [call[k].old EXCEPT !.revoked = TRUE]
        BY <1>0, <1>2, <2>2 DEF Flag
      <3>3. credential'[a].list = call[k].list
        BY <3>1, <3>2 DEF CredentialRow
      <3>4. Adds(call[k], call[k].list)
        BY <1>2, <3>1 DEF Adds
      <3> QED
        BY <3>3, <3>4
    <2>3. CASE Remove(k)
      BY <1>0, <1>2, <2>3 DEF Remove
    <2> QED
      BY <2>1, <2>2, <2>3
  <1>5. ASSUME NEW c \in Cred, NEW l \in List, credential'[c].list = l
        PROVE  c \in Entries(l)
    <2>1. CASE credential[c].list = l
      BY <2>1 DEF Entries, Using
    <2>2. CASE credential[c].list # l
      <3>1. c = a /\ call[k].list = l /\ Adds(call[k], l)
        BY <1>3, <1>4, <1>5, <2>2
      <3> QED
        BY <3>1 DEF Entries, Coming
    <2> QED
      BY <2>1, <2>2
  <1>6. \A l \in List : ~Adds(call'[k], l)
    BY <1>1 DEF Adds
  <1> QED
    BY <1>1, <1>5, <1>6, FitKept

LEMMA FitTrouble ==
  ASSUME Stepping, Fitting,
         \/ \E k \in Client : Fail(k)
         \/ \E K \in Boots : Restart(K)
  PROVE  Fitting'
  <1> USE Records, Numbers
  <1>0. call \in [Client -> Call]
    BY DEF Stepping, TypeInv, TypeOK
  <1>1. /\ UNCHANGED credential
        /\ \A k \in Client : call'[k] = call[k] \/ call'[k].list = None
    BY <1>0 DEF Fail, Restart, Booted, NoCall
  <1>2. ASSUME NEW l \in List PROVE Entries(l)' \subseteq Entries(l)
    BY <1>1 DEF Entries, Using, Coming, Adds
  <1> QED
    BY <1>2, FitFewer DEF Fitting

LEMMA FitStep ==
  ASSUME Stepping, ListInv, Fitting, [Next]_vars
  PROVE  Fitting'
  <1>1. ASSUME NEW k \in Client, Step(k) PROVE Fitting'
    BY <1>1, FitBegins, FitGoes, FitCount, FitName, FitSaved, FitTrouble
    DEF Step, IssueByIdentifier, IssueByName, Update
  <1>2. CASE UNCHANGED vars
    <2>1. \A l \in List : Entries(l)' \subseteq Entries(l)
      BY <1>2 DEF vars, Entries, Using, Coming
    <2> QED
      BY <2>1, FitFewer DEF Fitting
  <1> QED
    BY <1>1, <1>2, FitTrouble DEF Next

LEMMA FitInit == Init => Fitting
  <1> SUFFICES ASSUME Init, NEW l \in List
               PROVE  Cardinality(Entries(l)) <= Room(l)
    BY DEF Fitting
  <1> USE Records, Numbers
  <1>1. Using(l) = {}
    BY DEF Init, Using
  <1>2. \A k \in Client : call[k].list = None
    <2> SUFFICES ASSUME NEW K \in Boots, call = Booted(K), NEW k \in Client
                 PROVE  call[k].list = None
      BY DEF Init
    <2> QED
      BY DEF Booted, NoCall
  <1>3. Entries(l) = {}
    BY <1>1, <1>2 DEF Entries, Coming, Adds
  <1> QED
    BY <1>3, FS_EmptySet, Sizes

\* A status list has at most statusListCount entries, and calls that count them
\* at the same time exceed it by less than their number
\* (assignStatusListIndex).
THEOREM StatusListsFit == Spec => []ListsFit
  <1>1. Fitting => ListsFit
    <2> SUFFICES ASSUME Fitting, NEW l \in List
                 PROVE  Cardinality(Using(l)) <= Room(l)
      BY DEF ListsFit, Room
    <2>1. Using(l) \subseteq Entries(l) /\ Entries(l) \in SUBSET Cred
      BY DEF Entries, Using, Coming
    <2>2. Cardinality(Using(l)) <= Cardinality(Entries(l))
      BY <2>1, FiniteEntries, FS_Subset
    <2>3. Cardinality(Using(l)) \in Nat /\ Cardinality(Entries(l)) \in Nat
      BY <2>1, FiniteEntries
    <2> QED
      BY <2>2, <2>3, Sizes DEF Fitting
  <1>2. TypeInv /\ TypeInv' /\ ListInv /\ Fitting /\ [Next]_vars => Fitting'
    BY FitStep, RacedStep DEF Stepping, ListInv
  <1>3. Spec => [](TypeInv /\ ListInv)
    BY Invariants, PTL
  <1> QED
    BY <1>1, <1>2, <1>3, FitInit, PTL DEF Spec
=============================================================================
